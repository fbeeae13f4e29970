------------------------ MODULE DatabaseLock_proofs ------------------------
(***************************************************************************)
(* Proofs about DatabaseLock, for every set of requests, names, lifetimes  *)
(* and every bound of the clock.                                           *)
(***************************************************************************)
EXTENDS DatabaseLock, TLAPS

-----------------------------------------------------------------------------
(* Facts about call frames.                                                *)

(* A request that is in a call has the frame of a call.                    *)
LEMMA InCallFrame ==
  ASSUME TypeOK, NEW p \in Request, call[p].at \in InCall
  PROVE  call[p] \in Frame
<1>1. call[p] \in Frame \union Between
  BY DEF TypeOK
<1>2. call[p] \notin Between
  BY DEF Between, InCall, Outside, Finished
<1> QED
  BY <1>1, <1>2

(* Going on within a call keeps frames well typed.                         *)
LEMMA GotoType ==
  ASSUME TypeOK, NEW p \in Request, call[p].at \in InCall,
         NEW l \in InCall, Goto(p, l)
  PROVE  call' \in [Request -> Frame \union Between]
<1>1. call[p] \in Frame
  BY InCallFrame
<1>2. [call[p] EXCEPT !.at = l] \in Frame
  BY <1>1 DEF Frame
<1> QED
  BY <1>2 DEF Goto, TypeOK

(* So does going back to the loop of acquire() for a retry.                *)
LEMMA RetryType ==
  ASSUME TypeOK, NEW p \in Request, call[p].at \in InCall,
         call' = [call EXCEPT ![p].at = "insert", ![p].retry = TRUE]
  PROVE  call' \in [Request -> Frame \union Between]
<1>1. call[p] \in Frame
  BY InCallFrame
<1>2. [call[p] EXCEPT !.at = "insert", !.retry = TRUE] \in Frame
  BY <1>1 DEF Frame, InCall
<1> QED
  BY <1>2 DEF TypeOK

(* So does returning.                                                      *)
LEMMA ReturnType ==
  ASSUME TypeOK, NEW p \in Request, NEW l \in Outside, Return(p, l)
  PROVE  call' \in [Request -> Frame \union Between]
<1>1. [at |-> l] \in Between
  BY DEF Between
<1> QED
  BY <1>1 DEF Return, TypeOK

(* So does entering a call.                                                *)
LEMMA EnterType ==
  ASSUME TypeOK, NEW p \in Request, NEW l \in InCall,
         NEW m \in {"acquire", "wait", "release"}, NEW n \in Name,
         NEW e \in Nat, NEW k \in Nat, Enter(p, l, m, n, e, k)
  PROVE  call' \in [Request -> Frame \union Between]
<1>1. NoRow \in Row
  BY DEF NoRow, Row
<1>2. [at |-> l, method |-> m, name |-> n, expire |-> e, retry |-> FALSE,
       seen |-> NoRow, polls |-> k] \in Frame
  BY <1>1 DEF Frame
<1> QED
  BY <1>2 DEF Enter, TypeOK

-----------------------------------------------------------------------------
(* Type correctness.  A wait() that sleeps has a poll left, so polls stays *)
(* a natural number; that is why FramesOK goes along.                      *)

LEMMA TypeInit == Init => TypeOK /\ FramesOK
<1> SUFFICES ASSUME Init PROVE TypeOK /\ FramesOK
  OBVIOUS
<1>1. NoRow \in Row
  BY DEF NoRow, Row
<1>2. [at |-> "idle"] \in Between
  BY DEF Between, Outside
<1>3. TypeOK
  BY <1>1, <1>2 DEF Init, TypeOK
<1>4. FramesOK
  BY DEF Init, FramesOK
<1> QED
  BY <1>3, <1>4

(* Every step of a call keeps the types.                                   *)
LEMMA TypeStep ==
  ASSUME TypeOK, FramesOK, NEW p \in Request, Step(p)
  PROVE  TypeOK'
<1> USE DEF InCall, Outside, Finished
<1>0. NoRow \in Row
  BY DEF NoRow, Row
<1>1. CASE Extend(p)
  <2>1. call[p] \in Frame
    BY <1>1, InCallFrame DEF Extend
  <2>2. call[p].name \in Name /\ call[p].expire \in Nat
    BY <2>1 DEF Frame
  <2>3. semaphore' \in [Name -> Row]
    <3>1. [semaphore[call[p].name] EXCEPT !.expire = call[p].expire] \in Row
      BY <2>2 DEF TypeOK, Row
    <3> QED
      BY <1>1, <2>2, <3>1 DEF Extend, TypeOK
  <2>4. locks' \in [Request -> [Name -> Nat]]
    BY <1>1, <2>2 DEF Extend, TypeOK
  <2>5. call' \in [Request -> Frame \union Between]
    BY <1>1, ReturnType DEF Extend
  <2> QED
    BY <1>1, <2>3, <2>4, <2>5 DEF Extend, TypeOK
<1>2. CASE InsertRow(p)
  <2>1. call[p] \in Frame
    BY <1>2, InCallFrame DEF InsertRow
  <2>2. call[p].name \in Name /\ call[p].expire \in Nat
    BY <2>1 DEF Frame
  <2>3. [value |-> LockId(p), expire |-> call[p].expire] \in Row
    BY <2>2 DEF Row, LockId, LockIds
  <2>4. semaphore' \in [Name -> Row]
    BY <1>2, <2>2, <2>3 DEF InsertRow, TypeOK
  <2>5. locks' \in [Request -> [Name -> Nat]]
    BY <1>2, <2>2 DEF InsertRow, TypeOK
  <2>6. call' \in [Request -> Frame \union Between]
    BY <1>2, ReturnType DEF InsertRow
  <2> QED
    BY <1>2, <2>4, <2>5, <2>6 DEF InsertRow, TypeOK
<1>3. CASE InsertConflict(p)
  <2>1. call' \in [Request -> Frame \union Between]
    BY <1>3, ReturnType, GotoType DEF InsertConflict
  <2> QED
    BY <1>3, <2>1 DEF InsertConflict, TypeOK
<1>4. CASE InsertNoTable(p)
  <2>1. call' \in [Request -> Frame \union Between]
    BY <1>4, GotoType DEF InsertNoTable
  <2> QED
    BY <1>4, <2>1 DEF InsertNoTable, TypeOK
<1>5. CASE EnsureTable(p)
  <2>1. call' \in [Request -> Frame \union Between]
    BY <1>5, ReturnType, GotoType DEF EnsureTable
  <2> QED
    BY <1>5, <2>1 DEF EnsureTable, TypeOK
<1>6. CASE CreateTable(p)
  <2>1. call' \in [Request -> Frame \union Between]
    BY <1>6, ReturnType, RetryType DEF CreateTable
  <2> QED
    BY <1>6, <2>1 DEF CreateTable, TypeOK
<1>7. CASE Select(p)
  <2>1. call[p] \in Frame
    BY <1>7, InCallFrame DEF Select
  <2>2. CASE call' = [call EXCEPT ![p].at = "break",
                                  ![p].seen = semaphore[call[p].name]]
    <3>1. semaphore[call[p].name] \in Row
      BY <2>1 DEF Frame, TypeOK
    <3>2. [call[p] EXCEPT !.at = "break",
                          !.seen = semaphore[call[p].name]] \in Frame
      BY <2>1, <3>1 DEF Frame
    <3> QED
      BY <1>7, <2>2, <3>2 DEF Select, TypeOK
  <2>3. CASE ReturnAvailable(p) \/ Goto(p, "recheck")
    <3>1. call' \in [Request -> Frame \union Between]
      BY <1>7, <2>3, RetryType, ReturnType, GotoType
      DEF Select, ReturnAvailable
    <3> QED
      BY <1>7, <3>1 DEF Select, TypeOK
  <2> QED
    BY <1>7, <2>2, <2>3 DEF Select
<1>8. CASE Break(p)
  <2>1. semaphore' \in [Name -> Row]
    BY <1>8, <1>0 DEF Break, TypeOK
  <2>2. ReturnAvailable(p) \/ ReturnUnavailable(p)
    BY <1>8 DEF Break
  <2>3. call' \in [Request -> Frame \union Between]
    BY <1>8, <2>2, RetryType, ReturnType, GotoType
    DEF Break, ReturnAvailable, ReturnUnavailable
  <2> QED
    BY <1>8, <2>1, <2>3 DEF Break, TypeOK
<1>9. CASE Recheck(p)
  <2>1. call' \in [Request -> Frame \union Between]
    BY <1>9, ReturnType DEF Recheck
  <2> QED
    BY <1>9, <2>1 DEF Recheck, TypeOK
<1>10. CASE Sleep(p)
  <2>1. call[p] \in Frame /\ call[p].polls > 0
    BY <1>10, InCallFrame DEF Sleep, FramesOK
  <2>2. call[p].polls \in Nat /\ call[p].polls - 1 \in Nat
    BY <2>1 DEF Frame
  <2>3. [call[p] EXCEPT !.at = "select", !.polls = call[p].polls - 1] \in Frame
    BY <2>1, <2>2 DEF Frame
  <2>4. call' \in [Request -> Frame \union Between]
    BY <1>10, <2>3 DEF Sleep, TypeOK
  <2> QED
    BY <1>10, <2>4 DEF Sleep, TypeOK
<1> QED
  BY <1>1, <1>2, <1>3, <1>4, <1>5, <1>6, <1>7, <1>8, <1>9, <1>10 DEF Step

(* So does whatever a request may call, and its end.                       *)
LEMMA TypeCall ==
  ASSUME TypeOK, NEW p \in Request, Call(p)
  PROVE  TypeOK'
<1> USE DEF InCall, Outside, Finished
<1>0. NoRow \in Row
  BY DEF NoRow, Row
<1>1. ASSUME NEW n \in Name, NEW t \in Timeouts, Acquire(p, n, t)
      PROVE  TypeOK'
  <2>1. now + t \in Nat
    BY TimeoutsAssumption DEF TypeOK
  <2>2. call' \in [Request -> Frame \union Between]
    BY <1>1, <2>1, EnterType DEF Acquire
  <2> QED
    BY <1>1, <2>2 DEF Acquire, TypeOK
<1>2. ASSUME NEW n \in Name, NEW k \in Polls, Wait(p, n, k)
      PROVE  TypeOK'
  <2>1. k \in Nat
    BY BoundsAssumption
  <2>2. call' \in [Request -> Frame \union Between]
    BY <1>2, <2>1, EnterType DEF Wait
  <2> QED
    BY <1>2, <2>2 DEF Wait, TypeOK
<1>3. ASSUME NEW n \in Name, Release(p, n)
      PROVE  TypeOK'
  <2>1. semaphore' \in [Name -> Row]
    BY <1>3, <1>0 DEF Release, TypeOK
  <2>2. locks' \in [Request -> [Name -> Nat]]
    BY <1>3 DEF Release, TypeOK
  <2>3. call' \in [Request -> Frame \union Between]
    BY <1>3, EnterType DEF Release, TypeOK
  <2> QED
    BY <1>3, <2>1, <2>2, <2>3 DEF Release, TypeOK
<1>4. CASE Shutdown(p)
  <2>1. semaphore' \in [Name -> Row]
    BY <1>4, <1>0 DEF Shutdown, TypeOK
  <2>2. locks' \in [Request -> [Name -> Nat]]
    BY <1>4 DEF Shutdown, TypeOK
  <2>3. call' \in [Request -> Frame \union Between]
    BY <1>4, ReturnType DEF Shutdown
  <2> QED
    BY <1>4, <2>1, <2>2, <2>3 DEF Shutdown, TypeOK
<1>5. CASE Crash(p)
  <2>1. locks' \in [Request -> [Name -> Nat]]
    BY <1>5 DEF Crash, TypeOK
  <2>2. call' \in [Request -> Frame \union Between]
    BY <1>5, ReturnType DEF Crash
  <2> QED
    BY <1>5, <2>1, <2>2 DEF Crash, TypeOK
<1> QED
  BY <1>1, <1>2, <1>3, <1>4, <1>5 DEF Call

(* What the three ways to change a call leave of it.                       *)
LEMMA GotoFields ==
  ASSUME TypeOK, NEW p \in Request, call[p].at \in InCall,
         NEW l \in InCall, Goto(p, l)
  PROVE  /\ call'[p].at = l
         /\ call'[p].method = call[p].method
         /\ call'[p].expire = call[p].expire
         /\ call'[p].polls = call[p].polls
<1>1. call[p] \in Frame
  BY InCallFrame
<1>2. call'[p] = [call[p] EXCEPT !.at = l]
  BY DEF Goto, TypeOK
<1> QED
  BY <1>1, <1>2 DEF Frame

LEMMA RetryFields ==
  ASSUME TypeOK, NEW p \in Request, call[p].at \in InCall,
         call' = [call EXCEPT ![p].at = "insert", ![p].retry = TRUE]
  PROVE  /\ call'[p].at = "insert"
         /\ call'[p].expire = call[p].expire
<1>1. call[p] \in Frame
  BY InCallFrame
<1>2. call'[p] = [call[p] EXCEPT !.at = "insert", !.retry = TRUE]
  BY DEF TypeOK
<1>3. /\ "at" \in DOMAIN call[p]
      /\ "expire" \in DOMAIN call[p]
      /\ "retry" \in DOMAIN call[p]
  BY <1>1 DEF Frame
<1> QED
  BY <1>2, <1>3, Zenon

LEMMA ReturnFields ==
  ASSUME TypeOK, NEW p \in Request, NEW l, Return(p, l)
  PROVE  call'[p].at = l
BY DEF Return, TypeOK

(* FramesOK is kept by a request's own steps; others do not touch its call. *)
LEMMA FramesStep ==
  ASSUME TypeOK, FramesOK, NEW p \in Request, Step(p) \/ Call(p)
  PROVE  FramesOK'
<1> SUFFICES ASSUME NEW q \in Request
             PROVE  /\ \/ call'[q].at \in {"extend", "insert", "ensure", "create"}
                       \/ /\ call'[q].at \in {"select", "break"}
                          /\ call'[q].method = "acquire"
                       => call'[q].expire > 0
                    /\ call'[q].at = "sleep" =>
                         call'[q].method = "wait" /\ call'[q].polls > 0
  BY DEF FramesOK
<1> USE DEF FramesOK, InCall, Outside, Finished
<1>1. ASSUME p # q PROVE call'[q] = call[q]
  BY <1>1 DEF Step, Call, Extend, InsertRow, InsertConflict, InsertNoTable,
     EnsureTable, CreateTable, Select, Break, Recheck, Sleep, ReturnAvailable,
     ReturnUnavailable, Acquire, Wait, Release, Shutdown, Crash, Goto, Return,
     Enter, TypeOK
<1>2. CASE p # q
  BY <1>1, <1>2
<1>3. CASE p = q
  <2>1. CASE Step(p)
    <3>1. CASE Extend(p) \/ InsertRow(p) \/ Recheck(p)
      <4>1. call'[p].at \in Outside
        BY <3>1, ReturnFields DEF Extend, InsertRow, Recheck
      <4> QED
        BY <1>3, <4>1
    <3>2. CASE InsertConflict(p)
      <4>1. CASE Return(p, "idle")
        BY <1>3, <4>1, ReturnFields
      <4>2. CASE Goto(p, "select")
        BY <1>3, <3>2, <4>2, GotoFields DEF InsertConflict
      <4> QED
        BY <3>2, <4>1, <4>2 DEF InsertConflict
    <3>3. CASE InsertNoTable(p)
      BY <1>3, <3>3, GotoFields DEF InsertNoTable
    <3>4. CASE EnsureTable(p)
      <4>1. CASE Return(p, "failed")
        BY <1>3, <4>1, ReturnFields
      <4>2. CASE Goto(p, "create")
        BY <1>3, <3>4, <4>2, GotoFields DEF EnsureTable
      <4> QED
        BY <3>4, <4>1, <4>2 DEF EnsureTable
    <3>5. CASE CreateTable(p)
      <4>1. CASE Return(p, "idle")
        BY <1>3, <4>1, ReturnFields
      <4>2. CASE call' = [call EXCEPT ![p].at = "insert", ![p].retry = TRUE]
        BY <1>3, <3>5, <4>2, RetryFields DEF CreateTable
      <4> QED
        BY <3>5, <4>1, <4>2 DEF CreateTable
    <3>6. CASE Select(p)
      <4>1. CASE Goto(p, "recheck")
        BY <1>3, <3>6, <4>1, GotoFields DEF Select
      <4>2. CASE ReturnAvailable(p)
        BY <1>3, <3>6, <4>2, RetryFields, ReturnFields
        DEF Select, ReturnAvailable
      <4>3. CASE call' = [call EXCEPT ![p].at = "break",
                                      ![p].seen = semaphore[call[p].name]]
        <5>1. call[p] \in Frame
          BY <3>6, InCallFrame DEF Select
        <5>2. call'[p] = [call[p] EXCEPT !.at = "break",
                                         !.seen = semaphore[call[p].name]]
          BY <4>3 DEF TypeOK
        <5>3. /\ call'[p].at = "break"
              /\ call'[p].method = call[p].method
              /\ call'[p].expire = call[p].expire
          BY <5>1, <5>2 DEF Frame
        <5> QED
          BY <1>3, <3>6, <5>3 DEF Select
      <4> QED
        BY <3>6, <4>1, <4>2, <4>3 DEF Select
    <3>7. CASE Break(p)
      <4>1. CASE ReturnAvailable(p)
        BY <1>3, <3>7, <4>1, RetryFields, ReturnFields
        DEF Break, ReturnAvailable
      <4>2. CASE ReturnUnavailable(p)
        BY <1>3, <3>7, <4>2, GotoFields, ReturnFields
        DEF Break, ReturnUnavailable
      <4> QED
        BY <3>7, <4>1, <4>2 DEF Break
    <3>8. CASE Sleep(p)
      <4>1. call[p] \in Frame
        BY <3>8, InCallFrame DEF Sleep
      <4>2. call'[p] = [call[p] EXCEPT !.at = "select", !.polls = call[p].polls - 1]
        BY <3>8 DEF Sleep, TypeOK
      <4>3. call'[p].at = "select" /\ call'[p].method = call[p].method
            /\ call'[p].expire = call[p].expire
        BY <4>1, <4>2 DEF Frame
      <4> QED
        BY <1>3, <3>8, <4>3 DEF Sleep
    <3> QED
      BY <2>1, <3>1, <3>2, <3>3, <3>4, <3>5, <3>6, <3>7, <3>8 DEF Step
  <2>2. CASE Call(p)
    <3>1. ASSUME NEW n \in Name, NEW t \in Timeouts, Acquire(p, n, t)
          PROVE  call'[q].expire > 0 /\ call'[q].at # "sleep"
      BY <1>3, <3>1, TimeoutsAssumption DEF Acquire, Enter, TypeOK
    <3>2. ASSUME NEW n \in Name, NEW k \in Polls, Wait(p, n, k)
          PROVE  /\ call'[q].at = "sleep" /\ call'[q].method = "wait"
                 /\ call'[q].polls > 0
      BY <1>3, <3>2, BoundsAssumption DEF Wait, Enter, TypeOK
    <3>3. CASE \/ \E n \in Name : Release(p, n)
               \/ Shutdown(p) \/ Crash(p)
      BY <1>3, <3>3 DEF Release, Shutdown, Crash, Return, Enter, TypeOK
    <3> QED
      BY <2>2, <3>1, <3>2, <3>3 DEF Call
  <2> QED
    BY <2>1, <2>2
<1> QED
  BY <1>2, <1>3

(* DatabaseLock keeps its types: the table holds rows, a request's record  *)
(* holds lifetimes, and the locals of a call are what the code puts there. *)
THEOREM TypeCorrect == Spec => []TypeOK
<1>1. Init => TypeOK /\ FramesOK
  BY TypeInit
<1>2. TypeOK /\ FramesOK /\ [Next]_vars => (TypeOK /\ FramesOK)'
  <2> SUFFICES ASSUME TypeOK, FramesOK, [Next]_vars PROVE (TypeOK /\ FramesOK)'
    OBVIOUS
  <2>1. CASE UNCHANGED vars
    BY <2>1 DEF vars, TypeOK, FramesOK
  <2>2. CASE Tick
    BY <2>2 DEF Tick, TypeOK, FramesOK
  <2>3. ASSUME NEW p \in Request, Step(p) \/ Call(p)
        PROVE  (TypeOK /\ FramesOK)'
    BY <2>3, TypeStep, TypeCall, FramesStep
  <2> QED
    BY <2>1, <2>2, <2>3 DEF Next
<1> QED
  BY <1>1, <1>2, PTL DEF Spec

-----------------------------------------------------------------------------
(* The invariant of the default backend, whose lock ids are unique.        *)

(* Who is finished, and how, changes only by Shutdown and Crash.           *)
LEMMA StepGoesOn ==
  ASSUME TypeOK, NEW p \in Request, Step(p)
  PROVE  /\ call[p].at \in InCall
         /\ call'[p].at \in InCall \union {"idle", "failed"}
         /\ \A q \in Request \ {p} : call'[q] = call[q]
<1> USE DEF InCall, Outside, Finished
<1>1. call[p].at \in InCall
  BY DEF Step, Extend, InsertRow, InsertConflict, InsertNoTable, EnsureTable,
     CreateTable, Select, Break, Recheck, Sleep
<1>2. \A q \in Request \ {p} : call'[q] = call[q]
  BY DEF Step, Extend, InsertRow, InsertConflict, InsertNoTable, EnsureTable,
     CreateTable, Select, Break, Recheck, Sleep, ReturnAvailable,
     ReturnUnavailable, Goto, Return, TypeOK
<1>3. \A l \in InCall : Goto(p, l) => call'[p].at = l
  BY <1>1, GotoFields
<1>4. \A l : Return(p, l) => call'[p].at = l
  BY ReturnFields
<1>5. call' = [call EXCEPT ![p].at = "insert", ![p].retry = TRUE]
        => call'[p].at = "insert"
  BY <1>1, RetryFields
<1>6. CASE Extend(p) \/ InsertRow(p) \/ InsertConflict(p) \/ InsertNoTable(p)
  BY <1>1, <1>2, <1>3, <1>4, <1>6
  DEF Extend, InsertRow, InsertConflict, InsertNoTable
<1>7. CASE EnsureTable(p) \/ CreateTable(p) \/ Recheck(p)
  BY <1>1, <1>2, <1>3, <1>4, <1>5, <1>7 DEF EnsureTable, CreateTable, Recheck
<1>8. CASE Select(p)
  <2>1. CASE call' = [call EXCEPT ![p].at = "break",
                                  ![p].seen = semaphore[call[p].name]]
    <3>1. call[p] \in Frame
      BY <1>1, InCallFrame
    <3>2. call'[p] = [call[p] EXCEPT !.at = "break",
                                     !.seen = semaphore[call[p].name]]
      BY <2>1 DEF TypeOK
    <3> QED
      BY <1>1, <1>2, <3>1, <3>2 DEF Frame
  <2>2. CASE ReturnAvailable(p) \/ Goto(p, "recheck")
    BY <1>1, <1>2, <1>3, <1>4, <1>5, <2>2 DEF ReturnAvailable
  <2> QED
    BY <1>8, <2>1, <2>2 DEF Select
<1>9. CASE Break(p)
  <2>1. ReturnAvailable(p) \/ ReturnUnavailable(p)
    BY <1>9 DEF Break
  <2> QED
    BY <1>1, <1>2, <1>3, <1>4, <1>5, <2>1 DEF ReturnAvailable, ReturnUnavailable
<1>10. CASE Sleep(p)
  <2>1. call[p] \in Frame
    BY <1>1, InCallFrame
  <2>2. call'[p] = [call[p] EXCEPT !.at = "select", !.polls = call[p].polls - 1]
    BY <1>10 DEF Sleep, TypeOK
  <2> QED
    BY <1>1, <1>2, <2>1, <2>2 DEF Frame
<1> QED
  BY <1>6, <1>7, <1>8, <1>9, <1>10 DEF Step

(* The steps of a call that change the table or a record, and their rows.  *)
LEMMA InvStep ==
  ASSUME ~Persistent, Inv, NEW p \in Request, Step(p)
  PROVE  (RowsOK /\ FinishedForgets /\ RecordBacked)'
<1> USE DEF Finished, InCall
<1>1. TypeOK /\ FramesOK /\ RowsOK /\ FinishedForgets /\ RecordBacked
  BY DEF Inv
<1>2. LockId(p) = p /\ p # Nobody /\ LockId(p) # Nobody
  BY IdsAssumption DEF LockId
<1>3. /\ call[p].at \in InCall
      /\ \A q \in Request : call'[q].at \in Finished => call[q].at \in Finished
      /\ \A q \in Request : call'[q].at # "crashed" => call[q].at # "crashed"
      /\ locks \in [Request -> [Name -> Nat]]
      /\ semaphore \in [Name -> Row]
      /\ now' = now
  <2>1. now' = now
    BY DEF Step, Extend, InsertRow, InsertConflict, InsertNoTable, EnsureTable,
       CreateTable, Select, Break, Recheck, Sleep
  <2> QED
    BY <1>1, <2>1, StepGoesOn DEF TypeOK
<1>4. call[p] \in Frame
  BY <1>1, <1>3, InCallFrame
<1>5. call[p].name \in Name /\ call[p].expire \in Nat /\ call[p].seen \in Row
  BY <1>4 DEF Frame
<1>6. CASE UNCHANGED <<semaphore, locks>>
  BY <1>1, <1>3, <1>6
  DEF RowsOK, FinishedForgets, RecordBacked, Holds, Present
<1>7. CASE Extend(p)
  <2> DEFINE n == call[p].name
             e == call[p].expire
  <2>1. e > 0
    BY <1>1, <1>7 DEF Extend, FramesOK
  <2>2. CASE /\ semaphore[n].value = p
             /\ semaphore' = [semaphore EXCEPT ![n].expire = e]
             /\ locks' = [locks EXCEPT ![p][n] = e]
    <3>1. semaphore'[n].value = p /\ semaphore'[n].expire = e
      BY <1>3, <1>5, <2>2 DEF Row
    <3>2. \A m \in Name \ {n} : semaphore'[m] = semaphore[m]
      BY <1>3, <2>2
    <3>3. \A q \in Request, m \in Name :
            locks'[q][m] = IF q = p /\ m = n THEN e ELSE locks[q][m]
      BY <1>3, <1>5, <2>2
    <3>4. \A q \in Request : q # p => ~Holds(q, n)
      BY <1>1, <1>5, <2>2 DEF RecordBacked
    <3>5. RowsOK'
      BY <1>1, <1>2, <2>1, <3>1, <3>2 DEF RowsOK, Present
    <3>6. FinishedForgets'
      BY <1>1, <1>3, <3>3 DEF FinishedForgets
    <3>7. RecordBacked'
      BY <1>1, <1>3, <1>5, <2>1, <3>1, <3>2, <3>3, <3>4 DEF RecordBacked, Holds
    <3> QED
      BY <3>5, <3>6, <3>7
  <2>3. CASE /\ semaphore[n].value # p
             /\ semaphore' = semaphore
             /\ locks' = [locks EXCEPT ![p][n] = 0]
    <3>1. \A q \in Request, m \in Name :
            locks'[q][m] = IF q = p /\ m = n THEN 0 ELSE locks[q][m]
      BY <1>3, <1>5, <2>3
    <3> QED
      BY <1>1, <1>3, <2>3, <3>1
      DEF RowsOK, FinishedForgets, RecordBacked, Holds, Present
  <2> QED
    BY <1>2, <1>7, <2>2, <2>3 DEF Extend
<1>8. CASE InsertRow(p)
  <2> DEFINE n == call[p].name
             e == call[p].expire
  <2>1. e > 0
    BY <1>1, <1>8 DEF InsertRow, FramesOK
  <2>2. /\ semaphore[n].value = Nobody
        /\ semaphore'[n] = [value |-> p, expire |-> e]
        /\ \A m \in Name \ {n} : semaphore'[m] = semaphore[m]
    BY <1>2, <1>3, <1>5, <1>8 DEF InsertRow, Present
  <2>3. \A q \in Request, m \in Name :
          locks'[q][m] = IF q = p /\ m = n THEN e ELSE locks[q][m]
    BY <1>3, <1>5, <1>8 DEF InsertRow
  <2>4. \A q \in Request : ~Holds(q, n)
    BY <1>1, <1>5, <2>2, IdsAssumption DEF RecordBacked
  <2>5. RowsOK'
    BY <1>1, <1>2, <2>1, <2>2 DEF RowsOK, Present
  <2>6. FinishedForgets'
    BY <1>1, <1>3, <2>3 DEF FinishedForgets
  <2>7. RecordBacked'
    BY <1>1, <1>3, <1>5, <2>1, <2>2, <2>3, <2>4 DEF RecordBacked, Holds
  <2> QED
    BY <2>5, <2>6, <2>7
<1>9. CASE Break(p) /\ semaphore' # semaphore
  <2> DEFINE n == call[p].name
  <2>1. /\ now > semaphore[n].expire
        /\ semaphore' = [semaphore EXCEPT ![n] = NoRow]
        /\ locks' = locks
    <3>1. /\ now > call[p].seen.expire
          /\ semaphore[n].expire <= call[p].seen.expire
          /\ semaphore' = [semaphore EXCEPT ![n] = NoRow]
          /\ locks' = locks
      BY <1>9 DEF Break
    <3>2. /\ now \in Nat /\ call[p].seen.expire \in Nat
          /\ semaphore[n].expire \in Nat
      BY <1>1, <1>5 DEF TypeOK, Row
    <3> QED
      BY <3>1, <3>2
  <2>2. /\ semaphore'[n] = NoRow /\ semaphore'[n].value = Nobody
        /\ \A m \in Name \ {n} : semaphore'[m] = semaphore[m]
    BY <1>3, <1>5, <2>1 DEF NoRow
  <2>3. now \in Nat /\ semaphore[n].expire \in Nat
    BY <1>1, <1>5 DEF TypeOK, Row
  <2>4. ASSUME NEW q \in Request PROVE ~Holds(q, n)
    <3>1. CASE semaphore[n].value = q /\ call[q].at # "crashed"
      BY <1>1, <1>5, <2>1, <2>3, <3>1 DEF RecordBacked, Holds
    <3>2. CASE call[q].at = "crashed"
      BY <1>1, <1>5, <3>2 DEF FinishedForgets, Holds
    <3>3. CASE semaphore[n].value # q
      BY <1>1, <1>5, <3>3 DEF RecordBacked
    <3> QED
      BY <3>1, <3>2, <3>3
  <2>5. RowsOK'
    BY <1>1, <2>2 DEF RowsOK, Present
  <2>6. FinishedForgets'
    BY <1>1, <1>3, <2>1 DEF FinishedForgets
  <2>7. RecordBacked'
    BY <1>1, <1>3, <2>1, <2>2, <2>4, IdsAssumption DEF RecordBacked, Holds
  <2> QED
    BY <2>5, <2>6, <2>7
<1>10. CASE Break(p) /\ semaphore' = semaphore
  BY <1>6, <1>10 DEF Break
<1>11. CASE \/ InsertConflict(p) \/ InsertNoTable(p) \/ EnsureTable(p)
            \/ CreateTable(p) \/ Select(p) \/ Recheck(p) \/ Sleep(p)
  BY <1>6, <1>11 DEF InsertConflict, InsertNoTable, EnsureTable, CreateTable,
     Select, Recheck, Sleep
<1> QED
  BY <1>7, <1>8, <1>9, <1>10, <1>11 DEF Step

(* Calling the service, giving back, ending and dying.                     *)
LEMMA InvCall ==
  ASSUME ~Persistent, Inv, NEW p \in Request, Call(p)
  PROVE  (RowsOK /\ FinishedForgets /\ RecordBacked)'
<1> USE DEF Finished, InCall
<1>1. TypeOK /\ FramesOK /\ RowsOK /\ FinishedForgets /\ RecordBacked
  BY DEF Inv
<1>2. LockId(p) = p /\ p # Nobody
  BY IdsAssumption DEF LockId
<1>3. /\ locks \in [Request -> [Name -> Nat]]
      /\ semaphore \in [Name -> Row]
      /\ now' = now
      /\ \A q \in Request \ {p} : call'[q] = call[q]
  BY <1>1 DEF Call, Acquire, Wait, Release, Shutdown, Crash, Enter, Return,
     TypeOK
<1>4. CASE \E n \in Name : \/ \E t \in Timeouts : Acquire(p, n, t)
                           \/ \E k \in Polls : Wait(p, n, k)
  <2>1. UNCHANGED <<semaphore, locks>>
    BY <1>4 DEF Acquire, Wait
  <2>2. call[p].at = "idle" /\ call'[p].at \in {"extend", "insert", "sleep"}
    BY <1>1, <1>4 DEF Acquire, Wait, Enter, TypeOK
  <2> QED
    BY <1>1, <1>3, <2>1, <2>2
    DEF RowsOK, FinishedForgets, RecordBacked, Holds, Present
<1>5. ASSUME NEW n \in Name, Release(p, n)
      PROVE  (RowsOK /\ FinishedForgets /\ RecordBacked)'
  <2>1. call[p].at = "idle" /\ call'[p].at \in {"idle", "recheck"}
    BY <1>1, <1>5 DEF Release, Enter, TypeOK
  <2>2. \A q \in Request, m \in Name :
          locks'[q][m] = IF q = p /\ m = n THEN 0 ELSE locks[q][m]
    BY <1>3, <1>5 DEF Release
  <2>3. \A m \in Name :
          semaphore'[m] = IF m = n /\ semaphore[n].value = p
                          THEN NoRow ELSE semaphore[m]
    BY <1>2, <1>3, <1>5 DEF Release
  <2>4. \A q \in Request : q # p /\ semaphore[n].value = p => ~Holds(q, n)
    BY <1>1 DEF RecordBacked
  <2>5. NoRow.value = Nobody
    BY DEF NoRow
  <2>6. RowsOK'
    BY <1>1, <2>3, <2>5 DEF RowsOK, Present
  <2>7. FinishedForgets'
    BY <1>1, <1>3, <2>1, <2>2 DEF FinishedForgets
  <2>8. RecordBacked'
    BY <1>1, <1>3, <2>1, <2>2, <2>3, <2>4, <2>5, IdsAssumption
    DEF RecordBacked, Holds
  <2> QED
    BY <2>6, <2>7, <2>8
<1>6. CASE Shutdown(p)
  <2>1. call[p].at \in {"idle", "failed"} /\ call'[p].at = "ended"
    BY <1>1, <1>6, ReturnFields DEF Shutdown
  <2>2. \A q \in Request, m \in Name :
          locks'[q][m] = IF q = p THEN 0 ELSE locks[q][m]
    BY <1>3, <1>6 DEF Shutdown
  <2>3. ASSUME NEW m \in Name
        PROVE  semaphore'[m] = IF semaphore[m].value = p
                               THEN NoRow ELSE semaphore[m]
    <3>1. CASE \E n \in Name : locks[p][n] # 0
      BY <1>2, <1>3, <1>6, <3>1 DEF Shutdown
    <3>2. CASE \A n \in Name : locks[p][n] = 0
      <4>1. semaphore'[m] = semaphore[m]
        BY <1>6, <3>2 DEF Shutdown
      <4>2. semaphore[m].value # p
        BY <1>1, <1>2, <2>1, <3>2 DEF RecordBacked, RowsOK, Present
      <4> QED
        BY <4>1, <4>2
    <3> QED
      BY <3>1, <3>2
  <2>4. NoRow.value = Nobody
    BY DEF NoRow
  <2>5. RowsOK'
    BY <1>1, <2>3, <2>4 DEF RowsOK, Present
  <2>6. FinishedForgets'
    BY <1>1, <1>3, <2>1, <2>2 DEF FinishedForgets
  <2>7. \A q \in Request, m \in Name :
          q # p /\ semaphore[m].value = p => ~Holds(q, m)
    BY <1>1 DEF RecordBacked
  <2>8. RecordBacked'
    BY <1>1, <1>2, <1>3, <2>1, <2>2, <2>3, <2>4, <2>7, IdsAssumption
    DEF RecordBacked, Holds
  <2> QED
    BY <2>5, <2>6, <2>8
<1>7. CASE Crash(p)
  <2>1. call'[p].at = "crashed" /\ semaphore' = semaphore
    BY <1>1, <1>7, ReturnFields DEF Crash
  <2>2. \A q \in Request, m \in Name :
          locks'[q][m] = IF q = p THEN 0 ELSE locks[q][m]
    BY <1>3, <1>7 DEF Crash
  <2>3. RowsOK'
    BY <1>1, <2>1 DEF RowsOK, Present
  <2>4. FinishedForgets'
    BY <1>1, <1>3, <2>1, <2>2 DEF FinishedForgets
  <2>5. RecordBacked'
    BY <1>1, <1>3, <2>1, <2>2 DEF RecordBacked, Holds
  <2> QED
    BY <2>3, <2>4, <2>5
<1> QED
  BY <1>4, <1>5, <1>6, <1>7 DEF Call

LEMMA InvNext ==
  ASSUME ~Persistent, Inv, [Next]_vars
  PROVE  Inv'
<1>1. CASE UNCHANGED vars
  BY <1>1
  DEF vars, Inv, TypeOK, FramesOK, RowsOK, FinishedForgets, RecordBacked,
      Holds, Present
<1>2. CASE Tick
  <2>1. now \in Nat /\ now' = now + 1 /\ locks \in [Request -> [Name -> Nat]]
    BY <1>2 DEF Tick, Inv, TypeOK
  <2>2. \A p \in Request, n \in Name : Holds(p, n)' => Holds(p, n)
    BY <1>2, <2>1 DEF Tick, Holds
  <2>3. RecordBacked'
    BY <1>2, <2>2 DEF Tick, Inv, RecordBacked
  <2> QED
    BY <1>2, <2>3
    DEF Tick, Inv, TypeOK, FramesOK, RowsOK, FinishedForgets, Present
<1>3. ASSUME NEW p \in Request, Step(p) \/ Call(p)
      PROVE  Inv'
  <2>1. TypeOK' /\ FramesOK'
    BY <1>3, TypeStep, TypeCall, FramesStep DEF Inv
  <2>2. (RowsOK /\ FinishedForgets /\ RecordBacked)'
    BY <1>3, InvStep, InvCall
  <2> QED
    BY <2>1, <2>2 DEF Inv
<1> QED
  BY <1>1, <1>2, <1>3 DEF Next

LEMMA InvInit == Init => Inv
<1> SUFFICES ASSUME Init PROVE Inv
  OBVIOUS
<1>1. TypeOK /\ FramesOK
  BY TypeInit
<1>2. \A n \in Name : semaphore[n] = NoRow /\ semaphore[n].value = Nobody
  BY DEF Init, NoRow
<1>3. RowsOK
  BY <1>2 DEF RowsOK, Present
<1>4. FinishedForgets /\ RecordBacked
  BY <1>2, IdsAssumption DEF Init, FinishedForgets, RecordBacked, Holds
<1> QED
  BY <1>1, <1>3, <1>4 DEF Inv

LEMMA InvHolds == ASSUME ~Persistent PROVE Spec => []Inv
<1>1. Init => Inv
  BY InvInit
<1>2. Inv /\ [Next]_vars => Inv'
  BY InvNext
<1> QED
  BY <1>1, <1>2, PTL DEF Spec

(* In the default backend the table and what every request believes agree  *)
(* at all times: a row is on its owner's record unless the owner crashed,  *)
(* and nobody takes a row away before the lifetime its owner was promised. *)
THEOREM RecordsAreBacked == ASSUME ~Persistent PROVE Spec => []RecordBacked
<1>1. Inv => RecordBacked
  BY DEF Inv
<1> QED
  BY <1>1, InvHolds, PTL

(* Two requests never both hold a lock of the default backend whose        *)
(* lifetime has not run out: a lock is backed by its row, and the row has  *)
(* one owner.                                                              *)
THEOREM MutualExclusion == ASSUME ~Persistent PROVE Spec => []LeaseExclusive
<1>1. Inv => LeaseExclusive
  BY DEF Inv, RecordBacked, LeaseExclusive
<1> QED
  BY <1>1, InvHolds, PTL

(* A request of the default backend that ended, even by an exception, has  *)
(* left no row: when releaseAll() skips its DELETE there is none.          *)
THEOREM NothingLeaks == ASSUME ~Persistent PROVE Spec => []NoRowAfterShutdown
<1>1. Inv => NoRowAfterShutdown
  <2> SUFFICES ASSUME Inv, NEW p \in Request, call[p].at = "ended",
                      NEW n \in Name, semaphore[n].value = p
               PROVE  FALSE
    BY DEF NoRowAfterShutdown
  <2>1. locks[p][n] = semaphore[n].expire
    BY DEF Inv, RecordBacked
  <2>2. locks[p][n] = 0
    BY DEF Inv, FinishedForgets, Finished
  <2>3. semaphore[n].expire > 0
    BY IdsAssumption DEF Inv, RowsOK, Present
  <2> QED
    BY <2>1, <2>2, <2>3
<1> QED
  BY <1>1, InvHolds, PTL

(* A renewal in the default backend never succeeds while another request   *)
(* holds the lock.                                                         *)
THEOREM RenewalsAreTruthful == ASSUME ~Persistent PROVE Spec => RenewalTruthful
<1>1. Inv /\ [Next]_vars =>
        [\A p, q \in Request : \A n \in Name :
           /\ call[p].at = "extend" /\ call[p].name = n
           /\ call'[p].at = "idle" /\ locks'[p][n] # 0
           /\ p # q
           => ~Holds(q, n)]_vars
  <2> SUFFICES ASSUME Inv, [Next]_vars, ~(UNCHANGED vars),
                      NEW p \in Request, NEW q \in Request, NEW n \in Name,
                      call[p].at = "extend", call[p].name = n,
                      call'[p].at = "idle", locks'[p][n] # 0, p # q
               PROVE  ~Holds(q, n)
    OBVIOUS
  <2>1. Extend(p)
    <3>1. ASSUME NEW r \in Request, r # p, Step(r) \/ Call(r)
          PROVE  FALSE
      <4>1. call'[p] = call[p]
        BY <3>1 DEF Inv, TypeOK, Step, Call, Extend, InsertRow, InsertConflict,
           InsertNoTable, EnsureTable, CreateTable, Select, Break, Recheck,
           Sleep, ReturnAvailable, ReturnUnavailable, Acquire, Wait, Release,
           Shutdown, Crash, Goto, Return, Enter
      <4> QED
        BY <4>1
    <3>2. ~Tick
      BY DEF Tick
    <3>3. Step(p) => Extend(p)
      BY DEF Step, InsertRow, InsertConflict, InsertNoTable, EnsureTable,
         CreateTable, Select, Break, Recheck, Sleep
    <3>4. ~Call(p)
      <4>1. CASE Crash(p)
        <5>1. call'[p].at = "crashed"
          BY <4>1, ReturnFields DEF Crash, Inv, Outside, Finished
        <5> QED
          BY <5>1
      <4>2. CASE Shutdown(p) \/ \E m \in Name : Release(p, m)
        BY <4>2 DEF Shutdown, Release
      <4>3. CASE \E m \in Name : \/ \E t \in Timeouts : Acquire(p, m, t)
                                 \/ \E k \in Polls : Wait(p, m, k)
        BY <4>3 DEF Acquire, Wait, Enter
      <4> QED
        BY <4>1, <4>2, <4>3 DEF Call
    <3> QED
      BY <3>1, <3>2, <3>3, <3>4 DEF Next
  <2>2. semaphore[n].value = LockId(p)
    <3>1. CASE semaphore[n].value # LockId(p)
      <4>1. locks'[p][n] = 0
        BY <2>1, <3>1 DEF Extend, Inv, TypeOK
      <4> QED
        BY <4>1
    <3> QED
      BY <3>1
  <2> QED
    BY <2>2 DEF LockId, Inv, RecordBacked
<1> QED
  BY <1>1, InvHolds, PTL DEF Spec, RenewalTruthful

-----------------------------------------------------------------------------
(* The persistent backend.                                                 *)

(* A lock of the persistent backend outlives the request that acquired it: *)
(* while its lifetime runs its row goes only by a step that is release()   *)
(* of its name, never as a request ends, and never by the DELETE of a      *)
(* request that saw the lock expired before it was acquired again.         *)
THEOREM OnlyReleaseEnds == ASSUME Persistent PROVE Spec => KeptUntilReleased
<1> DEFINE Keeps ==
             \A n \in Name :
               Present(n) /\ now <= semaphore[n].expire /\ ~Present(n)' =>
                 \E p \in Request : Release(p, n)
<1>1. TypeOK /\ [Next]_vars => [Keeps]_vars
  <2> SUFFICES ASSUME TypeOK, Next, NEW n \in Name,
                      Present(n), now <= semaphore[n].expire, ~Present(n)'
               PROVE  \E p \in Request : Release(p, n)
    OBVIOUS
  <2>1. PICK p \in Request : Step(p) \/ Call(p)
    BY DEF Next, Tick, Present
  <2>2. semaphore' # semaphore
    BY DEF Present
  <2>3. ~Extend(p)
    BY DEF Extend, TypeOK, Row, Present
  <2>4. ~InsertRow(p)
    <3>1. LockId(p) # Nobody
      BY IdsAssumption DEF LockId
    <3> QED
      BY <3>1 DEF InsertRow, TypeOK, Present
  <2>5. ~Break(p)
    <3> SUFFICES ASSUME Break(p) PROVE FALSE
      OBVIOUS
    <3>1. call[p] \in Frame
      BY InCallFrame DEF Break, InCall
    <3>2. /\ now \in Nat /\ semaphore[n].expire \in Nat
          /\ call[p].seen.expire \in Nat
      BY <3>1 DEF TypeOK, Frame, Row
    <3>3. call[p].name = n
      BY DEF Break, TypeOK, Present
    <3>4. now > call[p].seen.expire /\ semaphore[n].expire <= call[p].seen.expire
      BY <2>2, <3>3 DEF Break
    <3> QED
      BY <3>2, <3>4
  <2>6. PICK m \in Name : Release(p, m)
    BY <2>1, <2>2, <2>3, <2>4, <2>5 DEF Step, Call, InsertConflict,
       InsertNoTable, EnsureTable, CreateTable, Select, Recheck, Sleep,
       Acquire, Wait, Shutdown, Crash
  <2>7. m = n
    BY <2>6 DEF Release, TypeOK, Present
  <2> QED
    BY <2>6, <2>7
<1> QED
  BY <1>1, TypeCorrect, PTL DEF Spec, KeptUntilReleased

-----------------------------------------------------------------------------
(* The default backend implements the lease lock.                          *)

(* LifetimesOK is kept: steps of a call leave its $expire alone.           *)
LEMMA LifetimesStep ==
  ASSUME TypeOK, LifetimesOK, [Next]_vars
  PROVE  LifetimesOK'
<1> USE DEF InCall, Outside, Finished
<1> SUFFICES ASSUME NEW q \in Request, call'[q].at \in InCall
             PROVE  call'[q].expire <= now' + MaxTimeout
  BY DEF LifetimesOK
<1>1. /\ now \in Nat /\ now' \in Nat /\ now <= now' /\ MaxTimeout \in Nat
      /\ Tick \/ UNCHANGED vars => call' = call
  <2>1. now \in Nat /\ MaxTimeout \in Nat
    BY TimeoutsAssumption DEF TypeOK
  <2>2. now' = now \/ now' = now + 1
    BY DEF Next, vars, Tick, Step, Call, Extend, InsertRow, InsertConflict,
       InsertNoTable, EnsureTable, CreateTable, Select, Break, Recheck, Sleep,
       Acquire, Wait, Release, Shutdown, Crash
  <2> QED
    BY <2>1, <2>2 DEF Tick, vars
<1>2. CASE call'[q] = call[q]
  <2>1. call[q].expire <= now + MaxTimeout /\ call[q] \in Frame
    BY <1>2, InCallFrame DEF LifetimesOK
  <2>2. call[q].expire \in Nat
    BY <2>1 DEF Frame
  <2> QED
    BY <1>1, <1>2, <2>1, <2>2
<1>3. CASE Step(q)
  <2>1. call[q].at \in InCall /\ call[q] \in Frame
    BY <1>3, StepGoesOn, InCallFrame
  <2>2. call'[q].expire = call[q].expire
    <3>1. CASE \E l \in InCall : Goto(q, l)
      BY <2>1, <3>1, GotoFields
    <3>2. CASE call' = [call EXCEPT ![q].at = "insert", ![q].retry = TRUE]
      BY <2>1, <3>2, RetryFields
    <3>3. CASE \E l \in Outside : Return(q, l)
      BY <3>3, ReturnFields
    <3>4. CASE call' = [call EXCEPT ![q].at = "break",
                                    ![q].seen = semaphore[call[q].name]]
      <4>1. call'[q] = [call[q] EXCEPT !.at = "break",
                                       !.seen = semaphore[call[q].name]]
        BY <3>4 DEF TypeOK
      <4> QED
        BY <2>1, <4>1 DEF Frame
    <3>5. CASE Sleep(q)
      <4>1. call'[q] = [call[q] EXCEPT !.at = "select",
                                       !.polls = call[q].polls - 1]
        BY <3>5 DEF Sleep, TypeOK
      <4> QED
        BY <2>1, <4>1 DEF Frame
    <3> QED
      BY <1>3, <3>1, <3>2, <3>3, <3>4, <3>5 DEF Step, Extend, InsertRow,
         InsertConflict, InsertNoTable, EnsureTable, CreateTable, Select, Break,
         Recheck, ReturnAvailable, ReturnUnavailable
  <2>3. call[q].expire \in Nat /\ call[q].expire <= now + MaxTimeout
    BY <2>1 DEF Frame, LifetimesOK
  <2> QED
    BY <1>1, <2>2, <2>3
<1>4. CASE Call(q)
  <2>1. ASSUME NEW n \in Name, NEW t \in Timeouts, Acquire(q, n, t)
        PROVE  call'[q].expire <= now' + MaxTimeout
    <3>1. t \in Nat /\ t <= MaxTimeout
      BY TimeoutsAssumption
    <3>2. call'[q].expire = now + t
      BY <2>1 DEF Acquire, Enter, TypeOK
    <3> QED
      BY <1>1, <3>1, <3>2
  <2>2. ASSUME NEW n \in Name,
               Release(q, n) \/ \E k \in Polls : Wait(q, n, k)
        PROVE  call'[q].expire <= now' + MaxTimeout
    <3>1. call'[q].expire = 0 \/ call'[q] = call[q]
      BY <2>2 DEF Release, Wait, Enter, TypeOK
    <3> QED
      BY <1>1, <1>2, <3>1
  <2>3. CASE Shutdown(q) \/ Crash(q)
    <3>1. call'[q].at \in Outside
      BY <2>3, ReturnFields DEF Shutdown, Crash
    <3> QED
      BY <3>1
  <2> QED
    BY <1>4, <2>1, <2>2, <2>3 DEF Call
<1>5. ASSUME NEW p \in Request, p # q, Step(p) \/ Call(p)
      PROVE  call'[q] = call[q]
  <2>1. CASE Step(p)
    BY <1>5, <2>1, StepGoesOn
  <2>2. CASE Call(p)
    BY <1>5, <2>2 DEF Call, Acquire, Wait, Release, Shutdown, Crash, Enter,
       Return, TypeOK
  <2> QED
    BY <1>5, <2>1, <2>2
<1> QED
  BY <1>1, <1>2, <1>3, <1>4, <1>5 DEF Next

(* A step of a call is a step of the lease lock, or a stutter.             *)
LEMMA StepRefines ==
  ASSUME ~Persistent, Inv, LifetimesOK, NEW p \in Request, Step(p)
  PROVE  [Lease!Next]_(Lease!leaseVars)
<1> USE DEF InCall
<1> DEFINE lease(m) == [owner |-> semaphore[m].value,
                        until |-> semaphore[m].expire]
           held(q) == {m \in Name : locks[q][m] # 0}
<1>1. /\ call[p].at \in InCall /\ call[p] \in Frame
      /\ LockId(p) = p /\ p # Nobody
      /\ semaphore \in [Name -> Row]
      /\ locks \in [Request -> [Name -> Nat]]
      /\ now \in Nat /\ MaxTimeout \in Nat
  BY StepGoesOn, InCallFrame, IdsAssumption, TimeoutsAssumption
  DEF Inv, TypeOK, LockId
<1>n. PICK n \in Name : n = call[p].name
  BY <1>1 DEF Frame
<1>e. PICK e \in Nat : e = call[p].expire
  BY <1>1 DEF Frame
<1>2. /\ n \in Name /\ e \in Nat /\ e <= now + MaxTimeout
      /\ n = call[p].name /\ e = call[p].expire /\ call[p].seen \in Row
  BY <1>1, <1>n, <1>e DEF Frame, LifetimesOK
<1>3. CASE UNCHANGED <<now, semaphore, locks>>
  BY <1>3 DEF Lease!leaseVars
<1>4. CASE /\ Extend(p)
           /\ semaphore[n].value = p
           /\ semaphore' = [semaphore EXCEPT ![n].expire = e]
           /\ locks' = [locks EXCEPT ![p][n] = e]
  <2>1. e > 0 /\ e \in 1..(now + MaxTimeout)
    BY <1>1, <1>2, <1>4 DEF Extend, Inv, FramesOK
  <2>2. locks[p][n] # 0
    BY <1>2, <1>4, <1>1 DEF Extend, Inv, RecordBacked, RowsOK, Present
  <2>3. \A q \in Request : held(q)' = held(q)
    BY <1>1, <1>2, <1>4, <2>1, <2>2
  <2>4. \A m \in Name : lease(m)' = IF m = n THEN [owner |-> p, until |-> e]
                                             ELSE lease(m)
    BY <1>1, <1>2, <1>4 DEF Row
  <2>5. [m \in Name |-> lease(m)'] =
          [[m \in Name |-> lease(m)] EXCEPT ![n].until = e]
    BY <1>2, <1>4, <2>4
  <2>6. [q \in Request |-> held(q)'] = [q \in Request |-> held(q)]
    BY <2>3
  <2>7. now' = now
    BY <1>4 DEF Extend
  <2>8. Lease!Renew(p, n)
    BY <1>2, <1>4, <2>1, <2>2, <2>5, <2>6, <2>7 DEF Lease!Renew
  <2> QED
    BY <1>2, <2>8, Zenon DEF Lease!Next, Lease!Renew
<1>5. CASE /\ Extend(p)
           /\ semaphore[n].value # p
           /\ semaphore' = semaphore
           /\ locks' = [locks EXCEPT ![p][n] = 0]
  <2>1. [q \in Request |-> held(q)'] =
          [[q \in Request |-> held(q)] EXCEPT ![p] = @ \ {n}]
    <3>1. \A q \in Request : held(q)' = IF q = p THEN held(p) \ {n} ELSE held(q)
      BY <1>1, <1>2, <1>5
    <3> QED
      BY <3>1
  <2>2. now' = now
    BY <1>5 DEF Extend
  <2>3. Lease!Lose(p, n)
    BY <1>2, <1>5, <2>1, <2>2 DEF Lease!Lose
  <2> QED
    BY <1>2, <2>3, Zenon DEF Lease!Next, Lease!Lose
<1>6. CASE InsertRow(p)
  <2>1. e > 0 /\ e \in 1..(now + MaxTimeout)
    BY <1>1, <1>2, <1>6 DEF InsertRow, Inv, FramesOK
  <2>2. semaphore[n] = NoRow
    <3>1. ~Present(n)
      BY <1>2, <1>6 DEF InsertRow, Present
    <3> QED
      BY <1>2, <3>1 DEF Inv, RowsOK, Present
  <2>3. lease(n) = Lease!Free
    BY <2>2 DEF NoRow, Lease!Free
  <2>4. [m \in Name |-> lease(m)'] =
          [[m \in Name |-> lease(m)] EXCEPT ![n] = [owner |-> p, until |-> e]]
    <3>1. \A m \in Name : lease(m)' = IF m = n THEN [owner |-> p, until |-> e]
                                               ELSE lease(m)
      BY <1>1, <1>2, <1>6 DEF InsertRow
    <3> QED
      BY <1>2, <3>1
  <2>5. [q \in Request |-> held(q)'] =
          [[q \in Request |-> held(q)] EXCEPT ![p] = @ \union {n}]
    <3>1. \A q \in Request :
            held(q)' = IF q = p THEN held(p) \union {n} ELSE held(q)
      BY <1>1, <1>2, <1>6, <2>1 DEF InsertRow
    <3> QED
      BY <3>1
  <2>6. now' = now
    BY <1>6 DEF InsertRow
  <2>7. Lease!Grant(p, n)
    BY <1>2, <2>1, <2>3, <2>4, <2>5, <2>6 DEF Lease!Grant
  <2> QED
    BY <1>2, <2>7, Zenon DEF Lease!Next, Lease!Grant
<1>7. CASE Break(p) /\ semaphore' # semaphore
  <2>1. /\ now > call[p].seen.expire
        /\ semaphore[n].value = call[p].seen.value
        /\ semaphore[n].expire <= call[p].seen.expire
        /\ semaphore' = [semaphore EXCEPT ![n] = NoRow]
        /\ locks' = locks /\ now' = now
    BY <1>2, <1>7 DEF Break
  <2>2. now > semaphore[n].expire
    <3>1. call[p].seen.expire \in Nat /\ semaphore[n].expire \in Nat
      BY <1>1, <1>2 DEF Row
    <3> QED
      BY <1>1, <2>1, <3>1
  <2>3. semaphore[n] # NoRow
    BY <1>1, <1>2, <1>7, <2>1
  <2>4. lease(n) # Lease!Free
    <3>1. semaphore[n] = [value |-> semaphore[n].value,
                          expire |-> semaphore[n].expire]
      BY <1>1, <1>2 DEF Row
    <3>2. ~(semaphore[n].value = Nobody /\ semaphore[n].expire = 0)
      BY <2>3, <3>1 DEF NoRow
    <3> QED
      BY <3>2 DEF Lease!Free
  <2>5. [m \in Name |-> lease(m)'] =
          [[m \in Name |-> lease(m)] EXCEPT ![n] = Lease!Free]
    <3>1. \A m \in Name : lease(m)' = IF m = n THEN Lease!Free ELSE lease(m)
      BY <1>1, <1>2, <2>1 DEF NoRow, Lease!Free
    <3> QED
      BY <1>2, <3>1
  <2>6. Lease!Reclaim(n)
    BY <1>2, <2>1, <2>2, <2>4, <2>5 DEF Lease!Reclaim
  <2> QED
    BY <1>2, <2>6, Zenon DEF Lease!Next, Lease!Reclaim
<1>8. CASE Break(p) /\ semaphore' = semaphore
  BY <1>3, <1>8 DEF Break
<1>9. CASE \/ InsertConflict(p) \/ InsertNoTable(p) \/ EnsureTable(p)
           \/ CreateTable(p) \/ Select(p) \/ Recheck(p) \/ Sleep(p)
  BY <1>3, <1>9 DEF InsertConflict, InsertNoTable, EnsureTable, CreateTable,
     Select, Recheck, Sleep
<1>10. Extend(p) => \/ /\ semaphore[n].value = p
                       /\ semaphore' = [semaphore EXCEPT ![n].expire = e]
                       /\ locks' = [locks EXCEPT ![p][n] = e]
                    \/ /\ semaphore[n].value # p
                       /\ semaphore' = semaphore
                       /\ locks' = [locks EXCEPT ![p][n] = 0]
  BY <1>1, <1>2 DEF Extend
<1> QED
  BY <1>4, <1>5, <1>6, <1>7, <1>8, <1>9, <1>10 DEF Step

(* Making a call is a step of the lease lock, or a stutter.                *)
LEMMA CallRefines ==
  ASSUME ~Persistent, Inv, NEW p \in Request, Call(p)
  PROVE  [Lease!Next]_(Lease!leaseVars)
<1> DEFINE lease(m) == [owner |-> semaphore[m].value,
                        until |-> semaphore[m].expire]
           held(q) == {m \in Name : locks[q][m] # 0}
<1>1. /\ LockId(p) = p /\ p # Nobody
      /\ semaphore \in [Name -> Row]
      /\ locks \in [Request -> [Name -> Nat]]
  BY IdsAssumption DEF Inv, TypeOK, LockId
<1>2. CASE UNCHANGED <<now, semaphore, locks>>
  BY <1>2 DEF Lease!leaseVars
<1>3. ASSUME NEW n \in Name, Release(p, n)
      PROVE  [Lease!Next]_(Lease!leaseVars)
  <2>1. [q \in Request |-> held(q)'] =
          [[q \in Request |-> held(q)] EXCEPT ![p] = @ \ {n}]
    <3>1. \A q \in Request : held(q)' = IF q = p THEN held(p) \ {n} ELSE held(q)
      BY <1>1, <1>3 DEF Release
    <3> QED
      BY <3>1
  <2>2. CASE semaphore[n].value = p
    <3>1. \A m \in Name : lease(m)' = IF m = n THEN Lease!Free ELSE lease(m)
      BY <1>1, <1>3, <2>2 DEF Release, NoRow, Lease!Free
    <3>2. [m \in Name |-> lease(m)'] =
            [[m \in Name |-> lease(m)] EXCEPT ![n] = Lease!Free]
      BY <3>1
    <3>3. now' = now
      BY <1>3 DEF Release
    <3>4. Lease!Release(p, n)
      BY <2>1, <2>2, <3>2, <3>3 DEF Lease!Release
    <3> QED
      BY <3>4, Zenon DEF Lease!Next, Lease!Release
  <2>3. CASE semaphore[n].value # p
    <3>1. semaphore' = semaphore /\ now' = now
      BY <1>1, <1>3, <2>3 DEF Release
    <3>2. Lease!Release(p, n)
      BY <2>1, <2>3, <3>1 DEF Lease!Release
    <3> QED
      BY <3>2, Zenon DEF Lease!Next, Lease!Release
  <2> QED
    BY <2>2, <2>3
<1>4. ASSUME Shutdown(p) \/ Crash(p)
      PROVE  /\ [q \in Request |-> held(q)'] =
                  [[q \in Request |-> held(q)] EXCEPT ![p] = {}]
             /\ now' = now
  <2>1. locks' = [locks EXCEPT ![p] = [m \in Name |-> 0]] /\ now' = now
    BY <1>4 DEF Shutdown, Crash
  <2>2. \A q \in Request : held(q)' = IF q = p THEN {} ELSE held(q)
    BY <1>1, <2>1
  <2> QED
    BY <2>1, <2>2
<1>5. CASE Shutdown(p)
  <2>1. ASSUME NEW m \in Name
        PROVE  semaphore'[m] = IF semaphore[m].value = p
                               THEN NoRow ELSE semaphore[m]
    <3>1. CASE \E k \in Name : locks[p][k] # 0
      BY <1>1, <1>5, <3>1 DEF Shutdown
    <3>2. CASE \A k \in Name : locks[p][k] = 0
      <4>1. semaphore'[m] = semaphore[m]
        BY <1>5, <3>2 DEF Shutdown
      <4>2. semaphore[m].value # p
        BY <1>1, <1>5, <3>2
        DEF Shutdown, Inv, RecordBacked, RowsOK, Present
      <4> QED
        BY <4>1, <4>2
    <3> QED
      BY <3>1, <3>2
  <2>2. \A m \in Name :
          lease(m)' = IF lease(m).owner = p THEN Lease!Free ELSE lease(m)
    BY <2>1 DEF NoRow, Lease!Free
  <2>3. [m \in Name |-> lease(m)'] =
          [m \in Name |-> IF [k \in Name |-> lease(k)][m].owner = p
                          THEN Lease!Free ELSE [k \in Name |-> lease(k)][m]]
    BY <2>2
  <2>4. Lease!End(p)
    BY <1>4, <1>5, <2>3 DEF Lease!End
  <2> QED
    BY <2>4, Zenon DEF Lease!Next, Lease!End
<1>6. CASE Crash(p)
  <2>1. semaphore' = semaphore
    BY <1>6 DEF Crash
  <2>2. Lease!Die(p)
    BY <1>4, <1>6, <2>1 DEF Lease!Die
  <2> QED
    BY <2>2, Zenon DEF Lease!Next, Lease!Die
<1>7. CASE \E n \in Name : \/ \E t \in Timeouts : Acquire(p, n, t)
                           \/ \E k \in Polls : Wait(p, n, k)
  BY <1>2, <1>7 DEF Acquire, Wait
<1> QED
  BY <1>3, <1>5, <1>6, <1>7 DEF Call

LEMMA NextRefines ==
  ASSUME ~Persistent, Inv, LifetimesOK, [Next]_vars
  PROVE  [Lease!Next]_(Lease!leaseVars)
<1>1. CASE UNCHANGED vars
  BY <1>1 DEF vars, Lease!leaseVars
<1>2. CASE Tick
  <2>1. Lease!Tick
    BY <1>2 DEF Tick, Lease!Tick
  <2> QED
    BY <2>1, Zenon DEF Lease!Next, Lease!Tick
<1>3. ASSUME NEW p \in Request, Step(p) \/ Call(p)
      PROVE  [Lease!Next]_(Lease!leaseVars)
  BY <1>3, StepRefines, CallRefines
<1> QED
  BY <1>1, <1>2, <1>3 DEF Next

(* The default backend keeps every promise of the lease lock: whatever the *)
(* queries of its calls interleave to is a behaviour in which leases are   *)
(* granted only when free, moved only by their owner, reported lost only   *)
(* when lost, and taken away only after their end.                         *)
THEOREM Refinement == ASSUME ~Persistent PROVE Spec => LeaseSpec
<1>1. Init => Lease!Init /\ LifetimesOK
  <2> SUFFICES ASSUME Init PROVE Lease!Init /\ LifetimesOK
    OBVIOUS
  <2>1. now = 0
    BY DEF Init
  <2>2. [n \in Name |-> [owner |-> semaphore[n].value,
                         until |-> semaphore[n].expire]] =
          [n \in Name |-> Lease!Free]
    BY DEF Init, NoRow, Lease!Free
  <2>3. [p \in Request |-> {n \in Name : locks[p][n] # 0}] =
          [p \in Request |-> {}]
    BY DEF Init
  <2>4. LifetimesOK
    BY DEF Init, LifetimesOK, InCall
  <2> QED
    BY <2>1, <2>2, <2>3, <2>4 DEF Lease!Init
<1>2. Inv /\ LifetimesOK /\ [Next]_vars => LifetimesOK'
  BY LifetimesStep DEF Inv
<1>3. Inv /\ LifetimesOK /\ [Next]_vars => [Lease!Next]_(Lease!leaseVars)
  BY NextRefines
<1> QED
  BY <1>1, <1>2, <1>3, InvHolds, PTL DEF Spec, LeaseSpec, Lease!Spec
=============================================================================

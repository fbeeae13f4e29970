----------------------------- MODULE Cron_proofs -----------------------------
(***************************************************************************)
(* Proofs about Cron, for every number of runs, queues and items, for      *)
(* every cron time, delay and lock lifetime and every bound of the clock.  *)
(***************************************************************************)
EXTENDS Cron, WellFoundedInduction, TLAPS

-----------------------------------------------------------------------------
(* The first unclaimed item is one.                                        *)

LEMMA SmallestIsMember ==
  ASSUME NEW S, S \subseteq Nat, S # {}
  PROVE  (CHOOSE i \in S : \A j \in S : i <= j) \in S
<1>1. \E i \in S : \A j \in S : ~ (<<j, i>> \in OpToRel(<, Nat))
  BY NatLessThanWellFounded, WFMin
<1>2. PICK i \in S : \A j \in S : ~ (<<j, i>> \in OpToRel(<, Nat))
  BY <1>1
<1>3. \A j \in S : ~ (j < i)
  BY <1>2, Zenon DEF OpToRel
<1>4. \A j \in S : i <= j
  BY <1>3
<1> QED
  BY <1>4

LEMMA FirstIsUnclaimed ==
  ASSUME NEW q, Unclaimed(q) # {}
  PROVE  First(q) \in Item /\ table[First(q)].name = q /\ table[First(q)].expire = 0
<1>1. Unclaimed(q) \subseteq Nat
  BY MaxItemsAssumption DEF Unclaimed, Item
<1>2. First(q) \in Unclaimed(q)
  BY <1>1, SmallestIsMember DEF First
<1> QED
  BY <1>2 DEF Unclaimed

-----------------------------------------------------------------------------
(* What the ways to change a run do to it.                                 *)

Place == {"lock", "handlers", "record", "unlock", "queues", "loop", "select",
          "update", "work", "delete"}

(* A run that is not over has all local variables.                         *)
LEMMA RunHasState ==
  ASSUME TypeOK, NEW c \in Run, run[c].at # "off"
  PROVE  run[c] \in RunState
<1>1. run[c] \in RunState \union {Off}
  BY DEF TypeOK
<1>2. run[c] # Off
  BY DEF Off
<1> QED
  BY <1>1, <1>2

(* A run moves on within the handler: it is somewhere in it, and the other *)
(* runs are where they were.                                               *)
RunMoves(c) ==
  /\ run' \in [Run -> RunState \union {Off}]
  /\ run'[c] \in RunState
  /\ \A d \in Run \ {c} : run'[d] = run[d]

(* Going on keeps what the run knows.                                      *)
LEMMA GotoRun ==
  ASSUME TypeOK, NEW c \in Run, run[c].at # "off", NEW l \in Place, Goto(c, l)
  PROVE  /\ RunMoves(c)
         /\ run'[c].at = l /\ run'[c].start = run[c].start
         /\ run'[c].queue = run[c].queue /\ run'[c].item = run[c].item
         /\ run'[c].read = run[c].read /\ run'[c].lease = run[c].lease
<1>1. run[c] \in RunState
  BY RunHasState
<1>2. [run[c] EXCEPT !.at = l] \in RunState
  BY <1>1 DEF RunState, Place
<1>3. run' = [run EXCEPT ![c] = [run[c] EXCEPT !.at = l]]
  BY DEF Goto
<1>4. RunMoves(c) /\ run'[c] = [run[c] EXCEPT !.at = l]
  BY <1>2, <1>3 DEF TypeOK, RunMoves
<1> QED
  BY <1>1, <1>4 DEF RunState

(* Back in the loop it knows its queue, and has no item.                   *)
LEMMA ToLoopRun ==
  ASSUME TypeOK, NEW c \in Run, run[c].at # "off", ToLoop(c)
  PROVE  /\ RunMoves(c)
         /\ run'[c].at = "loop" /\ run'[c].start = run[c].start
         /\ run'[c].queue = run[c].queue
<1> DEFINE r == [run[c] EXCEPT !.at = "loop", !.item = 0, !.read = 0, !.lease = 0]
<1>1. run[c] \in RunState
  BY RunHasState
<1>2. r \in RunState
  BY <1>1 DEF RunState
<1>3. run' = [run EXCEPT ![c] = r]
  BY DEF ToLoop
<1>4. RunMoves(c) /\ run'[c] = r
  BY <1>2, <1>3 DEF TypeOK, RunMoves
<1> QED
  BY <1>1, <1>4 DEF RunState

(* Between two queues it knows nothing but the queues to come.             *)
LEMMA ToQueuesRun ==
  ASSUME TypeOK, NEW c \in Run, run[c].at # "off", ToQueues(c)
  PROVE  RunMoves(c) /\ run'[c].at = "queues" /\ run'[c].start = 0
<1> DEFINE r == [run[c] EXCEPT !.at = "queues", !.start = 0, !.queue = NoQueue,
                               !.end = 0, !.item = 0, !.read = 0, !.lease = 0]
<1>1. run[c] \in RunState
  BY RunHasState
<1>2. r \in RunState
  BY <1>1 DEF RunState
<1>3. run' = [run EXCEPT ![c] = r]
  BY DEF ToQueues
<1>4. RunMoves(c) /\ run'[c] = r
  BY <1>2, <1>3 DEF TypeOK, RunMoves
<1> QED
  BY <1>1, <1>4 DEF RunState

-----------------------------------------------------------------------------
(* What the queries do to the table.                                       *)

(* Only the `expire' of one row, if it is there.                           *)
LEMMA SetExpireRow ==
  ASSUME QueueTypeOK, NEW i \in Item, NEW e \in Nat, SetExpire(i, e)
  PROVE  /\ table' \in [Item -> ItemRow] /\ nextId' = nextId
         /\ \A j \in Item : table'[j].name = table[j].name
         /\ \A j \in Item \ {i} : table'[j] = table[j]
         /\ Exists(i) => table'[i].expire = e
         /\ ~Exists(i) => table'[i] = table[i]
<1>1. table[i] \in ItemRow
  BY DEF QueueTypeOK
<1>2. [table[i] EXCEPT !.expire = e] \in ItemRow
  BY <1>1 DEF ItemRow
<1>3. CASE Exists(i)
  <2>1. table' = [table EXCEPT ![i] = [table[i] EXCEPT !.expire = e]]
    BY <1>3 DEF SetExpire
  <2> QED
    BY <1>1, <1>2, <1>3, <2>1 DEF QueueTypeOK, SetExpire, ItemRow
<1>4. CASE ~Exists(i)
  BY <1>4 DEF SetExpire, QueueTypeOK
<1> QED
  BY <1>3, <1>4

LEMMA DeleteItemRow ==
  ASSUME QueueTypeOK, NEW i \in Item, DeleteItem(i)
  PROVE  /\ table' \in [Item -> ItemRow] /\ nextId' = nextId
         /\ table'[i] = NoItem
         /\ \A j \in Item \ {i} : table'[j] = table[j]
<1>1. NoItem \in ItemRow
  BY DEF NoItem, ItemRow
<1> QED
  BY <1>1 DEF DeleteItem, QueueTypeOK

LEMMA CreateItemRow ==
  ASSUME QueueTypeOK, NEW q \in Queue, CreateItem(q)
  PROVE  /\ nextId \in Item /\ nextId' = nextId + 1 /\ nextId' \in 1..(MaxItems + 1)
         /\ table' \in [Item -> ItemRow]
         /\ table'[nextId].name = q /\ table'[nextId].expire = 0
         /\ \A j \in Item \ {nextId} : table'[j] = table[j]
<1>1. [name |-> q, expire |-> 0] \in ItemRow
  BY DEF ItemRow
<1>2. nextId \in Item /\ nextId + 1 \in 1..(MaxItems + 1)
  BY MaxItemsAssumption DEF CreateItem, QueueTypeOK, Item
<1> QED
  BY <1>1, <1>2 DEF CreateItem, QueueTypeOK

(* Garbage collection unclaims what ran out before the request began.      *)
LEMMA GarbageRow ==
  ASSUME QueueTypeOK, NEW t \in Nat, GarbageCollection(t)
  PROVE  /\ table' \in [Item -> ItemRow] /\ nextId' = nextId
         /\ \A j \in Item :
              /\ table'[j].name = table[j].name
              /\ \/ table'[j] = table[j]
                 \/ /\ table[j].expire # 0 /\ table[j].expire < t
                    /\ table'[j].expire = 0
<1> SUFFICES ASSUME NEW j \in Item
             PROVE  /\ table'[j] \in ItemRow
                    /\ table'[j].name = table[j].name
                    /\ \/ table'[j] = table[j]
                       \/ /\ table[j].expire # 0 /\ table[j].expire < t
                          /\ table'[j].expire = 0
  BY DEF GarbageCollection
<1>1. table[j] \in ItemRow
  BY DEF QueueTypeOK
<1>2. table'[j] = IF table[j].expire # 0 /\ table[j].expire < t
                  THEN [table[j] EXCEPT !.expire = 0] ELSE table[j]
  BY DEF GarbageCollection
<1>3. [table[j] EXCEPT !.expire = 0] \in ItemRow
  BY <1>1 DEF ItemRow
<1> QED
  BY <1>1, <1>2, <1>3 DEF ItemRow

-----------------------------------------------------------------------------
(* The inductive invariant.                                                *)

(* A row that is not there has no lease; ids are given out in order.       *)
RowsOK ==
  /\ \A i \in Item : table[i].name = NoQueue => table[i].expire = 0
  /\ \A i \in Item : i >= nextId => table[i] = NoItem /\ delayed[i] = 0

(* What a run remembers: when it began, a queue while it is in the loop,   *)
(* an item that was created while it has one, and that it is done with it. *)
RunsOK ==
  \A c \in Run : run[c].at # "off" =>
    /\ run[c].start <= now
    /\ run[c].at \in {"loop", "select", "update", "work", "delete"} =>
         run[c].queue \in Queue
    /\ run[c].at = "update" => run[c].read <= now
    /\ run[c].at \in {"update", "work", "delete"} =>
         run[c].item \in Item /\ run[c].item < nextId
    /\ run[c].at \in {"work", "delete"} => run[c].lease > 0
    /\ run[c].at = "delete" => run[c].item \in done

InLease(c, i) == Working(c, i) /\ now <= run[c].lease

(* A run within its lease is the one the row's `expire' is of, and its     *)
(* item's delay is over; a delay that is not is kept by `expire'.          *)
LeasesOK ==
  ~overstay =>
    /\ \A c \in Run, i \in Item :
         InLease(c, i) => table[i].expire = run[c].lease /\ delayed[i] <= now
    /\ \A c, d \in Run, i \in Item : InLease(c, i) /\ InLease(d, i) => c = d
    /\ \A i \in Item : Exists(i) /\ now < delayed[i] =>
                         table[i].expire >= delayed[i]

CronInv == TypeOK /\ RowsOK /\ RunsOK /\ LeasesOK /\ NoItemLost

LEMMA InitInv == Init => CronInv
<1> SUFFICES ASSUME Init PROVE CronInv
  OBVIOUS
<1> USE DEF Init, QueueInit
<1>1. NoItem \in ItemRow
  BY DEF NoItem, ItemRow
<1>2. TypeOK
  BY <1>1, MaxItemsAssumption DEF TypeOK, QueueTypeOK
<1>3. RowsOK
  BY <1>1 DEF RowsOK, NoItem
<1>4. RunsOK
  BY DEF RunsOK, Off
<1>5. LeasesOK
  BY DEF LeasesOK, InLease, Working, Off, Exists
<1>6. NoItemLost
  BY DEF NoItemLost, Item
<1> QED
  BY <1>2, <1>3, <1>4, <1>5, <1>6 DEF CronInv

-----------------------------------------------------------------------------
(* Steps that change the run only, as far as the items are concerned.      *)

(* What such a step has to leave true of the run itself.                   *)
ItemFree(c) ==
  /\ run'[c].start <= now
  /\ run'[c].at \in {"loop", "select", "update"} => run'[c].queue \in Queue
  /\ run'[c].at = "update" =>
       run'[c].read <= now /\ run'[c].item \in Item /\ run'[c].item < nextId
  /\ run'[c].at \notin {"work", "delete"}

LEMMA QuietStep ==
  ASSUME CronInv, NEW c \in Run, RunMoves(c), ItemFree(c),
         UNCHANGED <<now, queueVars, done, delayed, overstay>>
  PROVE  RowsOK' /\ RunsOK' /\ LeasesOK' /\ NoItemLost'
<1> USE DEF CronInv, queueVars
<1>1. RowsOK'
  BY DEF RowsOK
<1>2. RunsOK'
  BY DEF RunsOK, RunMoves, ItemFree
<1>3. \A d \in Run, i \in Item : InLease(d, i)' => InLease(d, i)
  BY DEF InLease, Working, RunMoves, ItemFree
<1>4. LeasesOK'
  BY <1>3 DEF LeasesOK, InLease, Working, RunMoves, ItemFree, Exists
<1>5. NoItemLost'
  BY DEF NoItemLost, Exists
<1> QED
  BY <1>1, <1>2, <1>4, <1>5

(* What the guard of every step says about the run.                        *)
LEMMA RunKnows ==
  ASSUME CronInv, NEW c \in Run, run[c].at # "off"
  PROVE  /\ run[c] \in RunState
         /\ run[c].start <= now
         /\ run[c].at \in {"loop", "select", "update", "work", "delete"} =>
              run[c].queue \in Queue
         /\ run[c].at \in {"update", "work", "delete"} =>
              run[c].item \in Item /\ run[c].item < nextId
<1>1. run[c] \in RunState
  BY RunHasState DEF CronInv
<1> QED
  BY <1>1 DEF CronInv, RunsOK

LEMMA StartKeeps ==
  ASSUME CronInv, NEW c \in Run, Start(c)
  PROVE  CronInv'
<1> DEFINE r == [at |-> "lock", start |-> now, todo |-> Queue, queue |-> NoQueue,
                 end |-> 0, item |-> 0, read |-> 0, lease |-> 0]
<1>1. r \in RunState
  BY DEF CronInv, TypeOK, QueueTypeOK, RunState
<1>2. run' = [run EXCEPT ![c] = r]
  BY DEF Start
<1>3. RunMoves(c) /\ run'[c] = r
  BY <1>1, <1>2 DEF RunMoves, CronInv, TypeOK
<1>4. ItemFree(c)
  BY <1>3 DEF ItemFree, CronInv, TypeOK, QueueTypeOK
<1>5. TypeOK'
  BY <1>3 DEF Start, CronInv, TypeOK, RunMoves, QueueTypeOK, queueVars
<1> QED
  BY <1>3, <1>4, <1>5, QuietStep DEF Start, CronInv

(* A run that is over, in order or because it died, leaves the rest alone. *)
LEMMA OverKeeps ==
  ASSUME CronInv, NEW c \in Run, run' = [run EXCEPT ![c] = Off],
         UNCHANGED <<now, queueVars, done, delayed, overstay>>,
         cronLock' \in [owner : Run \union {Nobody, Dead}, until : Nat],
         cronLast' \in Nat
  PROVE  CronInv'
<1> USE DEF CronInv, queueVars
<1>1. /\ run' \in [Run -> RunState \union {Off}]
      /\ run'[c] = Off /\ Off.at = "off"
      /\ \A d \in Run \ {c} : run'[d] = run[d]
  BY DEF TypeOK, Off
<1>2. TypeOK'
  BY <1>1 DEF TypeOK, QueueTypeOK
<1>3. RowsOK'
  BY DEF RowsOK
<1>4. RunsOK'
  BY <1>1 DEF RunsOK
<1>5. \A d \in Run, i \in Item : InLease(d, i)' => InLease(d, i)
  BY <1>1 DEF InLease, Working
<1>6. LeasesOK'
  BY <1>1, <1>5 DEF LeasesOK, InLease, Working, Exists
<1>7. NoItemLost'
  BY DEF NoItemLost, Exists
<1> QED
  BY <1>2, <1>3, <1>4, <1>6, <1>7

(* The steps of run(), but for garbage collection, and those of the loop   *)
(* up to the claim.                                                        *)
LEMMA QuietSteps ==
  ASSUME CronInv, NEW c \in Run, UNCHANGED overstay,
         \/ AcquireLock(c) \/ SetCronLastTime(c) \/ ReleaseLock(c)
         \/ NextQueue(c) \/ CheckTime(c) \/ ClaimSelect(c)
  PROVE  CronInv'
<1> USE DEF CronInv
<1>1. SUFFICES ASSUME run[c].at # "off",
                      UNCHANGED <<now, queueVars, done, delayed, overstay>>
               PROVE  /\ cronLock' \in [owner : Run \union {Nobody, Dead}, until : Nat]
                      /\ cronLast' \in Nat
                      /\ \/ RunMoves(c) /\ ItemFree(c)
                         \/ run' = [run EXCEPT ![c] = Off]
  <2>1. run[c].at # "off"
    BY DEF AcquireLock, SetCronLastTime, ReleaseLock, NextQueue, CheckTime, ClaimSelect
  <2>2. UNCHANGED <<now, queueVars, done, delayed, overstay>>
    BY DEF AcquireLock, SetCronLastTime, ReleaseLock, NextQueue, CheckTime, ClaimSelect
  <2>3. CASE /\ RunMoves(c) /\ ItemFree(c)
             /\ cronLock' \in [owner : Run \union {Nobody, Dead}, until : Nat]
             /\ cronLast' \in Nat
    <3>1. TypeOK'
      BY <2>2, <2>3 DEF TypeOK, QueueTypeOK, queueVars, RunMoves
    <3> QED
      BY <2>2, <2>3, <3>1, QuietStep
  <2>4. CASE /\ run' = [run EXCEPT ![c] = Off]
             /\ cronLock' \in [owner : Run \union {Nobody, Dead}, until : Nat]
             /\ cronLast' \in Nat
    BY <2>2, <2>4, OverKeeps
  <2> QED
    BY <1>1, <2>1, <2>2, <2>3, <2>4
<1>2. /\ now \in Nat /\ cronLast \in Nat
      /\ cronLock \in [owner : Run \union {Nobody, Dead}, until : Nat]
  BY DEF TypeOK, QueueTypeOK
<1>3. CASE AcquireLock(c)
  <2>1. [owner |-> c, until |-> now + LockTime]
          \in [owner : Run \union {Nobody, Dead}, until : Nat]
    BY <1>2, CronAssumption
  <2>2. RunMoves(c) /\ ItemFree(c)
    BY <1>1, <1>2, <1>3, GotoRun, ToQueuesRun, RunKnows DEF AcquireLock, ItemFree, Place
  <2> QED
    BY <1>2, <1>3, <2>1, <2>2 DEF AcquireLock
<1>4. CASE SetCronLastTime(c)
  BY <1>1, <1>2, <1>4, GotoRun, RunKnows DEF SetCronLastTime, ItemFree, RunState, Place
<1>5. CASE ReleaseLock(c)
  <2>1. [owner |-> Nobody, until |-> 0]
          \in [owner : Run \union {Nobody, Dead}, until : Nat]
    OBVIOUS
  <2>2. cronLock' \in [owner : Run \union {Nobody, Dead}, until : Nat]
    BY <1>2, <1>5, <2>1 DEF ReleaseLock
  <2> QED
    BY <1>1, <1>2, <1>5, <2>2, ToQueuesRun DEF ReleaseLock, ItemFree
<1>6. CASE NextQueue(c)
  <2>1. ASSUME NEW q \in Queue,
               run' = [run EXCEPT ![c].at = "loop", ![c].queue = q,
                                  ![c].todo = @ \ {q}, ![c].end = now + CronTime]
        PROVE  RunMoves(c) /\ ItemFree(c)
    <3> DEFINE r == [run[c] EXCEPT !.at = "loop", !.queue = q,
                                   !.todo = @ \ {q}, !.end = now + CronTime]
    <3>0. run[c] \in RunState /\ now + CronTime \in Nat
      BY <1>1, <1>2, CronAssumption, RunKnows
    <3>1. r \in RunState
      BY <3>0 DEF RunState
    <3>2. run' = [run EXCEPT ![c] = r]
      BY <2>1
    <3>3. RunMoves(c) /\ run'[c] = r
      BY <3>1, <3>2 DEF TypeOK, RunMoves
    <3> QED
      BY <1>1, <3>3, RunKnows DEF ItemFree, RunState
  <2>2. run[c].todo \subseteq Queue
    BY <1>1, RunKnows DEF RunState
  <2> QED
    BY <1>2, <1>6, <2>1, <2>2 DEF NextQueue
<1>7. CASE CheckTime(c)
  BY <1>1, <1>2, <1>7, GotoRun, ToQueuesRun, RunKnows DEF CheckTime, ItemFree, Place
<1>8. CASE ClaimSelect(c)
  <2>1. CASE ToQueues(c)
    BY <1>1, <1>2, <1>8, <2>1, ToQueuesRun DEF ClaimSelect, ItemFree
  <2>2. CASE /\ Unclaimed(run[c].queue) # {}
             /\ run' = [run EXCEPT ![c].at = "update", ![c].read = now,
                                   ![c].item = First(run[c].queue)]
    <3> DEFINE i == First(run[c].queue)
               r == [run[c] EXCEPT !.at = "update", !.read = now, !.item = i]
    <3>1. i \in Item /\ table[i].name = run[c].queue
      BY <2>2, FirstIsUnclaimed
    <3>2. run[c].queue \in Queue
      BY <1>1, <1>8, RunKnows DEF ClaimSelect
    <3>3. i < nextId
      BY <3>1, <3>2, QueueAssumption, MaxItemsAssumption
      DEF RowsOK, NoItem, TypeOK, QueueTypeOK, Item
    <3>4. r \in RunState
      BY <1>1, <1>2, <3>1, RunKnows DEF RunState
    <3>5. run' = [run EXCEPT ![c] = r]
      BY <2>2
    <3>6. RunMoves(c) /\ run'[c] = r
      BY <3>4, <3>5 DEF TypeOK, RunMoves
    <3> QED
      BY <1>1, <1>2, <1>8, <3>1, <3>2, <3>3, <3>6, RunKnows DEF ClaimSelect, ItemFree, RunState
  <2> QED
    BY <1>8, <2>1, <2>2 DEF ClaimSelect
<1> QED
  BY <1>3, <1>4, <1>5, <1>6, <1>7, <1>8

-----------------------------------------------------------------------------
(* Steps that touch items.                                                 *)

(* Garbage collection of a request that began before now resets no row     *)
(* whose lease or delay still lasts.                                       *)
LEMMA HandlersKeep ==
  ASSUME CronInv, NEW c \in Run, UNCHANGED overstay, InvokeHandlers(c)
  PROVE  CronInv'
<1> USE DEF CronInv
<1>1. run[c] \in RunState /\ run[c].at = "handlers" /\ run[c].start <= now
  BY RunKnows DEF InvokeHandlers
<1>2. RunMoves(c) /\ run'[c].at = "record" /\ run'[c].start = run[c].start
  BY <1>1, GotoRun DEF InvokeHandlers, Place
<1>3. ItemFree(c)
  BY <1>1, <1>2 DEF ItemFree
<1>4. CASE UNCHANGED queueVars
  <2>1. TypeOK'
    BY <1>2, <1>4 DEF InvokeHandlers, TypeOK, QueueTypeOK, queueVars, RunMoves
  <2> QED
    BY <1>2, <1>3, <1>4, <2>1, QuietStep DEF InvokeHandlers
<1>5. CASE GarbageCollection(run[c].start)
  <2> DEFINE t == run[c].start
  <2>1. t \in Nat /\ now \in Nat
    BY <1>1 DEF RunState, TypeOK, QueueTypeOK
  <2>2. /\ table' \in [Item -> ItemRow] /\ nextId' = nextId
        /\ \A j \in Item :
             /\ table'[j].name = table[j].name
             /\ \/ table'[j] = table[j]
                \/ /\ table[j].expire # 0 /\ table[j].expire < t
                   /\ table'[j].expire = 0
    BY <1>5, <2>1, GarbageRow DEF TypeOK
  <2>3. UNCHANGED <<now, cronLock, cronLast, done, delayed, overstay>>
    BY DEF InvokeHandlers
  <2>4. TypeOK'
    BY <1>2, <2>2, <2>3 DEF TypeOK, QueueTypeOK, RunMoves
  <2>5. \A j \in Item : table[j] \in ItemRow /\ delayed[j] \in Nat
    BY DEF TypeOK, QueueTypeOK
  <2>6. RowsOK'
    BY <2>2, <2>3 DEF RowsOK, NoItem
  <2>7. RunsOK'
    BY <1>2, <1>3, <2>2, <2>3 DEF RunsOK, RunMoves, ItemFree
  <2>8. \A d \in Run, i \in Item : InLease(d, i)' => InLease(d, i) /\ run'[d] = run[d]
    BY <1>2, <2>3 DEF InLease, Working, RunMoves
  <2>9. \A d \in Run, i \in Item : InLease(d, i) => run[d].lease >= now /\ run[d].lease \in Nat
    BY <2>1, RunKnows DEF InLease, Working, RunState
  <2>10. \A i \in Item : Exists(i)' = Exists(i)
    BY <2>2, <2>5 DEF Exists, RowsOK, NoItem, ItemRow
  <2>11. LeasesOK'
    <3> SUFFICES ASSUME ~overstay
                 PROVE  /\ \A d \in Run, i \in Item : InLease(d, i) =>
                             table'[i].expire = run[d].lease /\ delayed[i] <= now
                        /\ \A d, e \in Run, i \in Item :
                             InLease(d, i) /\ InLease(e, i) => d = e
                        /\ \A i \in Item : Exists(i) /\ now < delayed[i] =>
                                             table'[i].expire >= delayed[i]
      BY <2>3, <2>8, <2>10 DEF LeasesOK
    <3>1. /\ \A d \in Run, i \in Item :
               InLease(d, i) => table[i].expire = run[d].lease /\ delayed[i] <= now
          /\ \A d, e \in Run, i \in Item : InLease(d, i) /\ InLease(e, i) => d = e
          /\ \A i \in Item : Exists(i) /\ now < delayed[i] =>
                               table[i].expire >= delayed[i]
      BY DEF LeasesOK
    <3>2. \A i \in Item : table[i].expire \in Nat
      BY <2>5 DEF ItemRow
    <3>3. ASSUME NEW i \in Item, table[i].expire >= now
          PROVE  table'[i] = table[i]
      BY <1>1, <2>1, <2>2, <3>2, <3>3
    <3>4. ASSUME NEW d \in Run, NEW i \in Item, InLease(d, i)
          PROVE  table'[i].expire = run[d].lease /\ delayed[i] <= now
      BY <2>9, <3>1, <3>3, <3>4
    <3>5. ASSUME NEW i \in Item, Exists(i), now < delayed[i]
          PROVE  table'[i].expire >= delayed[i]
      BY <2>1, <2>5, <3>1, <3>2, <3>3, <3>5
    <3> QED
      BY <3>1, <3>4, <3>5
  <2>12. NoItemLost'
    BY <2>2, <2>3, <2>10 DEF NoItemLost
  <2> QED
    BY <2>4, <2>6, <2>7, <2>11, <2>12
<1> QED
  BY <1>4, <1>5 DEF InvokeHandlers

(* The claim: nobody has a row whose `expire' is 0 within his lease, and   *)
(* no delay of it lasts.                                                   *)
LEMMA ClaimKeeps ==
  ASSUME CronInv, NEW c \in Run, UNCHANGED overstay, ClaimUpdate(c)
  PROVE  CronInv'
<1> USE DEF CronInv
<1> DEFINE i == run[c].item
<1>1. /\ run[c] \in RunState /\ run[c].at = "update"
      /\ i \in Item /\ i < nextId /\ run[c].queue \in Queue
      /\ run[c].start <= now /\ now \in Nat /\ run[c].read \in Nat
      /\ UNCHANGED <<now, cronLock, cronLast, done, delayed, overstay>>
  BY RunKnows DEF ClaimUpdate, TypeOK, QueueTypeOK, RunState
<1>2. CASE ~Claimable(i)
  <2>1. Goto(c, "select") /\ UNCHANGED queueVars
    BY <1>2 DEF ClaimUpdate
  <2>2. RunMoves(c) /\ ItemFree(c)
    BY <1>1, <2>1, GotoRun DEF ItemFree, Place
  <2>3. TypeOK'
    BY <1>1, <2>1, <2>2 DEF TypeOK, QueueTypeOK, queueVars, RunMoves
  <2> QED
    BY <1>1, <2>1, <2>2, <2>3, QuietStep
<1>3. CASE Claimable(i)
  <2>1. PICK t \in run[c].read..now :
          /\ SetExpire(i, t + LeaseTime)
          /\ run' = [run EXCEPT ![c].at = "work", ![c].read = 0,
                                ![c].lease = t + LeaseTime]
    BY <1>3 DEF ClaimUpdate
  <2> DEFINE e == t + LeaseTime
             r == [run[c] EXCEPT !.at = "work", !.read = 0, !.lease = e]
  <2>2. e \in Nat /\ e > 0
    BY <1>1 DEF LeaseTime
  <2>3. r \in RunState
    BY <1>1, <2>2 DEF RunState
  <2>4. run' = [run EXCEPT ![c] = r]
    BY <2>1
  <2>5. RunMoves(c) /\ run'[c] = r
    BY <2>3, <2>4 DEF TypeOK, RunMoves
  <2>6. /\ run'[c].at = "work" /\ run'[c].item = i /\ run'[c].lease = e
        /\ run'[c].start = run[c].start /\ run'[c].queue = run[c].queue
    BY <1>1, <2>5 DEF RunState
  <2>7. /\ table' \in [Item -> ItemRow] /\ nextId' = nextId
        /\ \A j \in Item : table'[j].name = table[j].name
        /\ \A j \in Item \ {i} : table'[j] = table[j]
        /\ table'[i].expire = e
    BY <1>1, <1>3, <2>1, <2>2, SetExpireRow DEF TypeOK, Claimable
  <2>8. TypeOK'
    BY <1>1, <2>5, <2>7 DEF TypeOK, QueueTypeOK, RunMoves
  <2>9. table[i].name # NoQueue /\ table[i].expire = 0
    BY <1>1, <1>3 DEF Claimable, Exists, RowsOK, NoItem, TypeOK, QueueTypeOK, ItemRow
  <2>10. RowsOK'
    <3>1. nextId \in Nat /\ \A j \in Item : j \in Nat
      BY MaxItemsAssumption DEF Item, TypeOK, QueueTypeOK
    <3>2. \A j \in Item : table'[j].name = NoQueue => table'[j].expire = 0
      BY <2>7, <2>9 DEF RowsOK
    <3>3. \A j \in Item : j >= nextId => j # i
      BY <1>1, <3>1
    <3>4. \A j \in Item : j >= nextId => table'[j] = NoItem /\ delayed[j] = 0
      BY <2>7, <3>3 DEF RowsOK
    <3> QED
      BY <1>1, <2>7, <3>2, <3>4 DEF RowsOK
  <2>11. RunsOK'
    BY <1>1, <2>2, <2>5, <2>6, <2>7, ZenonT(40) DEF RunsOK, RunMoves
  <2>12. \A j \in Item : Exists(j)' = Exists(j)
    BY <1>1, <1>3, <2>7, <2>9 DEF Claimable, Exists, NoItem
  <2>13. LeasesOK'
    <3> SUFFICES ASSUME ~overstay PROVE LeasesOK'
      BY <1>1 DEF LeasesOK
    <3>1. \A d \in Run : ~ InLease(d, i)
      BY <2>9, RunKnows DEF InLease, Working, LeasesOK, RunsOK
    <3>2. \A d \in Run \ {c}, j \in Item : InLease(d, j)' => InLease(d, j) /\ j # i
      BY <1>1, <2>5, <3>1 DEF InLease, Working, RunMoves
    <3>3. \A j \in Item : Working(c, j)' => j = i
      BY <2>6 DEF Working
    <3>4. delayed[i] <= now
      BY <1>1, <1>3, <2>9 DEF Claimable, LeasesOK, TypeOK
    <3>5. ASSUME NEW d \in Run, NEW j \in Item, InLease(d, j)'
          PROVE  (table[j].expire = run[d].lease /\ delayed[j] <= now)'
      <4>1. CASE d = c
        BY <1>1, <2>6, <2>7, <3>3, <3>4, <3>5, <4>1 DEF InLease
      <4>2. CASE d # c
        BY <1>1, <2>5, <2>7, <3>2, <3>5, <4>2 DEF LeasesOK, RunMoves
      <4> QED
        BY <4>1, <4>2
    <3>6. ASSUME NEW d \in Run, NEW b \in Run, NEW j \in Item,
                 InLease(d, j)', InLease(b, j)'
          PROVE  d = b
      BY <3>2, <3>3, <3>6 DEF LeasesOK, InLease
    <3>7. ASSUME NEW j \in Item, Exists(j)', now < delayed[j]
          PROVE  table'[j].expire >= delayed[j]
      BY <1>1, <2>7, <2>12, <3>4, <3>7 DEF LeasesOK, TypeOK
    <3> QED
      BY <1>1, <3>5, <3>6, <3>7 DEF LeasesOK
  <2>14. NoItemLost'
    BY <1>1, <2>7, <2>12 DEF NoItemLost
  <2> QED
    BY <2>8, <2>10, <2>11, <2>13, <2>14
<1> QED
  BY <1>2, <1>3

(* A worker within its lease ends its item, in one of the ways to end it.  *)
LEMMA EndKeeps ==
  ASSUME CronInv, NEW c \in Run, run[c].at \in {"work", "delete"}, InTime(c),
         NEW i, i = run[c].item, RunMoves(c), ItemFree(c),
         UNCHANGED <<now, nextId, cronLock, cronLast, done, overstay>>,
         table' \in [Item -> ItemRow], delayed' \in [Item -> Nat],
         \A j \in Item \ {i} : table'[j] = table[j] /\ delayed'[j] = delayed[j],
         \/ table'[i] = NoItem /\ i \in done
         \/ /\ table'[i].name = table[i].name
            /\ ~Exists(i) => table'[i] = table[i]
            /\ \/ delayed'[i] = delayed[i]
               \/ Exists(i) => table'[i].expire >= delayed'[i]
  PROVE  CronInv'
<1> USE DEF CronInv
<1>1. /\ run[c] \in RunState /\ i \in Item /\ i < nextId /\ now \in Nat
      /\ table[i] \in ItemRow /\ table'[i] \in ItemRow
  BY RunKnows DEF TypeOK, QueueTypeOK
<1>2. TypeOK'
  BY DEF TypeOK, QueueTypeOK, RunMoves
<1>3. Exists(i)' => Exists(i) /\ table'[i].name = table[i].name
  BY <1>1 DEF Exists
<1>4. RowsOK'
  <2>1. nextId \in Nat /\ \A j \in Item : j \in Nat
    BY MaxItemsAssumption DEF Item, TypeOK, QueueTypeOK
  <2>2. table'[i].name = NoQueue => table'[i].expire = 0
    BY <1>1 DEF RowsOK, NoItem, Exists, ItemRow
  <2>3. \A j \in Item : j >= nextId => j # i
    BY <1>1, <2>1
  <2> QED
    BY <2>2, <2>3 DEF RowsOK
<1>5. RunsOK'
  BY DEF RunsOK, RunMoves, ItemFree
<1>6. LeasesOK'
  <2> SUFFICES ASSUME ~overstay PROVE LeasesOK'
    BY DEF LeasesOK
  <2>1. InLease(c, i)
    BY DEF InLease, InTime, Working
  <2>2. \A d \in Run, j \in Item : InLease(d, j)' => InLease(d, j) /\ d # c
    BY DEF InLease, Working, RunMoves, ItemFree
  <2>3. \A d \in Run, j \in Item : InLease(d, j)' => j # i /\ run'[d] = run[d]
    BY <1>1, <2>1, <2>2 DEF LeasesOK, RunMoves
  <2>4. \A d \in Run, j \in Item :
          InLease(d, j)' => table'[j].expire = run'[d].lease /\ delayed'[j] <= now
    BY <2>2, <2>3 DEF LeasesOK
  <2>5. \A d, e \in Run, j \in Item : InLease(d, j)' /\ InLease(e, j)' => d = e
    BY <2>2 DEF LeasesOK
  <2>6. ASSUME NEW j \in Item, Exists(j)', now < delayed'[j]
        PROVE  table'[j].expire >= delayed'[j]
    <3>1. CASE j # i
      BY <2>6, <3>1 DEF LeasesOK, Exists
    <3>2. CASE j = i
      <4>1. delayed[i] <= now /\ delayed[i] \in Nat
        BY <1>1, <2>1 DEF LeasesOK, TypeOK
      <4>2. table'[i] # NoItem /\ Exists(i)
        BY <1>3, <2>6, <3>2 DEF Exists
      <4> QED
        BY <1>1, <2>6, <3>2, <4>1, <4>2
    <3> QED
      BY <3>1, <3>2
  <2> QED
    BY <2>4, <2>5, <2>6 DEF LeasesOK
<1>7. NoItemLost'
  <2>1. i \in done \/ (Exists(i) => Exists(i)')
    BY <1>1 DEF Exists, RowsOK, NoItem, ItemRow
  <2>2. \A j \in Item \ {i} : Exists(j)' = Exists(j)
    BY DEF Exists
  <2> QED
    BY <2>1, <2>2 DEF NoItemLost
<1> QED
  BY <1>2, <1>4, <1>5, <1>6, <1>7

LEMMA WorkKeeps ==
  ASSUME CronInv, NEW c \in Run, UNCHANGED overstay,
         \/ WorkSucceeds(c) \/ DeleteDone(c) \/ WorkDelays(c)
         \/ WorkRequeues(c) \/ WorkSuspends(c) \/ WorkFails(c)
  PROVE  CronInv'
<1> USE DEF CronInv
<1> DEFINE i == run[c].item
<1>1. run[c].at \in {"work", "delete"} /\ InTime(c)
  BY DEF WorkSucceeds, DeleteDone, WorkDelays, WorkRequeues, WorkSuspends, WorkFails
<1>2. /\ run[c] \in RunState /\ i \in Item /\ i < nextId /\ run[c].queue \in Queue
      /\ run[c].start <= now /\ now \in Nat /\ QueueTypeOK
      /\ delayed \in [Item -> Nat]
  BY <1>1, RunKnows DEF TypeOK, QueueTypeOK
<1>3. ToLoop(c) \/ ToQueues(c) => RunMoves(c) /\ ItemFree(c)
  BY <1>1, <1>2, ToLoopRun, ToQueuesRun DEF ItemFree, TypeOK, QueueTypeOK
<1>4. CASE WorkSucceeds(c)
  <2>1. /\ RunMoves(c) /\ run'[c].at = "delete" /\ run'[c].start = run[c].start
        /\ run'[c].queue = run[c].queue /\ run'[c].item = i
        /\ run'[c].lease = run[c].lease
    BY <1>1, <1>4, GotoRun DEF WorkSucceeds, Place
  <2>2. /\ UNCHANGED <<now, queueVars, cronLock, cronLast, delayed, overstay>>
        /\ done' = done \union {i} /\ run[c].at = "work"
    BY <1>4 DEF WorkSucceeds
  <2>3. TypeOK'
    BY <1>2, <2>1, <2>2 DEF TypeOK, QueueTypeOK, queueVars, RunMoves
  <2>4. RowsOK'
    BY <2>2 DEF RowsOK, queueVars
  <2>5. RunsOK'
    BY <2>1, <2>2 DEF RunsOK, RunMoves, queueVars
  <2>6. \A d \in Run, j \in Item : InLease(d, j)' = InLease(d, j)
    BY <2>1, <2>2 DEF InLease, Working, RunMoves
  <2>7. \A d \in Run : run'[d].lease = run[d].lease
    BY <2>1 DEF RunMoves
  <2>8. LeasesOK'
    BY <2>2, <2>6, <2>7 DEF LeasesOK, Exists, queueVars
  <2>9. NoItemLost'
    BY <2>2 DEF NoItemLost, Exists, queueVars
  <2> QED
    BY <2>3, <2>4, <2>5, <2>8, <2>9
<1>5. CASE DeleteDone(c)
  <2>1. i \in done
    BY <1>5 DEF DeleteDone, RunsOK
  <2> QED
    BY <1>1, <1>2, <1>3, <1>5, <2>1, DeleteItemRow, EndKeeps DEF DeleteDone
<1>6. CASE WorkDelays(c)
  <2>1. PICK d \in Delays :
          DelayItem(i, d) /\ delayed' = [delayed EXCEPT ![i] = now + d]
    BY <1>6 DEF WorkDelays
  <2>2. now + d \in Nat
    BY <1>2, CronAssumption
  <2>3. /\ table' \in [Item -> ItemRow] /\ nextId' = nextId
        /\ \A j \in Item : table'[j].name = table[j].name
        /\ \A j \in Item \ {i} : table'[j] = table[j]
        /\ Exists(i) => table'[i].expire = now + d
        /\ ~Exists(i) => table'[i] = table[i]
    BY <1>2, <2>1, <2>2, SetExpireRow DEF DelayItem
  <2>4. /\ delayed' \in [Item -> Nat] /\ delayed'[i] = now + d
        /\ \A j \in Item \ {i} : delayed'[j] = delayed[j]
    BY <1>2, <2>1, <2>2
  <2>5. Exists(i) => table'[i].expire >= delayed'[i]
    BY <2>2, <2>3, <2>4
  <2> QED
    BY <1>1, <1>2, <1>3, <1>6, <2>3, <2>4, <2>5, EndKeeps DEF WorkDelays
<1>7. CASE WorkRequeues(c) \/ WorkSuspends(c)
  <2>1. ReleaseItem(i) /\ (ToLoop(c) \/ ToQueues(c))
    BY <1>7 DEF WorkRequeues, WorkSuspends
  <2>2. /\ table' \in [Item -> ItemRow] /\ nextId' = nextId
        /\ \A j \in Item : table'[j].name = table[j].name
        /\ \A j \in Item \ {i} : table'[j] = table[j]
        /\ ~Exists(i) => table'[i] = table[i]
    BY <1>2, <2>1, SetExpireRow DEF ReleaseItem
  <2>3. UNCHANGED <<now, cronLock, cronLast, done, delayed, overstay>>
    BY <1>7 DEF WorkRequeues, WorkSuspends
  <2> QED
    BY <1>1, <1>2, <1>3, <2>1, <2>2, <2>3, EndKeeps
<1>8. CASE WorkFails(c)
  <2>1. RunMoves(c) /\ ItemFree(c)
    BY <1>3, <1>8 DEF WorkFails
  <2>2. TypeOK'
    BY <1>8, <2>1 DEF WorkFails, TypeOK, QueueTypeOK, queueVars, RunMoves
  <2> QED
    BY <1>8, <2>1, <2>2, QuietStep DEF WorkFails
<1> QED
  BY <1>4, <1>5, <1>6, <1>7, <1>8

-----------------------------------------------------------------------------
(* The rest of the world.                                                  *)

LEMMA CrashKeeps ==
  ASSUME CronInv, NEW c \in Run, Crash(c)
  PROVE  CronInv'
<1>1. [cronLock EXCEPT !.owner = Dead] \in [owner : Run \union {Nobody, Dead}, until : Nat]
  BY DEF CronInv, TypeOK
<1>2. cronLock' \in [owner : Run \union {Nobody, Dead}, until : Nat]
  BY <1>1 DEF Crash, CronInv, TypeOK
<1>3. cronLast' \in Nat
  BY DEF Crash, CronInv, TypeOK
<1> QED
  BY <1>2, <1>3, OverKeeps DEF Crash

(* A new item has an id that no row and no run has had.                    *)
LEMMA ProduceKeeps ==
  ASSUME CronInv, NEW q \in Queue, Produce(q)
  PROVE  CronInv'
<1> USE DEF CronInv
<1>1. /\ nextId \in Item /\ nextId' = nextId + 1 /\ nextId' \in 1..(MaxItems + 1)
      /\ table' \in [Item -> ItemRow]
      /\ table'[nextId].name = q /\ table'[nextId].expire = 0
      /\ \A j \in Item \ {nextId} : table'[j] = table[j]
  BY CreateItemRow DEF Produce, TypeOK
<1>2. UNCHANGED <<now, cronLock, cronLast, run, done, delayed, overstay>>
  BY DEF Produce
<1>3. nextId \in Nat /\ \A j \in Item : j \in Nat
  BY <1>1, MaxItemsAssumption DEF Item
<1>4. TypeOK'
  BY <1>1, <1>2 DEF TypeOK, QueueTypeOK
<1>5. RowsOK'
  <2>1. \A j \in Item : j >= nextId + 1 => j # nextId /\ j >= nextId
    BY <1>3
  <2>2. \A j \in Item : table'[j].name = NoQueue => table'[j].expire = 0
    BY <1>1 DEF RowsOK
  <2>3. \A j \in Item : j >= nextId' => table'[j] = NoItem /\ delayed[j] = 0
    BY <1>1, <2>1 DEF RowsOK
  <2> QED
    BY <1>2, <2>2, <2>3 DEF RowsOK
<1>6. RunsOK'
  <2>1. \A c \in Run : run[c].at \in {"update", "work", "delete"} =>
          run[c].item \in Item /\ run[c].item < nextId + 1
    BY <1>3 DEF RunsOK
  <2> QED
    BY <1>1, <1>2, <2>1 DEF RunsOK
<1>7. \A c \in Run, j \in Item : InLease(c, j)' = InLease(c, j)
  BY <1>2 DEF InLease, Working
<1>8. \A c \in Run, j \in Item : InLease(c, j) => j # nextId
  BY <1>3 DEF InLease, Working, RunsOK
<1>9. LeasesOK'
  <2> SUFFICES ASSUME ~overstay PROVE LeasesOK'
    BY <1>2 DEF LeasesOK
  <2>1. delayed[nextId] = 0 /\ now \in Nat
    BY <1>1, <1>3 DEF RowsOK, TypeOK, QueueTypeOK
  <2>2. \A j \in Item : Exists(j)' /\ now < delayed[j] =>
                          table'[j].expire >= delayed[j]
    BY <1>1, <2>1 DEF LeasesOK, Exists
  <2> QED
    BY <1>1, <1>2, <1>7, <1>8, <2>2 DEF LeasesOK
<1>10. NoItemLost'
  <2>1. table'[nextId] # NoItem
    BY <1>1, QueueAssumption DEF NoItem
  <2>2. \A j \in Item : j < nextId + 1 => j = nextId \/ j < nextId
    BY <1>3
  <2>3. ASSUME NEW j \in Item, j < nextId', table'[j] = NoItem
        PROVE  j \in done
    BY <1>1, <2>1, <2>2, <2>3 DEF NoItemLost, Exists
  <2> QED
    BY <1>2, <2>3 DEF NoItemLost, Exists
<1> QED
  BY <1>4, <1>5, <1>6, <1>9, <1>10

(* Leases and delays only run out as time passes.                          *)
LEMMA TickKeeps == CronInv /\ Tick => CronInv'
<1> SUFFICES ASSUME CronInv, Tick PROVE CronInv'
  OBVIOUS
<1> USE DEF CronInv
<1>1. /\ now \in Nat /\ now' = now + 1
      /\ UNCHANGED <<table, nextId, cronLock, cronLast, run, done, delayed, overstay>>
  BY DEF Tick, TypeOK, QueueTypeOK, queueVars
<1>2. TypeOK'
  BY <1>1 DEF TypeOK, QueueTypeOK
<1>3. RowsOK'
  BY <1>1 DEF RowsOK
<1>4. RunsOK'
  <2>1. \A c \in Run : run[c].at # "off" => run[c].start \in Nat /\ run[c].read \in Nat
    BY RunHasState DEF RunState
  <2> QED
    BY <1>1, <2>1 DEF RunsOK
<1>5. LeasesOK'
  <2>1. \A c \in Run, i \in Item : InLease(c, i)' => InLease(c, i)
    <3> SUFFICES ASSUME NEW c \in Run, NEW i \in Item, InLease(c, i)'
                 PROVE  InLease(c, i)
      OBVIOUS
    <3>1. Working(c, i) /\ now + 1 <= run[c].lease
      BY <1>1 DEF InLease, Working
    <3>2. run[c].lease \in Nat
      BY <3>1, RunHasState DEF Working, RunState
    <3> QED
      BY <1>1, <3>1, <3>2 DEF InLease
  <2>2. \A i \in Item : delayed[i] \in Nat
    BY DEF TypeOK
  <2> QED
    BY <1>1, <2>1, <2>2 DEF LeasesOK, Exists
<1>6. NoItemLost'
  BY <1>1 DEF NoItemLost, Exists
<1> QED
  BY <1>2, <1>3, <1>4, <1>5, <1>6

-----------------------------------------------------------------------------
(* The theorems.                                                           *)

LEMMA StutterKeeps == CronInv /\ UNCHANGED cronVars => CronInv'
<1> SUFFICES ASSUME CronInv, UNCHANGED cronVars PROVE CronInv'
  OBVIOUS
<1> USE DEF CronInv, cronVars, queueVars
<1>1. TypeOK'
  BY DEF TypeOK, QueueTypeOK
<1>2. RowsOK' /\ RunsOK' /\ NoItemLost'
  BY DEF RowsOK, RunsOK, NoItemLost, Exists
<1>3. LeasesOK'
  BY DEF LeasesOK, InLease, Working, Exists
<1> QED
  BY <1>1, <1>2, <1>3

LEMMA StepKeeps == CronInv /\ Next => CronInv'
<1> SUFFICES ASSUME CronInv, Next PROVE CronInv'
  OBVIOUS
<1>1. CASE Tick
  BY <1>1, TickKeeps
<1>2. ASSUME NEW q \in Queue, Produce(q) PROVE CronInv'
  BY <1>2, ProduceKeeps
<1>3. ASSUME NEW c \in Run, Start(c) \/ Crash(c) PROVE CronInv'
  BY <1>3, StartKeeps, CrashKeeps
<1>4. ASSUME NEW c \in Run, Step(c) PROVE CronInv'
  BY <1>4, QuietSteps, HandlersKeep, ClaimKeeps, WorkKeeps DEF Step
<1> QED
  BY <1>1, <1>2, <1>3, <1>4 DEF Next

LEMMA Invariance == Spec => []CronInv
<1>1. CronInv /\ [Next]_cronVars => CronInv'
  BY StepKeeps, StutterKeeps
<1> QED
  BY InitInv, <1>1, PTL DEF Spec

(* Whatever runs overlap, die or overstay, the queue's rows, the cron lock *)
(* and what the runs remember keep their types; no run touches an item     *)
(* that it did not claim.                                                  *)
THEOREM TypeCorrect == Spec => []TypeOK
<1>1. CronInv => TypeOK
  BY DEF CronInv
<1> QED
  BY Invariance, <1>1, PTL

(* processQueues() loses no item of any queue, even with workers that      *)
(* release, delay or delete items whose lease they overstayed: only        *)
(* deleteItem() removes one, after its worker returned.                    *)
THEOREM NothingLost == Spec => []NoItemLost
<1>1. CronInv => NoItemLost
  BY DEF CronInv
<1> QED
  BY Invariance, <1>1, PTL

(* Leases alone keep overlapping runs of processQueues() apart: with       *)
(* workers that end in time, no item is with two of them within its lease. *)
THEOREM ClaimsExclusive == Spec => []ClaimExclusive
<1>1. CronInv => ClaimExclusive
  BY DEF CronInv, LeasesOK, InLease, ClaimExclusive
<1> QED
  BY Invariance, <1>1, PTL

(* With such workers neither a release nor garbage collection shortens the *)
(* delay that a DelayedRequeueException asked for.                         *)
THEOREM DelaysHonoured == Spec => []DelayHonoured
<1>1. CronInv => DelayHonoured
  <2> SUFFICES ASSUME CronInv, ~overstay, NEW i \in Item, Exists(i), now < delayed[i]
               PROVE  table[i].expire # 0
    BY DEF DelayHonoured
  <2>1. table[i].expire >= delayed[i]
    BY DEF CronInv, LeasesOK
  <2>2. now \in Nat /\ delayed[i] \in Nat
    BY DEF CronInv, TypeOK, QueueTypeOK
  <2> QED
    BY <2>1, <2>2
<1> QED
  BY Invariance, <1>1, PTL
=============================================================================

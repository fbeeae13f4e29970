---------------------------- MODULE DatabaseLock ----------------------------
(***************************************************************************)
(* Drupal's lock service over the `semaphore' table:                       *)
(*   core/lib/Drupal/Core/Lock/DatabaseLockBackend.php,                    *)
(*   core/lib/Drupal/Core/Lock/LockBackendAbstract.php (wait, getLockId),  *)
(*   core/lib/Drupal/Core/Lock/PersistentDatabaseLockBackend.php.          *)
(*                                                                         *)
(* A process is one PHP request.  It runs one call of the service at a     *)
(* time; every query of a call is a step of its own, so the queries of     *)
(* concurrent requests interleave.  One step of the model is one atomic    *)
(* query together with the process-local code that follows it.             *)
(*                                                                         *)
(* Time is counted in ticks of at least a millisecond (the shortest        *)
(* lifetime acquire() grants), so the 0.0001 s that the conditional DELETE *)
(* adds against float rounding is less than a tick.                        *)
(***************************************************************************)
EXTENDS Naturals

CONSTANTS
  Request,       \* the PHP requests
  Name,          \* the lock names, after normalizeName()
  Timeouts,      \* the lifetimes callers ask for, in ticks
  MaxTimeout,    \* the longest of them
  Polls,         \* the numbers of polls a wait() may make
  Persistent,    \* TRUE: PersistentDatabaseLockBackend; FALSE: the default
  Shared,        \* the fixed lock id 'persistent'
  Nobody,        \* the value of a row that does not exist
  MaxTime        \* the clock stops here (bound of the model)

(* max($timeout, 0.001): no lifetime is shorter than a tick.               *)
ASSUME TimeoutsAssumption ==
  /\ MaxTimeout \in Nat
  /\ Timeouts \subseteq 1..MaxTimeout

ASSUME BoundsAssumption ==
  /\ MaxTime \in Nat
  /\ Polls \subseteq Nat \ {0}
  /\ Persistent \in BOOLEAN

ASSUME IdsAssumption ==
  /\ Nobody \notin Request \union {Shared}
  /\ Shared \notin Request

VARIABLES
  now,           \* microtime(TRUE), the same clock for every request
  table,         \* does the semaphore table exist yet?
  semaphore,     \* its row per name: [value, expire]
  locks,         \* p's $this->locks: locks[p][n] is 0 if n is unset, else the
                 \* $expire of p's last successful acquire (history: the code
                 \* keeps TRUE)
  call           \* the call p runs, with its local variables

vars == <<now, table, semaphore, locks, call>>

-----------------------------------------------------------------------------

(* getLockId(): unique per request, or one fixed string for everybody.     *)
LockId(p) == IF Persistent THEN Shared ELSE p
LockIds   == Request \union {Shared}

Row   == [value : LockIds \union {Nobody}, expire : Nat]
NoRow == [value |-> Nobody, expire |-> 0]

Present(n) == semaphore[n].value # Nobody

Finished == {"ended", "crashed"}
InCall   == {"extend", "insert", "ensure", "create", "select", "break",
             "sleep", "recheck"}
Outside  == {"idle", "failed"} \union Finished

(* A call: the next thing it does, the method the caller called, and the   *)
(* PHP variables $name, $expire, $retry, $lock (the row its SELECT         *)
(* returned) and the polls a wait() has left.                              *)
Frame ==
  [at : InCall, method : {"acquire", "wait", "release"}, name : Name,
   expire : Nat, retry : BOOLEAN, seen : Row, polls : Nat]

(* Between calls there is nothing but the request's own state.             *)
Between == [at : Outside]

Goto(p, l)   == call' = [call EXCEPT ![p].at = l]
Return(p, l) == call' = [call EXCEPT ![p] = [at |-> l]]

Enter(p, l, m, n, e, k) ==
  /\ call[p].at = "idle"
  /\ call' = [call EXCEPT
       ![p] = [at |-> l, method |-> m, name |-> n, expire |-> e,
               retry |-> FALSE, seen |-> NoRow, polls |-> k]]

Init ==
  /\ now = 0
  /\ table \in BOOLEAN
  /\ semaphore = [n \in Name |-> NoRow]
  /\ locks = [p \in Request |-> [n \in Name |-> 0]]
  /\ call = [p \in Request |-> [at |-> "idle"]]

-----------------------------------------------------------------------------
(* acquire($name, $timeout)                                                *)

(* $expire is computed once, before the first query, and not again for the *)
(* retry.                                                                  *)
Acquire(p, n, t) ==
  /\ Enter(p, IF locks[p][n] # 0 THEN "extend" ELSE "insert",
           "acquire", n, now + t, 0)
  /\ UNCHANGED <<now, table, semaphore, locks>>

(* Mutation: the UPDATE forgets its condition on `value'.                  *)
ExtendByName(p) ==
  LET n == call[p].name IN
  /\ call[p].at = "extend"
  /\ \/ /\ Present(n)
        /\ semaphore' = [semaphore EXCEPT ![n].expire = call[p].expire]
        /\ locks' = [locks EXCEPT ![p][n] = call[p].expire]
     \/ /\ ~Present(n)
        /\ locks' = [locks EXCEPT ![p][n] = 0]
        /\ UNCHANGED semaphore
  /\ Return(p, "idle")
  /\ UNCHANGED <<now, table>>

(* Mutation: the UPDATE reports the rows it changed instead of the rows it *)
(* matched, so renewing a lock to the end it has already looks broken.     *)
ExtendCountingChanges(p) ==
  LET n       == call[p].name
      changed == /\ semaphore[n].value = LockId(p)
                 /\ semaphore[n].expire # call[p].expire
  IN
  /\ call[p].at = "extend"
  /\ \/ /\ changed
        /\ semaphore' = [semaphore EXCEPT ![n].expire = call[p].expire]
        /\ locks' = [locks EXCEPT ![p][n] = call[p].expire]
     \/ /\ ~changed
        /\ locks' = [locks EXCEPT ![p][n] = 0]
        /\ UNCHANGED semaphore
  /\ Return(p, "idle")
  /\ UNCHANGED <<now, table>>

(* The UPDATE of a lock this request already holds: its `value' condition  *)
(* matches, or the lock was broken.                                        *)
Extend(p) ==
  LET n == call[p].name IN
  /\ call[p].at = "extend"
  /\ \/ /\ semaphore[n].value = LockId(p)
        /\ semaphore' = [semaphore EXCEPT ![n].expire = call[p].expire]
        /\ locks' = [locks EXCEPT ![p][n] = call[p].expire]
     \/ /\ semaphore[n].value # LockId(p)
        /\ locks' = [locks EXCEPT ![p][n] = 0]
        /\ UNCHANGED semaphore
  /\ Return(p, "idle")
  /\ UNCHANGED <<now, table>>

(* The INSERT finds no row of that name and creates the lock.              *)
InsertRow(p) ==
  LET n == call[p].name IN
  /\ call[p].at = "insert"
  /\ table /\ ~Present(n)
  /\ semaphore' = [semaphore EXCEPT
                     ![n] = [value |-> LockId(p), expire |-> call[p].expire]]
  /\ locks' = [locks EXCEPT ![p][n] = call[p].expire]
  /\ Return(p, "idle")
  /\ UNCHANGED <<now, table>>

(* Mutation: no limit to the retries.                                      *)
InsertConflictAlwaysAsk(p) ==
  /\ call[p].at = "insert"
  /\ table /\ Present(call[p].name)
  /\ Goto(p, "select")
  /\ UNCHANGED <<now, table, semaphore, locks>>

(* IntegrityConstraintViolationException: the first time, ask              *)
(* lockMayBeAvailable(); after a retry, give up.                           *)
InsertConflict(p) ==
  /\ call[p].at = "insert"
  /\ table /\ Present(call[p].name)
  /\ IF call[p].retry THEN Return(p, "idle") ELSE Goto(p, "select")
  /\ UNCHANGED <<now, table, semaphore, locks>>

(* Any other exception: here, the table does not exist.                    *)
InsertNoTable(p) ==
  /\ call[p].at = "insert"
  /\ ~table
  /\ Goto(p, "ensure")
  /\ UNCHANGED <<now, table, semaphore, locks>>

(* ensureTableExists() asks whether the table exists; if it does by now,   *)
(* it returns FALSE and acquire() rethrows the exception of the INSERT.    *)
EnsureTable(p) ==
  /\ call[p].at = "ensure"
  /\ IF table THEN Return(p, "failed") ELSE Goto(p, "create")
  /\ UNCHANGED <<now, table, semaphore, locks>>

(* createTable(), or the exception it throws because another request was   *)
(* faster; ensureTableExists() returns TRUE in both cases, and $retry is   *)
(* flipped.                                                                *)
CreateTable(p) ==
  /\ call[p].at = "create"
  /\ table' = TRUE
  /\ IF call[p].retry
     THEN Return(p, "idle")
     ELSE call' = [call EXCEPT ![p].at = "insert", ![p].retry = TRUE]
  /\ UNCHANGED <<now, semaphore, locks>>

-----------------------------------------------------------------------------
(* lockMayBeAvailable($name), called by acquire() and by wait()            *)

(* It returns TRUE: acquire() inserts again, once; wait() is over.         *)
ReturnAvailable(p) ==
  IF call[p].method = "acquire"
  THEN call' = [call EXCEPT ![p].at = "insert", ![p].retry = TRUE]
  ELSE Return(p, "idle")

(* Mutation: wait() does not look at the delay it has left.                *)
ReturnUnavailableEndless(p) ==
  IF call[p].method = "wait" THEN Goto(p, "sleep") ELSE Return(p, "idle")

(* It returns FALSE: acquire() fails; wait() sleeps while it has time.     *)
ReturnUnavailable(p) ==
  IF call[p].method = "wait" /\ call[p].polls > 0
  THEN Goto(p, "sleep")
  ELSE Return(p, "idle")

(* The SELECT of the row.                                                  *)
Select(p) ==
  LET n == call[p].name IN
  /\ call[p].at = "select"
  /\ \/ /\ ~table
        /\ Goto(p, "recheck")
     \/ /\ table /\ ~Present(n)
        /\ ReturnAvailable(p)
     \/ /\ table /\ Present(n)
        /\ call' = [call EXCEPT ![p].at = "break", ![p].seen = semaphore[n]]
  /\ UNCHANGED <<now, table, semaphore, locks>>

(* Mutation: the DELETE has no condition on `expire'.                      *)
BreakByValue(p) ==
  LET n    == call[p].name
      seen == call[p].seen
      hit  == /\ now > seen.expire
              /\ semaphore[n].value = seen.value
  IN
  /\ call[p].at = "break"
  /\ \/ /\ hit
        /\ semaphore' = [semaphore EXCEPT ![n] = NoRow]
        /\ ReturnAvailable(p)
     \/ /\ ~hit
        /\ ReturnUnavailable(p)
        /\ UNCHANGED semaphore
  /\ UNCHANGED <<now, table, locks>>

(* Mutation: the DELETE asks for an `expire' below the one that was read.  *)
BreakOlder(p) ==
  LET n    == call[p].name
      seen == call[p].seen
      hit  == /\ now > seen.expire
              /\ semaphore[n].value = seen.value
              /\ semaphore[n].expire < seen.expire
  IN
  /\ call[p].at = "break"
  /\ \/ /\ hit
        /\ semaphore' = [semaphore EXCEPT ![n] = NoRow]
        /\ ReturnAvailable(p)
     \/ /\ ~hit
        /\ ReturnUnavailable(p)
        /\ UNCHANGED semaphore
  /\ UNCHANGED <<now, table, locks>>

(* The row read by Select is compared with the clock; an expired one is    *)
(* deleted unless the lock was taken or renewed in the meantime.  The      *)
(* clock read and the DELETE are one step: the clock does not go back, so  *)
(* a lock found expired still is when the DELETE runs.                     *)
Break(p) ==
  LET n    == call[p].name
      seen == call[p].seen
      hit  == /\ now > seen.expire
              /\ semaphore[n].value = seen.value
              /\ semaphore[n].expire <= seen.expire
  IN
  /\ call[p].at = "break"
  /\ \/ /\ hit
        /\ semaphore' = [semaphore EXCEPT ![n] = NoRow]
        /\ ReturnAvailable(p)
     \/ /\ ~hit
        /\ ReturnUnavailable(p)
        /\ UNCHANGED semaphore
  /\ UNCHANGED <<now, table, locks>>

(* catchException(): the query that failed for want of the table throws    *)
(* after all if the table exists by now.  Otherwise wait() is told that    *)
(* the lock may be available, and release() has nothing to do.             *)
Recheck(p) ==
  /\ call[p].at = "recheck"
  /\ Return(p, IF table THEN "failed" ELSE "idle")
  /\ UNCHANGED <<now, table, semaphore, locks>>

-----------------------------------------------------------------------------
(* wait($name, $delay)                                                     *)

(* The delay bounds the number of polls: each sleep but the last is at     *)
(* least 25 ms, and the delay shrinks by it.                               *)
Wait(p, n, k) ==
  /\ Enter(p, "sleep", "wait", n, 0, k)
  /\ UNCHANGED <<now, table, semaphore, locks>>

Sleep(p) ==
  /\ call[p].at = "sleep"
  /\ call' = [call EXCEPT ![p].at = "select", ![p].polls = @ - 1]
  /\ UNCHANGED <<now, table, semaphore, locks>>

-----------------------------------------------------------------------------
(* release($name), releaseAll(), and the end of a request                  *)

(* Mutation: the DELETE of release() has no condition on `value'.          *)
ReleaseByName(p, n) ==
  /\ call[p].at = "idle"
  /\ locks' = [locks EXCEPT ![p][n] = 0]
  /\ semaphore' = [semaphore EXCEPT ![n] = NoRow]
  /\ IF table THEN UNCHANGED call ELSE Enter(p, "recheck", "release", n, 0, 0)
  /\ UNCHANGED <<now, table>>

(* The row goes only if it still carries this request's lock id.           *)
Release(p, n) ==
  /\ call[p].at = "idle"
  /\ locks' = [locks EXCEPT ![p][n] = 0]
  /\ semaphore' = IF semaphore[n].value = LockId(p)
                  THEN [semaphore EXCEPT ![n] = NoRow] ELSE semaphore
  /\ IF table THEN UNCHANGED call ELSE Enter(p, "recheck", "release", n, 0, 0)
  /\ UNCHANGED <<now, table>>

(* Mutation: the persistent backend registers the shutdown function too.   *)
ShutdownReleasingAll(p) ==
  /\ call[p].at \in {"idle", "failed"}
  /\ semaphore' = IF \E n \in Name : locks[p][n] # 0
                  THEN [n \in Name |-> IF semaphore[n].value = LockId(p)
                                       THEN NoRow ELSE semaphore[n]]
                  ELSE semaphore
  /\ locks' = [locks EXCEPT ![p] = [n \in Name |-> 0]]
  /\ Return(p, "ended")
  /\ UNCHANGED <<now, table>>

(* The request ends, perhaps with an uncaught exception.  Its shutdown     *)
(* function releaseAll() deletes by lock id if any lock is on record; the  *)
(* persistent backend registers none.                                      *)
Shutdown(p) ==
  /\ call[p].at \in {"idle", "failed"}
  /\ semaphore' = IF ~Persistent /\ \E n \in Name : locks[p][n] # 0
                  THEN [n \in Name |-> IF semaphore[n].value = LockId(p)
                                       THEN NoRow ELSE semaphore[n]]
                  ELSE semaphore
  /\ locks' = [locks EXCEPT ![p] = [n \in Name |-> 0]]
  /\ Return(p, "ended")
  /\ UNCHANGED <<now, table>>

(* The process dies at any point: its memory is gone, its rows stay.       *)
Crash(p) ==
  /\ call[p].at \notin Finished
  /\ locks' = [locks EXCEPT ![p] = [n \in Name |-> 0]]
  /\ Return(p, "crashed")
  /\ UNCHANGED <<now, table, semaphore>>

Tick ==
  /\ now < MaxTime
  /\ now' = now + 1
  /\ UNCHANGED <<table, semaphore, locks, call>>

-----------------------------------------------------------------------------

(* What a request does once it has made a call.                            *)
Step(p) ==
  \/ Extend(p)
  \/ InsertRow(p) \/ InsertConflict(p) \/ InsertNoTable(p)
  \/ EnsureTable(p) \/ CreateTable(p)
  \/ Select(p) \/ Break(p) \/ Recheck(p)
  \/ Sleep(p)

(* What it may choose to call, and how it may end.                         *)
Call(p) ==
  \/ \E n \in Name :
       \/ \E t \in Timeouts : Acquire(p, n, t)
       \/ \E k \in Polls : Wait(p, n, k)
       \/ Release(p, n)
  \/ Shutdown(p)
  \/ Crash(p)

Next == Tick \/ \E p \in Request : Step(p) \/ Call(p)

Spec == Init /\ [][Next]_vars

(* A request that runs a call goes on running it, and time goes on.  No    *)
(* request is obliged to make or to repeat a call.                         *)
Fairness == WF_vars(Tick) /\ \A p \in Request : WF_vars(Step(p))

FairSpec == Spec /\ Fairness

-----------------------------------------------------------------------------

TypeOK ==
  /\ now \in Nat
  /\ table \in BOOLEAN
  /\ semaphore \in [Name -> Row]
  /\ locks \in [Request -> [Name -> Nat]]
  /\ call \in [Request -> Frame \union Between]

(* p was told that it holds n, has not given n back, and the lifetime it   *)
(* was granted has not run out.                                            *)
Holds(p, n) == locks[p][n] # 0 /\ now <= locks[p][n]

(* However the queries of acquire(), wait(), release() and the shutdown    *)
(* function interleave, and whichever requests crash, two requests never   *)
(* both hold a lock whose lifetime has not run out.                        *)
LeaseExclusive ==
  \A p, q \in Request : \A n \in Name :
    Holds(p, n) /\ Holds(q, n) => p = q

(* A request that ended in order, even by an exception, leaves no row      *)
(* behind that others would have to wait for: releaseAll() skips its       *)
(* DELETE when $this->locks is empty, so the record of p's locks must      *)
(* never fall behind the table.                                            *)
NoRowAfterShutdown ==
  \A p \in Request : call[p].at = "ended" =>
    \A n \in Name : semaphore[n].value # p

(* The table and what a request believes agree: a row in its name is on    *)
(* its record with the lifetime it was told, unless it crashed; and while  *)
(* that lifetime runs the row is there.  Nobody else's conditional DELETE, *)
(* however stale the row it was computed from, removes it earlier.         *)
RecordBacked ==
  \A p \in Request, n \in Name :
    /\ semaphore[n].value = p /\ call[p].at # "crashed" =>
         locks[p][n] = semaphore[n].expire
    /\ Holds(p, n) => semaphore[n].value = p

(* What makes RecordBacked inductive: a request in the middle of acquire() *)
(* brings a lifetime that ends after time 0, and only wait() sleeps, with  *)
(* a poll left; no row ends at time 0; a finished request holds nothing.   *)
FramesOK ==
  \A p \in Request :
    /\ \/ call[p].at \in {"extend", "insert", "ensure", "create"}
       \/ call[p].at \in {"select", "break"} /\ call[p].method = "acquire"
       => call[p].expire > 0
    /\ call[p].at = "sleep" => call[p].method = "wait" /\ call[p].polls > 0

RowsOK ==
  \A n \in Name :
    IF Present(n) THEN semaphore[n].expire > 0 ELSE semaphore[n] = NoRow

FinishedForgets ==
  \A p \in Request : call[p].at \in Finished =>
    \A n \in Name : locks[p][n] = 0

Inv == TypeOK /\ FramesOK /\ RowsOK /\ FinishedForgets /\ RecordBacked

(* "Failure to renew a lock is indicative that another request has         *)
(* acquired the lock" (LockBackendInterface.php:42): a renewal never        *)
(* succeeds while another request holds the lock.                          *)
RenewalTruthful ==
  [][\A p, q \in Request : \A n \in Name :
       /\ call[p].at = "extend" /\ call[p].name = n
       /\ call'[p].at = "idle" /\ locks'[p][n] # 0
       /\ p # q
       => ~Holds(q, n)]_vars

(* Every call comes back: the do..while of acquire() makes at most one     *)
(* more round, and wait() runs out of polls.                               *)
CallsReturn ==
  \A p \in Request : call[p].at \in InCall ~> call[p].at \notin InCall

(* A lock whose owner crashed does not block its name for ever: if         *)
(* requests keep asking for it, one of them breaks it after its expiry.    *)
(* (The bounded clock must still be able to pass that expiry.)             *)
Abandoned(p, n) ==
  /\ call[p].at = "crashed"
  /\ semaphore[n].value = p
  /\ semaphore[n].expire < MaxTime

Asked(n) == \E q \in Request : call[q].at = "select" /\ call[q].name = n

AbandonedLockBroken ==
  \A n \in Name : []<>Asked(n) =>
    \A p \in Request : Abandoned(p, n) ~> semaphore[n].value # p

(* The persistent backend's locks outlive the request that acquired them:  *)
(* while its lifetime runs, the step that takes a row away is release() of *)
(* that name, called by some request; it is never the end of a request or  *)
(* a conditional DELETE, however stale the row it was computed from.       *)
(* Batch steps in different requests rely on it.  That release() is called *)
(* by the request that has the lock is not said, and not so: all requests  *)
(* share one lock id (README, section 5).                                  *)
KeptUntilReleased ==
  [][\A n \in Name :
       Present(n) /\ now <= semaphore[n].expire /\ ~Present(n)' =>
         \E p \in Request : Release(p, n)]_vars

(* acquire() creates the table when it is missing and retries              *)
(* (DatabaseLockBackend.php:92); a request that loses that race is meant   *)
(* to go on as if it had created the table itself (lines 186-188).  It     *)
(* does not hold: README, section 5.                                       *)
NoFailureOnRace == \A p \in Request : call[p].at # "failed"

-----------------------------------------------------------------------------

(* The default backend implements the lease lock: rows are leases and      *)
(* $this->locks is what a request was granted.                             *)
Lease == INSTANCE LeaseLock WITH
           lease <- [n \in Name |-> [owner |-> semaphore[n].value,
                                     until |-> semaphore[n].expire]],
           held <- [p \in Request |-> {n \in Name : locks[p][n] # 0}]

LeaseSpec == Lease!Spec

(* No call brings a lifetime that ends later than the longest one from now *)
(* on.                                                                     *)
LifetimesOK ==
  \A p \in Request :
    call[p].at \in InCall => call[p].expire <= now + MaxTimeout
=============================================================================

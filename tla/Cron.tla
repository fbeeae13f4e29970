-------------------------------- MODULE Cron --------------------------------
(***************************************************************************)
(* Cron runs: core/lib/Drupal/Core/Cron.php over DatabaseQueue and the     *)
(* lock service.  A run is a request.  It takes the lock `cron' (900 s),   *)
(* invokes the cron handlers, among them system_cron() which collects the  *)
(* garbage of the queues, and gives the lock back; then, whether or not it *)
(* got the lock, it works off every cron queue until the time set aside    *)
(* for it is over.  So runs overlap in processQueues() by design, and only *)
(* the items' leases keep them apart.                                      *)
(*                                                                         *)
(* The lock is used here as LeaseLock promises it.  A queue worker is      *)
(* modelled by what it can make processQueues() do: return, or throw one   *)
(* of the four kinds of exception.                                         *)
(***************************************************************************)
EXTENDS DatabaseQueue

CONSTANTS
  Run,           \* slots for concurrent cron runs; a slot is used again
  CronTime,      \* the `time' of the queues' cron definition, in seconds
  LockTime,      \* the lifetime of the cron lock
  Delays,        \* the delays a DelayedRequeueException asks for
  Overstays,     \* the values of overstay to consider
  CanCrash,      \* TRUE: a run may die at any point
  MaxStart,      \* no run, and no queue's loop, starts after this time
                 \* (bound of the model)
  MaxTime        \* the clock stops here (bound of the model)

ASSUME CronAssumption ==
  /\ CronTime \in Nat /\ LockTime \in Nat
  /\ Delays \subseteq Nat
  /\ Overstays \subseteq BOOLEAN /\ CanCrash \in BOOLEAN
  /\ MaxStart \in Nat /\ MaxTime \in Nat

VARIABLES
  cronLock,      \* the lease of the name `cron'
  cronLast,      \* the state value system.cron_last
  run,           \* each run: where it is, and its local variables
  done,          \* history: the items some worker processed to the end
  delayed,       \* history: until when each item's last delay lasts
  overstay       \* FALSE: every worker ends its item within its lease;
                 \* never changes

cronVars == <<now, queueVars, cronLock, cronLast, run, done, delayed, overstay>>

(* processQueues() passes `isset($info['cron']['time']) ?: NULL' to        *)
(* claimItem(): TRUE, which counts as one second, for every queue, as      *)
(* QueueWorkerManager gives each cron definition a `time'.                 *)
LeaseTime == 1

Nobody == "nobody"
Dead   == "dead"   \* a run that died: its lock id is never used again

Off == [at |-> "off"]

RunState ==
  [at : {"lock", "handlers", "record", "unlock", "queues", "loop", "select",
         "update", "work", "delete"},
   start : Nat,              \* REQUEST_TIME, while it is still read
   todo : SUBSET Queue,      \* the queues it has still to visit
   queue : Queue \union {NoQueue},
   end : Nat,                \* $end
   item : Item \union {0},   \* $item
   read : Nat,               \* when it read the item
   lease : Nat]              \* the expire it wrote

Goto(c, l) == run' = [run EXCEPT ![c].at = l]

(* The foreach of processQueues(), and the while loop in it.  What a run   *)
(* knew of the item it had, and of its queue, is forgotten.                *)
ToLoop(c) ==
  run' = [run EXCEPT ![c].at = "loop",
                     ![c].item = 0, ![c].read = 0, ![c].lease = 0]
ToQueues(c) ==
  run' = [run EXCEPT ![c].at = "queues", ![c].start = 0,
                     ![c].queue = NoQueue, ![c].end = 0,
                     ![c].item = 0, ![c].read = 0, ![c].lease = 0]

Init ==
  /\ now = 0
  /\ QueueInit
  /\ cronLock = [owner |-> Nobody, until |-> 0]
  /\ cronLast = 0
  /\ run = [c \in Run |-> Off]
  /\ done = {}
  /\ delayed = [i \in Item |-> 0]
  /\ overstay \in Overstays

-----------------------------------------------------------------------------
(* run()                                                                   *)

Start(c) ==
  /\ run[c] = Off
  /\ now <= MaxStart
  /\ run' = [run EXCEPT ![c] =
       [at |-> "lock", start |-> now, todo |-> Queue, queue |-> NoQueue,
        end |-> 0, item |-> 0, read |-> 0, lease |-> 0]]
  /\ UNCHANGED <<now, queueVars, cronLock, cronLast, done, delayed, overstay>>

(* Without the lock the run skips the handlers and nothing else.           *)
AcquireLock(c) ==
  /\ run[c].at = "lock"
  /\ IF cronLock.owner = Nobody \/ now > cronLock.until
     THEN /\ cronLock' = [owner |-> c, until |-> now + LockTime]
          /\ Goto(c, "handlers")
     ELSE /\ ToQueues(c)
          /\ UNCHANGED cronLock
  /\ UNCHANGED <<now, queueVars, cronLast, done, delayed>>

(* invokeCronHandlers(): system_cron() collects garbage, unless it throws  *)
(* before it comes to that; other handlers may add items.                  *)
InvokeHandlers(c) ==
  /\ run[c].at = "handlers"
  /\ \/ GarbageCollection(run[c].start)
     \/ UNCHANGED queueVars
  /\ Goto(c, "record")
  /\ UNCHANGED <<now, cronLock, cronLast, done, delayed>>

SetCronLastTime(c) ==
  /\ run[c].at = "record"
  /\ cronLast' = run[c].start
  /\ Goto(c, "unlock")
  /\ UNCHANGED <<now, queueVars, cronLock, done, delayed>>

(* The lock may have run out, and may even be another run's by now.        *)
ReleaseLock(c) ==
  /\ run[c].at = "unlock"
  /\ cronLock' = IF cronLock.owner = c
                 THEN [owner |-> Nobody, until |-> 0] ELSE cronLock
  /\ ToQueues(c)
  /\ UNCHANGED <<now, queueVars, cronLast, done, delayed>>

-----------------------------------------------------------------------------
(* processQueues()                                                         *)

(* The foreach: the next queue, or the end of the run.                     *)
NextQueue(c) ==
  /\ run[c].at = "queues"
  /\ \/ \E q \in run[c].todo :
          /\ now <= MaxStart
          /\ run' = [run EXCEPT ![c].at = "loop", ![c].queue = q,
                                ![c].todo = @ \ {q}, ![c].end = now + CronTime]
     \/ run[c].todo = {} /\ run' = [run EXCEPT ![c] = Off]
  /\ UNCHANGED <<now, queueVars, cronLock, cronLast, done, delayed>>

(* Mutation: the loop does not look at the time.                           *)
CheckNoTime(c) ==
  /\ run[c].at = "loop"
  /\ Goto(c, "select")
  /\ UNCHANGED <<now, queueVars, cronLock, cronLast, done, delayed>>

(* time() < $end                                                           *)
CheckTime(c) ==
  /\ run[c].at = "loop"
  /\ IF now < run[c].end THEN Goto(c, "select") ELSE ToQueues(c)
  /\ UNCHANGED <<now, queueVars, cronLock, cronLast, done, delayed>>

(* claimItem(): the SELECT.                                                *)
ClaimSelect(c) ==
  LET q == run[c].queue IN
  /\ run[c].at = "select"
  /\ \/ /\ Unclaimed(q) = {}
        /\ ToQueues(c)
     \/ /\ Unclaimed(q) # {}
        /\ run' = [run EXCEPT ![c].at = "update", ![c].item = First(q),
                              ![c].read = now]
  /\ UNCHANGED <<now, queueVars, cronLock, cronLast, done, delayed>>

(* claimItem(): the UPDATE; the clock was read at some time since the      *)
(* SELECT.  If another run was faster, the SELECT is tried again.          *)
ClaimUpdate(c) ==
  LET i == run[c].item IN
  /\ run[c].at = "update"
  /\ \/ /\ Claimable(i)
        /\ \E t \in run[c].read..now :
             /\ SetExpire(i, t + LeaseTime)
             /\ run' = [run EXCEPT ![c].at = "work", ![c].read = 0,
                                   ![c].lease = t + LeaseTime]
     \/ /\ ~Claimable(i)
        /\ Goto(c, "select")
        /\ UNCHANGED queueVars
  /\ UNCHANGED <<now, cronLock, cronLast, done, delayed>>

(* What the model may assume of a worker that ends its item now.           *)
InTime(c) == overstay \/ now <= run[c].lease

(* processItem() returns.                                                  *)
WorkSucceeds(c) ==
  /\ run[c].at = "work" /\ InTime(c)
  /\ done' = done \union {run[c].item}
  /\ Goto(c, "delete")
  /\ UNCHANGED <<now, queueVars, cronLock, cronLast, delayed>>

DeleteDone(c) ==
  /\ run[c].at = "delete" /\ InTime(c)
  /\ DeleteItem(run[c].item)
  /\ ToLoop(c)
  /\ UNCHANGED <<now, cronLock, cronLast, done, delayed>>

(* DelayedRequeueException                                                 *)
WorkDelays(c) ==
  /\ run[c].at = "work" /\ InTime(c)
  /\ \E d \in Delays :
       /\ DelayItem(run[c].item, d)
       /\ delayed' = [delayed EXCEPT ![run[c].item] = now + d]
  /\ ToLoop(c)
  /\ UNCHANGED <<now, cronLock, cronLast, done>>

(* RequeueException                                                        *)
WorkRequeues(c) ==
  /\ run[c].at = "work" /\ InTime(c)
  /\ ReleaseItem(run[c].item)
  /\ ToLoop(c)
  /\ UNCHANGED <<now, cronLock, cronLast, done, delayed>>

(* SuspendQueueException: on to the next queue.                            *)
WorkSuspends(c) ==
  /\ run[c].at = "work" /\ InTime(c)
  /\ ReleaseItem(run[c].item)
  /\ ToQueues(c)
  /\ UNCHANGED <<now, cronLock, cronLast, done, delayed>>

(* Mutation: an item whose worker throws is deleted.                       *)
WorkFailsForGood(c) ==
  /\ run[c].at = "work" /\ InTime(c)
  /\ DeleteItem(run[c].item)
  /\ ToLoop(c)
  /\ UNCHANGED <<now, cronLock, cronLast, done, delayed>>

(* Any other exception: the item stays claimed.                            *)
WorkFails(c) ==
  /\ run[c].at = "work" /\ InTime(c)
  /\ ToLoop(c)
  /\ UNCHANGED <<now, queueVars, cronLock, cronLast, done, delayed>>

-----------------------------------------------------------------------------

(* A run dies; the lock and the item it holds stay as they are.            *)
Crash(c) ==
  /\ CanCrash
  /\ run[c] # Off
  /\ run' = [run EXCEPT ![c] = Off]
  /\ cronLock' = IF cronLock.owner = c
                 THEN [cronLock EXCEPT !.owner = Dead] ELSE cronLock
  /\ UNCHANGED <<now, queueVars, cronLast, done, delayed, overstay>>

(* Any request adds an item, cron handlers included.                       *)
Produce(q) ==
  /\ CreateItem(q)
  /\ UNCHANGED <<now, cronLock, cronLast, run, done, delayed, overstay>>

Tick ==
  /\ now < MaxTime
  /\ now' = now + 1
  /\ UNCHANGED <<queueVars, cronLock, cronLast, run, done, delayed, overstay>>

Step(c) ==
  /\ UNCHANGED overstay
  /\ \/ AcquireLock(c) \/ InvokeHandlers(c) \/ SetCronLastTime(c)
     \/ ReleaseLock(c) \/ NextQueue(c) \/ CheckTime(c)
     \/ ClaimSelect(c) \/ ClaimUpdate(c)
     \/ WorkSucceeds(c) \/ DeleteDone(c) \/ WorkDelays(c)
     \/ WorkRequeues(c) \/ WorkSuspends(c) \/ WorkFails(c)

Next ==
  \/ Tick
  \/ \E q \in Queue : Produce(q)
  \/ \E c \in Run : Start(c) \/ Step(c) \/ Crash(c)

Spec == Init /\ [][Next]_cronVars

(* A run that was started is executed, and time passes.  Nothing obliges   *)
(* anybody to start one, and nothing is assumed of how a worker ends.      *)
FairSpec == Spec /\ WF_cronVars(Tick) /\ \A c \in Run : WF_cronVars(Step(c))

-----------------------------------------------------------------------------

TypeOK ==
  /\ QueueTypeOK
  /\ cronLock \in [owner : Run \union {Nobody, Dead}, until : Nat]
  /\ cronLast \in Nat
  /\ run \in [Run -> RunState \union {Off}]
  /\ done \subseteq Item
  /\ delayed \in [Item -> Nat]
  /\ overstay \in Overstays

Working(c, i) == run[c].at \in {"work", "delete"} /\ run[c].item = i

(* While the lease of a claim lasts, nobody else is given the item: two    *)
(* runs never work on one item inside their leases, although all of them   *)
(* process the queues without a lock, and although garbage collection      *)
(* resets items by comparing their expire with the start of its own        *)
(* request.  Neither releaseItem(), delayItem() nor deleteItem() checks    *)
(* who claimed the item, so this needs workers that end in time.           *)
ClaimExclusive ==
  ~overstay =>
  \A c, d \in Run : \A i \in Item :
    /\ Working(c, i) /\ now <= run[c].lease
    /\ Working(d, i) /\ now <= run[d].lease
    => c = d

(* An item put off by delayItem() is not claimed before its delay is over, *)
(* provided that workers end in time here, too.                            *)
DelayHonoured ==
  ~overstay =>
  \A i \in Item : Exists(i) /\ now < delayed[i] => table[i].expire # 0

(* "Every item will be executed at least once" (ReliableQueueInterface):   *)
(* no item disappears that no worker has processed to the end, whatever    *)
(* stale consumers release, delay or delete.                               *)
NoItemLost ==
  \A i \in Item : i < nextId /\ ~Exists(i) => i \in done

InLoop(c) == run[c].at \in {"loop", "select", "update", "work", "delete"}

(* The item that c has selected is not to be had any more.                 *)
Snatched(c) == run[c].at = "update" /\ ~Claimable(run[c].item)

(* The loop over a queue ends, however often a worker requeues its item:   *)
(* the time set aside for the queue stops it.  There is one way to go on   *)
(* for ever.  claimItem() itself does not look at the time while others    *)
(* snatch the items it selects, so they would have to do that for ever.    *)
(* (Workers may take their time; those of ~overstay are stopped by the     *)
(* model.)                                                                 *)
LoopsEnd ==
  \A c \in Run : <>[](overstay /\ InLoop(c)) => []<>Snatched(c)

(* The lease is meant to be "how long the processing is expected to take"  *)
(* (QueueInterface.php:48), which for a cron queue is its cron `time':     *)
(* until then no other run may have the item.                              *)
ClaimedAt(c) == run[c].lease - LeaseTime

ExclusiveForCronTime ==
  \A c, d \in Run : \A i \in Item :
    /\ Working(c, i) /\ now <= ClaimedAt(c) + CronTime
    /\ Working(d, i) /\ now <= ClaimedAt(d) + CronTime
    => c = d
=============================================================================

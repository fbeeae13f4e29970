----------------------------- MODULE LeaseLock -----------------------------
(***************************************************************************)
(* What Drupal's lock service promises, without saying how                 *)
(* (LockBackendInterface.php, the "lock" topic): an advisory lease per     *)
(* lock name.  A request that is granted the lease of a name owns it until *)
(* it gives it back or until the lease runs out; only then may anybody     *)
(* else take it.  DatabaseLock implements this over a table.               *)
(***************************************************************************)
EXTENDS Naturals

CONSTANTS
  Request,       \* the requests (processes) that use the lock service
  Name,          \* the lock names
  Nobody,        \* the owner of a free lease
  MaxTimeout     \* the longest lifetime a request ever asks for

VARIABLES
  now,           \* the clock the requests read
  lease,         \* lease[n]: who owns name n, and until when
  held           \* held[p]: the names p was granted and did not give back

leaseVars == <<now, lease, held>>

Free == [owner |-> Nobody, until |-> 0]

Init ==
  /\ now = 0
  /\ lease = [n \in Name |-> Free]
  /\ held = [p \in Request |-> {}]

Tick == now' = now + 1 /\ UNCHANGED <<lease, held>>

(* A free lease is granted.  Its end was fixed when the request asked, so  *)
(* it lies at most MaxTimeout ahead and may even be past already.          *)
Grant(p, n) ==
  /\ lease[n] = Free
  /\ \E u \in 1..(now + MaxTimeout) :
       lease' = [lease EXCEPT ![n] = [owner |-> p, until |-> u]]
  /\ held' = [held EXCEPT ![p] = @ \union {n}]
  /\ UNCHANGED now

(* Only the owner of a lease moves its end.                                *)
Renew(p, n) ==
  /\ lease[n].owner = p
  /\ n \in held[p]
  /\ \E u \in 1..(now + MaxTimeout) :
       lease' = [lease EXCEPT ![n].until = u]
  /\ UNCHANGED <<now, held>>

(* A request is told that it lost a lease only if it really did.           *)
Lose(p, n) ==
  /\ lease[n].owner # p
  /\ held' = [held EXCEPT ![p] = @ \ {n}]
  /\ UNCHANGED <<now, lease>>

(* Giving back frees the requester's own lease and nobody else's.          *)
Release(p, n) ==
  /\ held' = [held EXCEPT ![p] = @ \ {n}]
  /\ lease' = IF lease[n].owner = p THEN [lease EXCEPT ![n] = Free] ELSE lease
  /\ UNCHANGED now

(* A request that ends in order leaves no lease behind.                    *)
End(p) ==
  /\ held' = [held EXCEPT ![p] = {}]
  /\ lease' = [n \in Name |-> IF lease[n].owner = p THEN Free ELSE lease[n]]
  /\ UNCHANGED now

(* A request that dies leaves its leases to run out.                       *)
Die(p) ==
  /\ held' = [held EXCEPT ![p] = {}]
  /\ UNCHANGED <<now, lease>>

(* A lease is taken away from its owner only when it has run out.          *)
Reclaim(n) ==
  /\ lease[n] # Free
  /\ now > lease[n].until
  /\ lease' = [lease EXCEPT ![n] = Free]
  /\ UNCHANGED <<now, held>>

Next ==
  \/ Tick
  \/ \E p \in Request, n \in Name :
       Grant(p, n) \/ Renew(p, n) \/ Lose(p, n) \/ Release(p, n)
  \/ \E p \in Request : End(p) \/ Die(p)
  \/ \E n \in Name : Reclaim(n)

Spec == Init /\ [][Next]_leaseVars
=============================================================================

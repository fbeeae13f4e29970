--------------------------- MODULE DatabaseQueue ---------------------------
(***************************************************************************)
(* The `queue' table and the queries of                                    *)
(* core/lib/Drupal/Core/Queue/DatabaseQueue.php on it, one operator per    *)
(* query.  An item carries `expire': 0 while anybody may claim it, else    *)
(* the time at which its lease or its delay ends.  No query but the two of *)
(* claimItem() looks at `expire', and none knows who claimed an item.      *)
(*                                                                         *)
(* The module has no behaviour of its own: Cron drives it.                 *)
(***************************************************************************)
EXTENDS Naturals

CONSTANTS
  Queue,         \* the queue names
  MaxItems       \* item ids (bound of the model)

ASSUME MaxItemsAssumption == MaxItems \in Nat

VARIABLES
  now,           \* time(), in seconds
  table,         \* the row of each item id
  nextId         \* the next serial id

queueVars == <<table, nextId>>

Item == 1..MaxItems

NoQueue == "no queue"

ASSUME QueueAssumption == NoQueue \notin Queue

ItemRow == [name : Queue \union {NoQueue}, expire : Nat]
NoItem  == [name |-> NoQueue, expire |-> 0]

Exists(i) == table[i] # NoItem

QueueInit ==
  /\ table = [i \in Item |-> NoItem]
  /\ nextId = 1

QueueTypeOK ==
  /\ now \in Nat
  /\ table \in [Item -> ItemRow]
  /\ nextId \in 1..(MaxItems + 1)

(* createItem(): INSERT with the next serial id.  `created' is read from   *)
(* the clock in the same step, so it never orders items unlike their ids.  *)
CreateItem(q) ==
  /\ nextId <= MaxItems
  /\ table' = [table EXCEPT ![nextId] = [name |-> q, expire |-> 0]]
  /\ nextId' = nextId + 1

(* The SELECT of claimItem(): the unclaimed items of the queue, the first  *)
(* by (created, item_id).                                                  *)
Unclaimed(q) == {i \in Item : table[i].name = q /\ table[i].expire = 0}

First(q) == CHOOSE i \in Unclaimed(q) : \A j \in Unclaimed(q) : i <= j

(* Mutation: the UPDATE forgets its condition on `expire'.                 *)
ClaimableIfThere(i) == Exists(i)

(* The UPDATE of claimItem() matches the row only while it is unclaimed.   *)
Claimable(i) == Exists(i) /\ table[i].expire = 0

(* The UPDATEs of claimItem(), releaseItem() and delayItem().  Where there *)
(* is no such row they change nothing.                                     *)
SetExpire(i, e) ==
  /\ table' = IF Exists(i) THEN [table EXCEPT ![i].expire = e] ELSE table
  /\ UNCHANGED nextId

ReleaseItem(i) == SetExpire(i, 0)

(* Mutation: the delay counts backwards.                                   *)
DelayItemBackwards(i, d) == SetExpire(i, now - d)

DelayItem(i, d) == SetExpire(i, now + d)

DeleteItem(i) ==
  /\ table' = [table EXCEPT ![i] = NoItem]
  /\ UNCHANGED nextId

(* Mutation: every claim is reset, however young.                          *)
GarbageCollectionOfAll(t) ==
  /\ table' = [i \in Item |->
                 IF table[i].expire # 0
                 THEN [table[i] EXCEPT !.expire = 0] ELSE table[i]]
  /\ UNCHANGED nextId

(* garbageCollection() of a request that started at t: whatever ran out    *)
(* before is unclaimed again, in every queue.  (Its other query deletes    *)
(* items of batches more than ten days old.)                               *)
GarbageCollection(t) ==
  /\ table' = [i \in Item |->
                 IF table[i].expire # 0 /\ table[i].expire < t
                 THEN [table[i] EXCEPT !.expire = 0] ELSE table[i]]
  /\ UNCHANGED nextId
=============================================================================

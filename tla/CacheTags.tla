----------------------------- MODULE CacheTags -----------------------------
(***************************************************************************)
(* Cache tags: how changes of data reach the items cached from them.       *)
(*   core/lib/Drupal/Core/Cache/CacheTagsChecksumTrait.php,                *)
(*   core/lib/Drupal/Core/Cache/DatabaseCacheTagsChecksum.php,             *)
(*   core/lib/Drupal/Core/Cache/DatabaseBackend.php and ApcuBackend.php    *)
(*   (get and set).                                                        *)
(*                                                                         *)
(* Requests run concurrently and share the invalidation counts of the      *)
(* `cachetags' table and the cache items.  Each query is a step.  Every    *)
(* request keeps static caches for its lifetime, and a new request starts  *)
(* without them.  An item is stored with the sum of the counts of its tags *)
(* and is good as long as a reader finds the same sum.                     *)
(*                                                                         *)
(* The bins are seen as shared stores outside the database transaction,    *)
(* which APCu and the like are; a DatabaseBackend on the request's own     *)
(* connection shows the items of a transaction later, if at all.           *)
(* Counts are read as committed; a database whose transactions read from a *)
(* snapshot shows counts no older than the transaction.                    *)
(***************************************************************************)
EXTENDS Integers, FiniteSets, FiniteSetsExt

CONSTANTS
  Request,       \* concurrent requests; an id is used again by a new request
  Tag,           \* the cache tags
  Cid,           \* the cache ids
  ItemTags,      \* the sets of tags the items are stored with
  Apcu,          \* the cids in a bin that stores items whatever the checksum
  Repeats,       \* TRUE: a request invalidates a tag again without having
                 \* stored an item with it since
  Rollbacks,     \* TRUE: transactions may be rolled back
  MaxCalls       \* calls of invalidateTags() (bound of the model)

ASSUME ParametersAssumption ==
  /\ Apcu \subseteq Cid
  /\ ItemTags \subseteq SUBSET Tag
  /\ \A T \in ItemTags : IsFiniteSet(T)
  /\ {Repeats, Rollbacks} \subseteq BOOLEAN
  /\ MaxCalls \in Nat

Invalid == -1    \* INVALID_CHECKSUM_WHILE_IN_TRANSACTION
Unset   == -1    \* a tag that is not in a static cache

VARIABLES
  counts,        \* the cachetags table: invalidations per tag
  bin,           \* bin[c]: the set of the item stored as c, or {}
  tagCache,      \* p's $tagCache: counts it has loaded
  invalidated,   \* p's $invalidatedTags
  delayed,       \* p's $delayedTags
  tx,            \* p's database transaction: "none", "open"
  op,            \* what p is doing
  calls,         \* calls of invalidateTags() so far
  changed        \* history: tags p has invalidated in its transaction

vars == <<counts, bin, tagCache, invalidated, delayed, tx, op, calls, changed>>
shared  == <<counts, bin>>
statics == <<tagCache, invalidated, delayed>>

(* History of an item: marked[t] is the count of tag t when a call of      *)
(* invalidateTags() took effect on the stored item, `late' the requests    *)
(* that began after one did, and `by' the request whose uncommitted        *)
(* changes the item may contain, if any.                                   *)
Item ==
  [tags : SUBSET Tag, checksum : Int, marked : [Tag -> Nat \union {Unset}],
   late : SUBSET Request, by : SUBSET Request]

Idle == [at |-> "idle"]

Init ==
  /\ counts = [t \in Tag |-> 0]
  /\ bin = [c \in Cid |-> {}]
  /\ tagCache = [p \in Request |-> [t \in Tag |-> Unset]]
  /\ invalidated = [p \in Request |-> {}]
  /\ delayed = [p \in Request |-> {}]
  /\ tx = [p \in Request |-> "none"]
  /\ op = [p \in Request |-> Idle]
  /\ calls = 0
  /\ changed = [p \in Request |-> {}]

At(p, l) == op[p].at = l
Do(p, o) == op' = [op EXCEPT ![p] = o]

-----------------------------------------------------------------------------
(* calculateChecksum()                                                     *)

(* What p takes for the count of t: its static cache, or the table.        *)
View(p, t) == IF tagCache[p][t] = Unset THEN counts[t] ELSE tagCache[p][t]

Checksum(p, T) == MapThenSumSet(LAMBDA t : View(p, t), T)

(* Mutation: an invalidated tag stays in the static cache.  (See           *)
(* InvalidateTags, which uses Forget.)                                     *)
KeepStatic(p, T) == tagCache[p]

Forget(p, T) == [t \in Tag |-> IF t \in T THEN Unset ELSE tagCache[p][t]]

(* Unknown tags are loaded into the static cache.                          *)
Load(p, T) ==
  tagCache' = [tagCache EXCEPT
    ![p] = [t \in Tag |-> IF t \in T THEN View(p, t) ELSE @[t]]]

-----------------------------------------------------------------------------
(* get()                                                                   *)

(* The SELECT of the row.                                                  *)
GetRow(p, c) ==
  /\ At(p, "idle")
  /\ \E i \in bin[c] : Do(p, [at |-> "validate", item |-> i])
  /\ UNCHANGED <<shared, statics, tx, calls, changed>>

(* isValid(): an item with a tag whose invalidation is delayed is not to   *)
(* be used; else the sums are compared.                                    *)
IsValid(p, i) ==
  /\ i.tags \intersect delayed[p] = {}
  /\ i.checksum = Checksum(p, i.tags)

Validate(p) ==
  LET i == op[p].item IN
  /\ At(p, "validate")
  /\ IF i.tags \intersect delayed[p] = {}
     THEN Load(p, i.tags) ELSE UNCHANGED tagCache
  /\ Do(p, Idle)
  /\ UNCHANGED <<shared, invalidated, delayed, tx, calls, changed>>

-----------------------------------------------------------------------------
(* set()                                                                   *)

(* getCurrentChecksum(): while a tag's invalidation is delayed the item    *)
(* gets a checksum that never matches.  Otherwise the tags may be          *)
(* invalidated again by this request.                                      *)
CurrentChecksum(p, c, T) ==
  LET wait == T \intersect delayed[p] # {}
      item(sum) == [tags |-> T, checksum |-> sum,
                    marked |-> [t \in Tag |-> Unset],
                    late |-> {}, by |-> IF T \intersect changed[p] # {} THEN {p} ELSE {}]
  IN
  /\ At(p, "idle")
  /\ \/ /\ wait
        /\ Do(p, IF c \in Apcu
                 THEN [at |-> "store", cid |-> c, item |-> item(Invalid)]
                 ELSE Idle)
        /\ UNCHANGED <<tagCache, invalidated>>
     \/ /\ ~wait
        /\ Do(p, [at |-> "store", cid |-> c, item |-> item(Checksum(p, T))])
        /\ invalidated' = [invalidated EXCEPT ![p] = @ \ T]
        /\ Load(p, T)
  /\ UNCHANGED <<shared, delayed, tx, calls, changed>>

(* The write of the item.                                                  *)
Store(p) ==
  /\ At(p, "store")
  /\ bin' = [bin EXCEPT ![op[p].cid] = {op[p].item}]
  /\ Do(p, Idle)
  /\ UNCHANGED <<counts, statics, tx, calls, changed>>

-----------------------------------------------------------------------------
(* invalidateTags()                                                        *)

(* History: the items with tags of T are marked, at the counts n.          *)
Mark(T, n) ==
  bin' = [c \in Cid |->
    {[i EXCEPT !.marked = [t \in Tag |-> IF t \in T \intersect i.tags
                                         THEN n[t] ELSE @[t]]] : i \in bin[c]}]

(* Mutation: invalidations do not wait for the end of a transaction.       *)
NeverInTransaction(p) == FALSE

InTransaction(p) == tx[p] = "open"

(* Tags this request has invalidated already are left out.  In a           *)
(* transaction the others wait for its end.                                *)
InvalidateTags(p, T) ==
  LET new == T \ invalidated[p] IN
  /\ At(p, "idle") /\ calls < MaxCalls
  /\ Repeats \/ new = T
  /\ calls' = calls + 1
  /\ invalidated' = [invalidated EXCEPT ![p] = @ \union T]
  /\ tagCache' = [tagCache EXCEPT ![p] = Forget(p, new)]
  /\ \/ /\ InTransaction(p)
        /\ delayed' = [delayed EXCEPT ![p] = @ \union new]
        /\ UNCHANGED <<op, bin>>
     \/ /\ ~InTransaction(p)
        /\ Do(p, IF new = {} THEN Idle ELSE [at |-> "merge", todo |-> new])
        /\ Mark(T \ new, counts)
        /\ UNCHANGED delayed
  /\ changed' = [changed EXCEPT ![p] = IF tx[p] = "open" THEN @ \union T ELSE @]
  /\ UNCHANGED <<counts, tx>>

(* Mutation: the MERGE has no expression, so that it sets a count to the   *)
(* 1 it inserts for a tag that is not in the table.                        *)
Once(t) == [counts EXCEPT ![t] = 1]

OneMore(t) == [counts EXCEPT ![t] = @ + 1]

(* doInvalidateTags(): one MERGE per tag; with the last one the callback   *)
(* that had waited for the end of a transaction is done as well.           *)
Merge(p, t) ==
  LET left == op[p].todo \ {t} IN
  /\ At(p, "merge") /\ t \in op[p].todo
  /\ counts' = OneMore(t)
  /\ Mark({t}, OneMore(t))
  /\ Do(p, IF left = {} THEN Idle ELSE [op[p] EXCEPT !.todo = left])
  /\ delayed' = [delayed EXCEPT ![p] = IF left = {} THEN {} ELSE @]
  /\ UNCHANGED <<tagCache, invalidated, tx, calls, changed>>

-----------------------------------------------------------------------------
(* Transactions and the life of a request                                  *)

StartTransaction(p) ==
  /\ At(p, "idle") /\ tx[p] = "none"
  /\ tx' = [tx EXCEPT ![p] = "open"]
  /\ UNCHANGED <<shared, statics, op, calls, changed>>

(* The transaction is committed; then rootTransactionEndCallback(TRUE)     *)
(* carries out the delayed invalidations.                                  *)
Commit(p) ==
  /\ At(p, "idle") /\ tx[p] = "open"
  /\ tx' = [tx EXCEPT ![p] = "none"]
  /\ Do(p, IF delayed[p] = {} THEN Idle ELSE [at |-> "merge", todo |-> delayed[p]])
  /\ Mark(changed[p] \ delayed[p], counts)
  /\ changed' = [changed EXCEPT ![p] = {}]
  /\ UNCHANGED <<counts, statics, calls>>

(* It is rolled back; rootTransactionEndCallback(FALSE) forgets them.      *)
RollBack(p) ==
  /\ Rollbacks
  /\ At(p, "idle") /\ tx[p] = "open"
  /\ tx' = [tx EXCEPT ![p] = "none"]
  /\ delayed' = [delayed EXCEPT ![p] = {}]
  /\ changed' = [changed EXCEPT ![p] = {}]
  /\ UNCHANGED <<shared, tagCache, invalidated, op, calls>>

(* The request ends or dies, wherever it is, and a new one takes its       *)
(* place.                                                                  *)
NewRequest(p) ==
  /\ tagCache' = [tagCache EXCEPT ![p] = [t \in Tag |-> Unset]]
  /\ invalidated' = [invalidated EXCEPT ![p] = {}]
  /\ delayed' = [delayed EXCEPT ![p] = {}]
  /\ tx' = [tx EXCEPT ![p] = "none"]
  /\ bin' = [c \in Cid |->
       {[i EXCEPT !.late = IF i.marked = [t \in Tag |-> Unset] THEN @ ELSE @ \union {p}] :
          i \in bin[c]}]
  /\ changed' = [changed EXCEPT ![p] = {}]
  /\ Do(p, Idle)
  /\ UNCHANGED <<counts, calls>>

Next ==
  \E p \in Request :
    \/ \E c \in Cid : GetRow(p, c)
    \/ \E c \in Cid, T \in ItemTags : CurrentChecksum(p, c, T)
    \/ \E T \in SUBSET Tag \ {{}} : InvalidateTags(p, T)
    \/ \E t \in Tag : Merge(p, t)
    \/ Validate(p) \/ Store(p)
    \/ StartTransaction(p) \/ Commit(p) \/ RollBack(p)
    \/ NewRequest(p)

Spec == Init /\ [][Next]_vars

-----------------------------------------------------------------------------

(* Types; and the static caches of a request agree with each other and     *)
(* with the table: no count is ahead of the table's, and a tag whose       *)
(* invalidation waits is known as invalidated and has no count.            *)
TypeOK ==
  /\ counts \in [Tag -> Nat]
  /\ \A c \in Cid : bin[c] \subseteq Item /\ Cardinality(bin[c]) <= 1
  /\ tagCache \in [Request -> [Tag -> Nat \union {Unset}]]
  /\ invalidated \in [Request -> SUBSET Tag]
  /\ delayed \in [Request -> SUBSET Tag]
  /\ tx \in [Request -> {"none", "open"}]
  /\ changed \in [Request -> SUBSET Tag]
  /\ \A p \in Request, t \in Tag :
       /\ tagCache[p][t] <= counts[t]
       /\ t \in delayed[p] => t \in invalidated[p] /\ tagCache[p][t] = Unset

(* The items p might be about to accept.                                   *)
InReach(p) ==
  (UNION {bin[c] : c \in Cid}) \union
  (IF At(p, "validate") THEN {op[p].item} ELSE {})

(* A request never accepts an item that was marked before the request      *)
(* began, whatever it has in its static caches, and however its queries    *)
(* interleave with those of others that store and invalidate.              *)
StaleNeverServed ==
  \A p \in Request : \A i \in InReach(p) :
    IsValid(p, i) => p \notin i.late

(* isValid() returns "FALSE if cache tag invalidations happened for the    *)
(* passed in tags since the cache item was stored"                         *)
(* (CacheTagsChecksumInterface.php:57), at least where the counts the      *)
(* reader itself goes by include the invalidation.  It does not hold:      *)
(* README, section 5.                                                      *)
KnownInvalidationsCount ==
  \A p \in Request : \A i \in InReach(p) :
    IsValid(p, i) =>
      \A t \in i.tags : i.marked[t] # Unset => i.marked[t] > View(p, t)

(* "Any cache writes in this request containing cache tags whose           *)
(* invalidation has been delayed due to an in-progress transaction must    *)
(* not be read by any other request" (CacheTagsChecksumTrait.php:89), also *)
(* when the transaction is rolled back or its request dies.                *)
UncommittedNeverServed ==
  \A p \in Request : \A i \in InReach(p) : IsValid(p, i) => i.by = {}

(* Invalidations "are delayed to occur just before the commit"             *)
(* (CacheTagsChecksumInterface.php:30): once a transaction is committed,   *)
(* items with the tags it invalidated are not accepted any more.  It does  *)
(* not hold: README, section 5.                                            *)
InvalidatedBeforeCommit ==
  \A p \in Request : tx[p] = "none" =>
    \A t \in delayed[p], c \in Cid : \A i \in bin[c] :
      t \in i.tags => i.checksum # MapThenSumSet(LAMBDA u : counts[u], i.tags)
=============================================================================

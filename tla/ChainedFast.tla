---------------------------- MODULE ChainedFast ----------------------------
(***************************************************************************)
(* The chained fast cache: a cache bin with a fast backend on every web    *)
(* node (APCu) in front of a consistent one (the database).                *)
(*   core/lib/Drupal/Core/Cache/ChainedFastBackend.php                     *)
(*                                                                         *)
(* Every write of the bin leaves a timestamp in the consistent backend,    *)
(* and an item of a fast backend is good if it was not created before it.  *)
(* Each access to a backend is a step, and requests on several nodes take  *)
(* theirs in any order.  One unit of time is the millisecond both          *)
(* timestamps are rounded to.                                              *)
(***************************************************************************)
EXTENDS Integers

CONSTANTS
  Request,       \* concurrent requests; an id is used again by a new request
  Node,          \* the web nodes
  Home,          \* Home[p]: the node p runs on
  Ahead,         \* Ahead[n]: how far the clock of n is ahead of the others
  Cid,           \* the cache ids of the bin
  Crashes,       \* TRUE: requests may die anywhere
  Delays,        \* TRUE: time may pass between reading the clock for the
                 \* timestamp and writing it
  MaxWrites,     \* writes of items (bound of the model)
  MaxTime        \* milliseconds (bound of the model)

ASSUME ParametersAssumption ==
  /\ Node # {}
  /\ Home \in [Request -> Node]
  /\ Ahead \in [Node -> Nat]
  /\ {Crashes, Delays} \subseteq BOOLEAN
  /\ MaxWrites \in Nat /\ MaxTime \in Nat \ {0}

VARIABLES
  items,         \* items[c]: the set of the value the consistent backend has
  stamp,         \* its last write timestamp; 0: none
  fast,          \* fast[n][c]: the set of the item the fast backend of n has
  known,         \* p's $lastWriteTimestamp; Null at first
  op,            \* what p is doing
  now,           \* the time
  writes,        \* writes so far; also the last value written
  met,           \* history: p's operation has overlapped a write of another
  unmarked       \* history: cids whose last change has not been marked yet

vars == <<items, stamp, fast, known, op, now, writes, met, unmarked>>

Null == -1
Idle == [at |-> "idle"]

Value == 1..MaxWrites
FastItem == [value : Value, created : Nat, met : BOOLEAN]

Init ==
  /\ items = [c \in Cid |-> {}]
  /\ stamp = 0
  /\ fast = [n \in Node |-> [c \in Cid |-> {}]]
  /\ known = [p \in Request |-> Null]
  /\ op = [p \in Request |-> Idle]
  /\ now = 1
  /\ writes = 0
  /\ met = [p \in Request |-> FALSE]
  /\ unmarked = {}

At(p, l) == op[p].at = l
Do(p, o) == op' = [op EXCEPT ![p] = o]

Clock(p) == now + Ahead[Home[p]]

(* getLastWriteTimestamp(): read once by a request.                        *)
KnownStamp(p) == IF known[p] = Null THEN stamp ELSE known[p]

(* An item of a fast backend is used if a timestamp is there and the item  *)
(* was not created before it.                                              *)
UpToTheStamp(i, s) == s # 0 /\ i.created >= s

(* The value goes into the fast backend of p's node.                       *)
PutFast(p, c, v) ==
  fast' = [fast EXCEPT ![Home[p]][c] =
             {[value |-> v, created |-> Clock(p), met |-> met[p]]}]

-----------------------------------------------------------------------------
(* get()                                                                   *)

Get(p, c) ==
  /\ At(p, "idle")
  /\ known' = [known EXCEPT ![p] = KnownStamp(p)]
  /\ Do(p, [at |-> "fast", cid |-> c])
  /\ UNCHANGED <<items, stamp, fast, now, writes, met, unmarked>>

(* The fast backend has a good item, or the consistent one is asked.       *)
GetFast(p) ==
  LET good == {i \in fast[Home[p]][op[p].cid] : UpToTheStamp(i, known[p])} IN
  /\ At(p, "fast")
  /\ Do(p, IF good # {} THEN Idle ELSE [op[p] EXCEPT !.at = "consistent"])
  /\ UNCHANGED <<items, stamp, fast, known, now, writes, met, unmarked>>

GetConsistent(p) ==
  /\ At(p, "consistent")
  /\ \/ items[op[p].cid] = {} /\ Do(p, Idle)
     \/ \E v \in items[op[p].cid] :
          Do(p, [at |-> "store", cid |-> op[p].cid, value |-> v])
  /\ met' = [met EXCEPT ![p] = unmarked # {}]
  /\ UNCHANGED <<items, stamp, fast, known, now, writes, unmarked>>

(* The last step of get() and of set().                                    *)
StoreFast(p) ==
  /\ At(p, "store")
  /\ PutFast(p, op[p].cid, op[p].value)
  /\ Do(p, Idle)
  /\ UNCHANGED <<items, stamp, known, now, writes, met, unmarked>>

-----------------------------------------------------------------------------
(* set(), delete(), invalidate() and their relatives change the consistent *)
(* backend and mark the fast ones as outdated.                             *)

(* History: a change by p overlaps what others are doing, and they it.     *)
Overlap(p) ==
  met' = [q \in Request |-> IF q = p THEN unmarked # {} ELSE TRUE]

Set(p, c) ==
  /\ At(p, "idle") /\ writes < MaxWrites
  /\ writes' = writes + 1
  /\ items' = [items EXCEPT ![c] = {writes'}]
  /\ Do(p, [at |-> "mark", next |-> [at |-> "store", cid |-> c, value |-> writes']])
  /\ Overlap(p)
  /\ unmarked' = unmarked \union {c}
  /\ UNCHANGED <<stamp, fast, known, now>>

(* delete(), deleteMultiple(), invalidate(), invalidateMultiple() and      *)
(* invalidateTags(): the items are not to be found any more.               *)
Delete(p, C) ==
  /\ At(p, "idle")
  /\ items' = [c \in Cid |-> IF c \in C THEN {} ELSE items[c]]
  /\ Do(p, [at |-> "mark", next |-> Idle])
  /\ Overlap(p)
  /\ unmarked' = unmarked \union C
  /\ UNCHANGED <<stamp, fast, known, now, writes>>

(* deleteAll() and invalidateAll(): the timestamp goes as well.            *)
DeleteAll(p) ==
  /\ At(p, "idle")
  /\ items' = [c \in Cid |-> {}]
  /\ stamp' = 0
  /\ Do(p, [at |-> "mark", next |-> Idle])
  /\ Overlap(p)
  /\ unmarked' = Cid
  /\ UNCHANGED <<fast, known, now, writes>>

(* Mutation: without the millisecond that is added to the clock.           *)
SameMillisecond(p) == Clock(p)

(* Mutation: a full unit is added besides the rounding up.                 *)
MillisecondAfter(p) == Clock(p) + 2

NextMillisecond(p) == Clock(p) + 1

(* markAsOutdated(): the timestamp is the next millisecond, unless it is   *)
(* not later than the one the request knows.                               *)
MarkAsOutdated(p) ==
  LET s == NextMillisecond(p) IN
  /\ At(p, "mark")
  /\ IF s > KnownStamp(p)
     THEN /\ known' = [known EXCEPT ![p] = s]
          /\ Do(p, [at |-> "stamp", stamp |-> s, next |-> op[p].next])
          /\ UNCHANGED unmarked
     ELSE /\ known' = [known EXCEPT ![p] = KnownStamp(p)]
          /\ Do(p, op[p].next)
          /\ unmarked' = {}
  /\ UNCHANGED <<items, stamp, fast, now, writes, met>>

WriteStamp(p) ==
  /\ At(p, "stamp")
  /\ stamp' = op[p].stamp
  /\ Do(p, op[p].next)
  /\ unmarked' = {}
  /\ UNCHANGED <<items, fast, known, now, writes, met>>

-----------------------------------------------------------------------------

(* A fast backend may drop an item at any time.                            *)
Evict(n, c) ==
  /\ fast[n][c] # {}
  /\ fast' = [fast EXCEPT ![n][c] = {}]
  /\ UNCHANGED <<items, stamp, known, op, now, writes, met, unmarked>>

(* A request ends, or dies, and a new one takes its place.                 *)
NewRequest(p) ==
  /\ Crashes \/ At(p, "idle")
  /\ known' = [known EXCEPT ![p] = Null]
  /\ Do(p, Idle)
  /\ UNCHANGED <<items, stamp, fast, now, writes, met, unmarked>>

Tick ==
  /\ now < MaxTime
  /\ Delays \/ \A p \in Request : ~At(p, "stamp")
  /\ now' = now + 1
  /\ UNCHANGED <<items, stamp, fast, known, op, writes, met, unmarked>>

Next ==
  \/ \E p \in Request :
       \/ \E c \in Cid : Get(p, c) \/ Set(p, c)
       \/ \E C \in SUBSET Cid \ {{}} : Delete(p, C)
       \/ GetFast(p) \/ GetConsistent(p) \/ StoreFast(p)
       \/ DeleteAll(p) \/ MarkAsOutdated(p) \/ WriteStamp(p)
       \/ NewRequest(p)
  \/ \E n \in Node, c \in Cid : Evict(n, c)
  \/ Tick

Spec == Init /\ [][Next]_vars

-----------------------------------------------------------------------------

(* Types; and no timestamp is more than a millisecond ahead of all clocks, *)
(* which would keep the fast backends out of use until then.               *)
TypeOK ==
  /\ items \in [Cid -> SUBSET Value]
  /\ stamp \in Nat
  /\ \E n \in Node : stamp <= now + Ahead[n] + 1
  /\ \A n \in Node, c \in Cid : fast[n][c] \subseteq FastItem
  /\ known \in [Request -> Nat \union {Null}]
  /\ now \in 1..MaxTime
  /\ writes \in 0..MaxWrites
  /\ met \in [Request -> BOOLEAN]
  /\ unmarked \subseteq Cid

(* "Hence we can guarantee that the cache entries we return are all        *)
(* up-to-date" (ChainedFastBackend.php:30): what a new request accepts     *)
(* from a fast backend is what the consistent backend has, unless a write  *)
(* of the item is just going on.  It does not hold: README, section 5.     *)
UpToDate ==
  \A n \in Node, c \in Cid : \A i \in fast[n][c] :
    UpToTheStamp(i, stamp) /\ c \notin unmarked => items[c] = {i.value}

(* The guarantee the code gives: an item was stored in a fast backend by   *)
(* an operation that no write of another request overlapped, or it is      *)
(* discarded as soon as it has been changed.                               *)
UpToDateUnlessOverlapped ==
  \A n \in Node, c \in Cid : \A i \in fast[n][c] :
    UpToTheStamp(i, stamp) /\ c \notin unmarked /\ ~i.met => items[c] = {i.value}

(* The "last write timestamp" (ChainedFastBackend.php:31) is that of the   *)
(* last write: it does not go back, but may be lost.  With Delays it does  *)
(* not hold: README, section 5.                                            *)
StampAdvances == [][stamp' # 0 => stamp' >= stamp]_vars
=============================================================================

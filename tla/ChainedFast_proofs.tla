------------------------- MODULE ChainedFast_proofs -------------------------
(***************************************************************************)
(* Proofs about ChainedFast, for every number of requests, nodes and cache *)
(* ids and every bound.                                                    *)
(***************************************************************************)
EXTENDS ChainedFast, TLAPS

-----------------------------------------------------------------------------
(* What a request may be doing.                                            *)

StoreOp == [at : {"store"}, cid : Cid, value : Value]
After   == {Idle} \union StoreOp
GetOp   == [at : {"fast", "consistent"}, cid : Cid]
MarkOp  == [at : {"mark"}, next : After]
StampOp == [at : {"stamp"}, stamp : Nat, next : After]
CallOp  == After \union GetOp \union MarkOp \union StampOp

(* Types, and a timestamp that is going to be written is one millisecond   *)
(* ahead of the clock of its request at most.                              *)
TypeInv ==
  /\ TypeOK
  /\ fast \in [Node -> [Cid -> SUBSET FastItem]]
  /\ op \in [Request -> CallOp]
  /\ \A p \in Request : At(p, "stamp") => op[p].stamp <= Clock(p) + 1

LEMMA OpKinds ==
  ASSUME NEW o \in CallOp
  PROVE  /\ o.at = "store" => o \in StoreOp
         /\ o.at \in {"fast", "consistent"} => o \in GetOp
         /\ o.at = "mark" => o \in MarkOp
         /\ o.at = "stamp" => o \in StampOp
BY DEF CallOp, After, StoreOp, GetOp, MarkOp, StampOp, Idle

(* A request goes on with o; the others are where they were.               *)
LEMMA DoOp ==
  ASSUME TypeInv, NEW p \in Request, NEW o \in CallOp, Do(p, o)
  PROVE  /\ op' \in [Request -> CallOp]
         /\ op'[p] = o
         /\ \A q \in Request \ {p} : op'[q] = op[q]
BY DEF TypeInv, Do

LEMMA ClockType ==
  ASSUME TypeInv, NEW p \in Request
  PROVE  /\ Home[p] \in Node /\ Ahead[Home[p]] \in Nat
         /\ now \in Nat /\ now > 0 /\ Clock(p) \in Nat /\ stamp \in Nat
         /\ known[p] \in Nat \union {Null}
         /\ KnownStamp(p) \in Nat
BY ParametersAssumption DEF TypeInv, TypeOK, Clock, KnownStamp, Null

LEMMA PutFastItem ==
  ASSUME TypeInv, NEW p \in Request, NEW c \in Cid, NEW v \in Value, PutFast(p, c, v)
  PROVE  /\ fast' \in [Node -> [Cid -> SUBSET FastItem]]
         /\ fast'[Home[p]][c] = {[value |-> v, created |-> Clock(p), met |-> met[p]]}
         /\ \A n \in Node, d \in Cid :
              n # Home[p] \/ d # c => fast'[n][d] = fast[n][d]
<1> DEFINE i == [value |-> v, created |-> Clock(p), met |-> met[p]]
<1>1. i \in FastItem
  BY ClockType DEF FastItem, TypeInv, TypeOK
<1>2. fast' = [fast EXCEPT ![Home[p]] = [fast[Home[p]] EXCEPT ![c] = {i}]]
  BY DEF PutFast
<1>3. Home[p] \in Node /\ fast[Home[p]] \in [Cid -> SUBSET FastItem]
  BY ClockType DEF TypeInv
<1> QED
  BY <1>1, <1>2, <1>3 DEF TypeInv

-----------------------------------------------------------------------------
(* Type correctness.                                                       *)

LEMMA TypeInit == Init => TypeInv
<1> SUFFICES ASSUME Init PROVE TypeInv
  OBVIOUS
<1>1. PICK n \in Node : TRUE
  BY ParametersAssumption
<1>2. stamp <= now + Ahead[n] + 1
  BY ParametersAssumption DEF Init
<1>3. TypeOK
  BY <1>1, <1>2, ParametersAssumption DEF Init, TypeOK, Null
<1>4. op \in [Request -> CallOp] /\ \A p \in Request : ~At(p, "stamp")
  BY DEF Init, CallOp, After, Idle, At
<1> QED
  BY <1>3, <1>4 DEF Init, TypeInv

(* The types once the parts that an action can disturb are known.          *)
LEMMA TypeByParts ==
  ASSUME TypeInv, now' = now,
         items' \in [Cid -> SUBSET Value],
         \/ stamp' = stamp \/ stamp' = 0
         \/ \E p \in Request : At(p, "stamp") /\ stamp' = op[p].stamp,
         fast' \in [Node -> [Cid -> SUBSET FastItem]],
         known' \in [Request -> Nat \union {Null}],
         writes' \in 0..MaxWrites, met' \in [Request -> BOOLEAN],
         unmarked' \subseteq Cid,
         op' \in [Request -> CallOp],
         \A p \in Request : At(p, "stamp")' =>
           \/ At(p, "stamp") /\ op'[p] = op[p]
           \/ op'[p].stamp = Clock(p) + 1
  PROVE  TypeInv'
<1>1. \A p \in Request : At(p, "stamp") => op[p].stamp \in Nat
  BY OpKinds DEF TypeInv, StampOp, At
<1>2. stamp' \in Nat /\ \E n \in Node : stamp' <= now + Ahead[n] + 1
  <2>1. CASE stamp' = stamp
    BY <2>1 DEF TypeInv, TypeOK
  <2>2. CASE stamp' = 0
    <3>1. PICK n \in Node : TRUE
      BY ParametersAssumption
    <3> QED
      BY <2>2, <3>1, ParametersAssumption DEF TypeInv, TypeOK
  <2>3. ASSUME NEW p \in Request, At(p, "stamp"), stamp' = op[p].stamp
        PROVE  stamp' \in Nat /\ stamp' <= now + Ahead[Home[p]] + 1
    BY <1>1, <2>3 DEF TypeInv, Clock
  <2> QED
    BY <2>1, <2>2, <2>3, ClockType
<1>3. \A p \in Request : At(p, "stamp")' => op'[p].stamp <= Clock(p) + 1
  BY ClockType DEF TypeInv
<1> QED
  BY <1>2, <1>3 DEF TypeInv, TypeOK, Clock

(* The three ways a call of a request goes on.                             *)
LEMMA TypeGet ==
  ASSUME TypeInv, NEW p \in Request,
         \/ \E c \in Cid : Get(p, c)
         \/ GetFast(p) \/ GetConsistent(p) \/ StoreFast(p)
  PROVE  TypeInv'
<1>0. /\ items \in [Cid -> SUBSET Value] /\ known \in [Request -> Nat \union {Null}]
      /\ fast \in [Node -> [Cid -> SUBSET FastItem]] /\ writes \in 0..MaxWrites
      /\ met \in [Request -> BOOLEAN] /\ unmarked \subseteq Cid
      /\ op[p] \in CallOp
  BY DEF TypeInv, TypeOK
<1>1. ASSUME NEW c \in Cid, Get(p, c) PROVE TypeInv'
  <2> DEFINE o == [at |-> "fast", cid |-> c]
  <2>1. o \in CallOp
    BY DEF CallOp, GetOp
  <2>2. known' \in [Request -> Nat \union {Null}]
    BY <1>0, <1>1, ClockType DEF Get
  <2> QED
    BY <1>0, <1>1, <2>1, <2>2, DoOp, TypeByParts DEF Get, At
<1>2. CASE GetFast(p)
  <2>1. op[p] \in GetOp
    BY <1>0, <1>2, OpKinds DEF GetFast, At
  <2>2. [op[p] EXCEPT !.at = "consistent"] \in CallOp /\ Idle \in CallOp
    BY <2>1 DEF CallOp, GetOp, After
  <2>3. PICK o \in {Idle, [op[p] EXCEPT !.at = "consistent"]} : Do(p, o)
    BY <1>2 DEF GetFast
  <2>4. o.at # "stamp"
    BY <2>1, <2>3 DEF GetOp, Idle
  <2>5. o \in CallOp
    BY <2>2
  <2> QED
    BY <1>0, <1>2, <2>3, <2>4, <2>5, DoOp, TypeByParts DEF GetFast, At
<1>3. CASE GetConsistent(p)
  <2>1. op[p] \in GetOp
    BY <1>0, <1>3, OpKinds DEF GetConsistent, At
  <2>2. op[p].cid \in Cid /\ items[op[p].cid] \subseteq Value
    BY <1>0, <2>1 DEF GetOp
  <2>3. PICK o \in After : Do(p, o)
    <3>1. CASE Do(p, Idle)
      BY <3>1 DEF After
    <3>2. ASSUME NEW v \in items[op[p].cid],
                 Do(p, [at |-> "store", cid |-> op[p].cid, value |-> v])
          PROVE  \E o \in After : Do(p, o)
      <4>1. [at |-> "store", cid |-> op[p].cid, value |-> v] \in StoreOp
        BY <2>2 DEF StoreOp
      <4> QED
        BY <3>2, <4>1 DEF After
    <3> QED
      BY <1>3, <3>1, <3>2 DEF GetConsistent
  <2>4. o \in CallOp /\ o.at # "stamp"
    BY DEF CallOp, After, StoreOp, Idle
  <2>5. met' \in [Request -> BOOLEAN]
    BY <1>0, <1>3 DEF GetConsistent
  <2> QED
    BY <1>0, <1>3, <2>3, <2>4, <2>5, DoOp, TypeByParts DEF GetConsistent, At
<1>4. CASE StoreFast(p)
  <2>1. op[p] \in StoreOp
    BY <1>0, <1>4, OpKinds DEF StoreFast, At
  <2>2. op[p].cid \in Cid /\ op[p].value \in Value
    BY <2>1 DEF StoreOp
  <2>3. fast' \in [Node -> [Cid -> SUBSET FastItem]]
    BY <1>4, <2>2, PutFastItem DEF StoreFast
  <2>4. Idle \in CallOp /\ Idle.at # "stamp"
    BY DEF CallOp, After, Idle
  <2> QED
    BY <1>0, <1>4, <2>3, <2>4, DoOp, TypeByParts DEF StoreFast, At
<1> QED
  BY <1>1, <1>2, <1>3, <1>4

LEMMA TypeChange ==
  ASSUME TypeInv, NEW p \in Request,
         \/ \E c \in Cid : Set(p, c)
         \/ \E C \in SUBSET Cid : Delete(p, C)
         \/ DeleteAll(p)
  PROVE  TypeInv'
<1>0. /\ items \in [Cid -> SUBSET Value] /\ known \in [Request -> Nat \union {Null}]
      /\ fast \in [Node -> [Cid -> SUBSET FastItem]] /\ writes \in 0..MaxWrites
      /\ met \in [Request -> BOOLEAN] /\ unmarked \subseteq Cid
  BY DEF TypeInv, TypeOK
<1>1. Overlap(p) => met' \in [Request -> BOOLEAN]
  BY DEF Overlap
<1>2. ASSUME NEW c \in Cid, Set(p, c) PROVE TypeInv'
  <2> DEFINE o == [at |-> "mark",
                   next |-> [at |-> "store", cid |-> c, value |-> writes']]
  <2>1. writes' \in Value /\ writes' \in 0..MaxWrites
    BY <1>0, <1>2, ParametersAssumption DEF Set, Value
  <2>2. o \in CallOp /\ o.at # "stamp"
    BY <2>1 DEF CallOp, MarkOp, After, StoreOp
  <2>3. items' \in [Cid -> SUBSET Value]
    BY <1>0, <1>2, <2>1 DEF Set
  <2> QED
    BY <1>0, <1>1, <1>2, <2>1, <2>2, <2>3, DoOp, TypeByParts DEF Set, At
<1>3. [at |-> "mark", next |-> Idle] \in CallOp
  BY DEF CallOp, MarkOp, After
<1>4. ASSUME NEW C \in SUBSET Cid, Delete(p, C) PROVE TypeInv'
  <2>1. items' \in [Cid -> SUBSET Value]
    BY <1>0, <1>4 DEF Delete
  <2> QED
    BY <1>0, <1>1, <1>3, <1>4, <2>1, DoOp, TypeByParts DEF Delete, At
<1>5. CASE DeleteAll(p)
  <2>1. items' \in [Cid -> SUBSET Value]
    BY <1>0, <1>5 DEF DeleteAll
  <2> QED
    BY <1>0, <1>1, <1>3, <1>5, <2>1, DoOp, TypeByParts DEF DeleteAll, At
<1> QED
  BY <1>2, <1>4, <1>5

LEMMA TypeMark ==
  ASSUME TypeInv, NEW p \in Request,
         MarkAsOutdated(p) \/ WriteStamp(p) \/ NewRequest(p)
  PROVE  TypeInv'
<1>0. /\ items \in [Cid -> SUBSET Value] /\ known \in [Request -> Nat \union {Null}]
      /\ fast \in [Node -> [Cid -> SUBSET FastItem]] /\ writes \in 0..MaxWrites
      /\ met \in [Request -> BOOLEAN] /\ unmarked \subseteq Cid
      /\ op[p] \in CallOp
  BY DEF TypeInv, TypeOK
<1>1. \A o \in After : o \in CallOp /\ o.at # "stamp"
  BY DEF CallOp, After, StoreOp, Idle
<1>2. CASE MarkAsOutdated(p)
  <2> DEFINE s == NextMillisecond(p)
             o == [at |-> "stamp", stamp |-> s, next |-> op[p].next]
  <2>1. op[p].next \in After
    BY <1>0, <1>2, OpKinds DEF MarkAsOutdated, At, MarkOp
  <2>2. s \in Nat /\ s = Clock(p) + 1
    BY ClockType DEF NextMillisecond
  <2>3. o \in CallOp
    BY <2>1, <2>2 DEF CallOp, StampOp
  <2>4. KnownStamp(p) \in Nat
    BY ClockType
  <2>5. CASE s > KnownStamp(p)
    <3>1. /\ known' = [known EXCEPT ![p] = s] /\ Do(p, o)
          /\ UNCHANGED <<unmarked, items, stamp, fast, now, writes, met>>
      BY <1>2, <2>5 DEF MarkAsOutdated
    <3>2. known' \in [Request -> Nat \union {Null}]
      BY <1>0, <2>2, <3>1
    <3> QED
      BY <1>0, <2>2, <2>3, <3>1, <3>2, DoOp, TypeByParts DEF At
  <2>6. CASE ~ (s > KnownStamp(p))
    <3>1. known' \in [Request -> Nat \union {Null}]
      BY <1>0, <1>2, <2>4, <2>6 DEF MarkAsOutdated
    <3> QED
      BY <1>0, <1>1, <1>2, <2>1, <2>6, <3>1, DoOp, TypeByParts DEF MarkAsOutdated, At
  <2> QED
    BY <2>5, <2>6
<1>3. CASE WriteStamp(p)
  <2>1. op[p].next \in After
    BY <1>0, <1>3, OpKinds DEF WriteStamp, At, StampOp
  <2> QED
    BY <1>0, <1>1, <1>3, <2>1, DoOp, TypeByParts DEF WriteStamp, At
<1>4. CASE NewRequest(p)
  <2>1. Idle \in After
    BY DEF After
  <2>2. known' \in [Request -> Nat \union {Null}]
    BY <1>0, <1>4 DEF NewRequest
  <2> QED
    BY <1>0, <1>1, <1>4, <2>1, <2>2, DoOp, TypeByParts DEF NewRequest, At
<1> QED
  BY <1>2, <1>3, <1>4

LEMMA TypeStep == TypeInv /\ [Next]_vars => TypeInv'
<1> SUFFICES ASSUME TypeInv, [Next]_vars PROVE TypeInv'
  OBVIOUS
<1>1. ASSUME NEW n \in Node, NEW c \in Cid, Evict(n, c) PROVE TypeInv'
  <2>1. fast' \in [Node -> [Cid -> SUBSET FastItem]]
    <3>1. fast' = [fast EXCEPT ![n] = [fast[n] EXCEPT ![c] = {}]]
      BY <1>1 DEF Evict
    <3> QED
      BY <3>1 DEF TypeInv
  <2> QED
    BY <1>1, <2>1, TypeByParts DEF Evict, TypeInv, TypeOK, At
<1>2. CASE Tick
  <2>1. /\ now' = now + 1 /\ now' \in 1..MaxTime
        /\ UNCHANGED <<items, stamp, fast, known, op, writes, met, unmarked>>
    BY <1>2, ParametersAssumption DEF Tick, TypeInv, TypeOK
  <2>2. \E n \in Node : stamp <= now + 1 + Ahead[n] + 1
    <3>1. PICK n \in Node : stamp <= now + Ahead[n] + 1
      BY DEF TypeInv, TypeOK
    <3> QED
      BY <3>1, ParametersAssumption DEF TypeInv, TypeOK
  <2>3. \A p \in Request : At(p, "stamp") => op[p].stamp <= now + 1 + Ahead[Home[p]] + 1
    <3> SUFFICES ASSUME NEW p \in Request, At(p, "stamp")
                 PROVE  op[p].stamp <= now + 1 + Ahead[Home[p]] + 1
      OBVIOUS
    <3>1. op[p].stamp \in Nat /\ op[p].stamp <= now + Ahead[Home[p]] + 1
      BY OpKinds DEF TypeInv, StampOp, At, Clock
    <3> QED
      BY <3>1, ClockType
  <2> QED
    BY <2>1, <2>2, <2>3 DEF TypeInv, TypeOK, At, Clock
<1>3. CASE UNCHANGED vars
  BY <1>3 DEF vars, TypeInv, TypeOK, At, Clock
<1> QED
  BY <1>1, <1>2, <1>3, TypeGet, TypeChange, TypeMark DEF Next

(* No timestamp is further ahead than a millisecond, whatever the clocks   *)
(* of the nodes and however long requests wait before they write theirs;   *)
(* and all else keeps its type.                                            *)
THEOREM TypeCorrect == Spec => []TypeOK
<1>1. TypeInv => TypeOK
  BY DEF TypeInv
<1> QED
  BY TypeInit, TypeStep, <1>1, PTL DEF Spec

-----------------------------------------------------------------------------
(* The guarantee of the code, with clocks in step and no time between the  *)
(* reading of the clock and the writing of the timestamp.                  *)

ClocksInStep == \A m, n \in Node : Ahead[m] = Ahead[n]

(* Timestamps: a timestamp that is on its way is one millisecond ahead of  *)
(* all clocks, none is further ahead, and a request that knows of one so   *)
(* far ahead knows the one that is there, unless that has been deleted.    *)
StampsOK ==
  \A p \in Request :
    /\ stamp <= Clock(p) + 1
    /\ known[p] <= Clock(p) + 1
    /\ At(p, "stamp") => op[p].stamp = Clock(p) + 1
    /\ known[p] = Clock(p) + 1 /\ ~At(p, "stamp") => stamp \in {0, Clock(p) + 1}

(* No item of a fast backend was created later than now.                   *)
CreatedOK ==
  \A n \in Node, c \in Cid : \A i \in fast[n][c] : i.created <= now + Ahead[n]

(* A value that p is going to put in its fast backend is the current one,  *)
(* unless another request's write has overlapped.                          *)
Current(p, o) == o.at = "store" /\ ~met[p] => items[o.cid] = {o.value}

PendingOK ==
  \A p \in Request :
    /\ Current(p, op[p])
    /\ op[p].at \in {"mark", "stamp"} => Current(p, op[p].next)

(* The consistent backend has one value for a cache id at most.            *)
SingleValues == \A c \in Cid : \A v, w \in items[c] : v = w

GuaranteeInv ==
  /\ TypeInv /\ StampsOK /\ CreatedOK /\ PendingOK /\ SingleValues
  /\ UpToDateUnlessOverlapped

LEMMA SameClock ==
  ASSUME TypeInv, ClocksInStep, NEW p \in Request
  PROVE  /\ \A q \in Request : Clock(q) = Clock(p)
         /\ \A n \in Node : now + Ahead[n] = Clock(p)
BY ParametersAssumption DEF ClocksInStep, Clock

LEMMA GuaranteeInit ==
  ASSUME Init PROVE GuaranteeInv
<1>1. TypeInv
  BY TypeInit
<1>2. StampsOK
  <2> SUFFICES ASSUME NEW p \in Request
               PROVE  /\ stamp <= Clock(p) + 1 /\ known[p] <= Clock(p) + 1
                      /\ known[p] # Clock(p) + 1 /\ ~At(p, "stamp")
    BY DEF StampsOK
  <2>1. Clock(p) \in Nat
    BY <1>1, ClockType
  <2> QED
    BY <2>1 DEF Init, Null, At, Idle
<1>3. CreatedOK /\ UpToDateUnlessOverlapped /\ SingleValues
  BY DEF Init, CreatedOK, UpToDateUnlessOverlapped, SingleValues
<1>4. PendingOK
  BY DEF Init, PendingOK, Current, Idle
<1> QED
  BY <1>1, <1>2, <1>3, <1>4 DEF GuaranteeInv

(* get(), but for its last step: a value that is there is current.         *)
LEMMA GuaranteeRead ==
  ASSUME GuaranteeInv, NEW p \in Request,
         (\E c \in Cid : Get(p, c)) \/ GetFast(p) \/ GetConsistent(p)
  PROVE  GuaranteeInv'
<1> USE DEF GuaranteeInv
<1>1. TypeInv'
  BY TypeGet
<1>2. /\ UNCHANGED <<items, stamp, fast, now, unmarked>>
      /\ ~At(p, "stamp")
      /\ \A q \in Request : Clock(q)' = Clock(q)
      /\ \A q \in Request \ {p} : known'[q] = known[q] /\ met'[q] = met[q]
  BY DEF Get, GetFast, GetConsistent, At, Clock, TypeInv, TypeOK
<1>3. /\ \A q \in Request \ {p} : op'[q] = op[q]
      /\ op'[p].at \in {"idle", "fast", "consistent", "store"}
      /\ op'[p].at = "store" => GetConsistent(p)
  <2>1. op[p] \in CallOp /\ op \in [Request -> CallOp]
    BY DEF TypeInv
  <2>2. op[p].at = "fast" => [op[p] EXCEPT !.at = "consistent"].at = "consistent"
    BY <2>1, OpKinds DEF GetOp
  <2>3. ASSUME NEW c \in Cid, Get(p, c)
        PROVE  op'[p].at = "fast" /\ \A q \in Request \ {p} : op'[q] = op[q]
    BY <2>1, <2>3 DEF Get, Do
  <2>4. ASSUME GetFast(p)
        PROVE  /\ op'[p].at \in {"idle", "consistent"}
               /\ \A q \in Request \ {p} : op'[q] = op[q]
    BY <2>1, <2>2, <2>4 DEF GetFast, Do, At, Idle
  <2>5. ASSUME GetConsistent(p)
        PROVE  /\ op'[p].at \in {"idle", "store"}
               /\ \A q \in Request \ {p} : op'[q] = op[q]
    BY <2>1, <2>5 DEF GetConsistent, Do, Idle
  <2> QED
    BY <2>3, <2>4, <2>5
<1>4. known'[p] = known[p] \/ known'[p] = KnownStamp(p)
  BY DEF Get, GetFast, GetConsistent, TypeInv, TypeOK
<1>5. StampsOK'
  <2>1. \A q \in Request \ {p} : At(q, "stamp")' = At(q, "stamp")
    BY <1>3 DEF At
  <2>2. ~At(p, "stamp")'
    BY <1>3 DEF At
  <2>3. KnownStamp(p) \in {known[p], stamp}
    BY DEF KnownStamp
  <2>4. /\ known'[p] <= Clock(p) + 1
        /\ known'[p] = Clock(p) + 1 => stamp \in {0, Clock(p) + 1}
    BY <1>2, <1>4, <2>3 DEF StampsOK
  <2> QED
    BY <1>2, <1>3, <2>1, <2>2, <2>4 DEF StampsOK
<1>6. op'[p].at = "store" /\ ~met'[p] => items'[op'[p].cid] = {op'[p].value}
  <2>1. CASE op'[p].at = "store"
    <3>1. GetConsistent(p) /\ op[p] \in GetOp
      BY <1>3, <2>1, OpKinds DEF GetConsistent, At, TypeInv
    <3>2. PICK v \in items[op[p].cid] :
            op'[p] = [at |-> "store", cid |-> op[p].cid, value |-> v]
      BY <2>1, <3>1 DEF GetConsistent, Do, Idle, TypeInv
    <3>3. items[op[p].cid] = {v}
      BY <3>1, <3>2 DEF GetOp, SingleValues
    <3> QED
      BY <1>2, <3>2, <3>3
  <2> QED
    BY <2>1
<1>7. PendingOK'
  BY <1>2, <1>3, <1>6 DEF PendingOK, Current
<1>8. CreatedOK' /\ SingleValues' /\ UpToDateUnlessOverlapped'
  BY <1>2 DEF CreatedOK, SingleValues, UpToDateUnlessOverlapped, UpToTheStamp
<1> QED
  BY <1>1, <1>5, <1>7, <1>8

(* The last step of get() and set() puts a value into the fast backend     *)
(* that is current still, unless a write has overlapped.                   *)
LEMMA GuaranteeStore ==
  ASSUME GuaranteeInv, NEW p \in Request, StoreFast(p)
  PROVE  GuaranteeInv'
<1> USE DEF GuaranteeInv
<1> DEFINE c == op[p].cid
           v == op[p].value
<1>1. TypeInv'
  BY TypeGet
<1>2. /\ UNCHANGED <<items, stamp, now, unmarked, known, met>>
      /\ At(p, "store") /\ op[p] \in StoreOp /\ c \in Cid /\ v \in Value
      /\ op'[p] = Idle
      /\ \A q \in Request \ {p} : op'[q] = op[q]
  BY OpKinds DEF StoreFast, At, TypeInv, StoreOp, Do
<1>3. /\ fast'[Home[p]][c] = {[value |-> v, created |-> Clock(p), met |-> met[p]]}
      /\ \A n \in Node, d \in Cid :
              n # Home[p] \/ d # c => fast'[n][d] = fast[n][d]
  BY <1>2, PutFastItem DEF StoreFast
<1>4. StampsOK'
  BY <1>2 DEF StampsOK, At, Idle, Clock
<1>5. PendingOK' /\ SingleValues'
  BY <1>2 DEF PendingOK, Current, Idle, SingleValues
<1>6. CreatedOK'
  <2> SUFFICES ASSUME NEW n \in Node, NEW d \in Cid, NEW i \in fast'[n][d]
               PROVE  i.created <= now + Ahead[n]
    BY <1>2 DEF CreatedOK
  <2>1. CASE n = Home[p] /\ d = c
    BY <1>3, <2>1, ClockType DEF Clock
  <2>2. CASE n # Home[p] \/ d # c
    BY <1>3, <2>2 DEF CreatedOK
  <2> QED
    BY <2>1, <2>2
<1>7. UpToDateUnlessOverlapped'
  <2> SUFFICES ASSUME NEW n \in Node, NEW d \in Cid, NEW i \in fast'[n][d],
                      UpToTheStamp(i, stamp), d \notin unmarked, ~i.met
               PROVE  items[d] = {i.value}
    BY <1>2 DEF UpToDateUnlessOverlapped, UpToTheStamp
  <2>1. CASE n = Home[p] /\ d = c
    BY <1>2, <1>3, <2>1 DEF PendingOK, Current, At
  <2>2. CASE n # Home[p] \/ d # c
    BY <1>3, <2>2 DEF UpToDateUnlessOverlapped
  <2> QED
    BY <2>1, <2>2
<1> QED
  BY <1>1, <1>4, <1>5, <1>6, <1>7

(* A write: the items it changes are unmarked until a timestamp outdates   *)
(* them, and whatever others were doing has been overlapped.               *)
LEMMA GuaranteeChange ==
  ASSUME GuaranteeInv, NEW p \in Request,
         \/ \E c \in Cid : Set(p, c)
         \/ \E C \in SUBSET Cid : Delete(p, C)
         \/ DeleteAll(p)
  PROVE  GuaranteeInv'
<1> USE DEF GuaranteeInv
<1>1. TypeInv'
  BY TypeChange
<1>2. /\ UNCHANGED <<fast, known, now>>
      /\ stamp' = stamp \/ stamp' = 0
      /\ At(p, "idle") /\ Overlap(p)
      /\ \A q \in Request \ {p} : met'[q] = TRUE
      /\ \A q \in Request : Clock(q)' = Clock(q)
  BY DEF Set, Delete, DeleteAll, Overlap, Clock
<1>3. /\ op'[p].at = "mark"
      /\ op'[p].next = Idle \/ /\ op'[p].next.at = "store"
                               /\ items'[op'[p].next.cid] = {op'[p].next.value}
      /\ \A q \in Request \ {p} : op'[q] = op[q]
  <2>1. op \in [Request -> CallOp] /\ items \in [Cid -> SUBSET Value]
    BY DEF TypeInv, TypeOK
  <2>2. ASSUME NEW c \in Cid, Set(p, c)
        PROVE  /\ op'[p].at = "mark"
               /\ op'[p].next.at = "store"
               /\ items'[op'[p].next.cid] = {op'[p].next.value}
               /\ \A q \in Request \ {p} : op'[q] = op[q]
    <3> DEFINE s == [at |-> "store", cid |-> c, value |-> writes']
    <3>1. s.at = "store" /\ s.cid = c /\ s.value = writes'
      OBVIOUS
    <3>2. op' = [op EXCEPT ![p] = [at |-> "mark", next |-> s]]
      BY <2>2 DEF Set, Do
    <3> HIDE DEF s
    <3>3. /\ op'[p].at = "mark" /\ op'[p].next = s
          /\ \A q \in Request \ {p} : op'[q] = op[q]
      BY <2>1, <3>2
    <3>4. items'[c] = {writes'}
      BY <2>1, <2>2 DEF Set
    <3> QED
      BY <3>1, <3>3, <3>4
  <2>3. ASSUME (\E C \in SUBSET Cid : Delete(p, C)) \/ DeleteAll(p)
        PROVE  /\ op'[p].at = "mark" /\ op'[p].next = Idle
               /\ \A q \in Request \ {p} : op'[q] = op[q]
    BY <2>1, <2>3 DEF Delete, DeleteAll, Do
  <2> QED
    BY <2>2, <2>3
<1>4. \A c \in Cid : c \notin unmarked' => items'[c] = items[c] /\ c \notin unmarked
  <2>1. items \in [Cid -> SUBSET Value] /\ unmarked \subseteq Cid
    BY DEF TypeInv, TypeOK
  <2>2. ASSUME NEW d \in Cid, Set(p, d)
        PROVE  \A c \in Cid : c \notin unmarked' => items'[c] = items[c] /\ c \notin unmarked
    BY <2>1, <2>2 DEF Set
  <2>3. ASSUME NEW C \in SUBSET Cid, Delete(p, C)
        PROVE  \A c \in Cid : c \notin unmarked' => items'[c] = items[c] /\ c \notin unmarked
    BY <2>1, <2>3 DEF Delete
  <2>4. ASSUME DeleteAll(p)
        PROVE  \A c \in Cid : c \notin unmarked' => items'[c] = items[c] /\ c \notin unmarked
    BY <2>1, <2>4 DEF DeleteAll
  <2> QED
    BY <2>2, <2>3, <2>4
<1>5. SingleValues'
  <2>1. \A c \in Cid : items'[c] = items[c] \/ items'[c] = {} \/ items'[c] = {writes'}
    BY DEF Set, Delete, DeleteAll, TypeInv, TypeOK
  <2> QED
    BY <2>1 DEF SingleValues
<1>6. StampsOK'
  <2>1. \A q \in Request : At(q, "stamp")' => At(q, "stamp") /\ op'[q] = op[q]
    BY <1>3 DEF At
  <2>2. \A q \in Request : ~At(q, "stamp")' => ~At(q, "stamp")
    BY <1>2, <1>3 DEF At
  <2>3. \A q \in Request : Clock(q) \in Nat
    BY ClockType
  <2> QED
    BY <1>2, <2>1, <2>2, <2>3 DEF StampsOK
<1>7. PendingOK'
  BY <1>2, <1>3 DEF PendingOK, Current, Idle
<1>8. CreatedOK'
  BY <1>2 DEF CreatedOK
<1>9. UpToDateUnlessOverlapped'
  BY <1>2, <1>4 DEF UpToDateUnlessOverlapped, UpToTheStamp
<1> QED
  BY <1>1, <1>5, <1>6, <1>7, <1>8, <1>9

(* What a request does next is over with marking.                          *)
LEMMA AfterMark ==
  ASSUME TypeInv, NEW p \in Request, op[p].at \in {"mark", "stamp"}
  PROVE  op[p].next \in After /\ op[p].next.at \in {"idle", "store"}
BY OpKinds DEF TypeInv, MarkOp, StampOp, After, StoreOp, Idle

(* With a timestamp of the next millisecond no item of a fast backend is   *)
(* up to it.                                                               *)
LEMMA NothingUpTo ==
  ASSUME TypeInv, CreatedOK, ClocksInStep, NEW p \in Request,
         NEW n \in Node, NEW c \in Cid, NEW i \in fast[n][c]
  PROVE  ~UpToTheStamp(i, Clock(p) + 1)
<1>1. i.created \in Nat /\ Clock(p) \in Nat
  BY ClockType DEF TypeInv, FastItem
<1>2. i.created <= Clock(p)
  BY SameClock DEF CreatedOK
<1> QED
  BY <1>1, <1>2 DEF UpToTheStamp

(* Marking as outdated: the timestamp is about to be written, or there is  *)
(* one of this millisecond, or it was deleted meanwhile.                   *)
LEMMA GuaranteeMark ==
  ASSUME GuaranteeInv, ClocksInStep, NEW p \in Request, MarkAsOutdated(p)
  PROVE  GuaranteeInv'
<1> USE DEF GuaranteeInv
<1> DEFINE s == Clock(p) + 1
           o == [at |-> "stamp", stamp |-> s, next |-> op[p].next]
<1>1. TypeInv'
  BY TypeMark
<1>2. /\ UNCHANGED <<items, stamp, fast, now, writes, met>>
      /\ op[p].at = "mark"
      /\ \A q \in Request : Clock(q)' = Clock(q) /\ Clock(q) = Clock(p)
      /\ s \in Nat /\ KnownStamp(p) \in Nat /\ stamp \in Nat
      /\ op[p].next \in After /\ op[p].next.at \in {"idle", "store"}
      /\ op \in [Request -> CallOp] /\ known \in [Request -> Nat \union {Null}]
  BY SameClock, ClockType, AfterMark DEF MarkAsOutdated, At, Clock, TypeInv, TypeOK
<1>3. CreatedOK' /\ SingleValues'
  BY <1>2 DEF CreatedOK, SingleValues
<1>4. CASE s > KnownStamp(p)
  <2>1. known' = [known EXCEPT ![p] = s] /\ Do(p, o) /\ UNCHANGED unmarked
    BY <1>4 DEF MarkAsOutdated, NextMillisecond
  <2>2. /\ op'[p] = o /\ \A q \in Request \ {p} : op'[q] = op[q]
        /\ known'[p] = s /\ \A q \in Request \ {p} : known'[q] = known[q]
    BY <1>2, <2>1 DEF Do
  <2>3. op'[p].at = "stamp" /\ op'[p].stamp = s /\ op'[p].next = op[p].next
    BY <2>2
  <2>4. StampsOK'
    BY <1>2, <2>2, <2>3 DEF StampsOK, At
  <2>5. PendingOK'
    <3>1. UNCHANGED <<items, met>> /\ op[p].at = "mark"
      BY <1>2
    <3> HIDE DEF o
    <3> QED
      BY <2>2, <2>3, <3>1 DEF PendingOK, Current
  <2>6. UpToDateUnlessOverlapped'
    BY <1>2, <2>1 DEF UpToDateUnlessOverlapped, UpToTheStamp
  <2> QED
    BY <1>1, <1>3, <2>4, <2>5, <2>6
<1>5. CASE ~(s > KnownStamp(p))
  <2>1. known' = [known EXCEPT ![p] = KnownStamp(p)] /\ Do(p, op[p].next)
    BY <1>5 DEF MarkAsOutdated, NextMillisecond
  <2>2. /\ op'[p] = op[p].next /\ \A q \in Request \ {p} : op'[q] = op[q]
        /\ known'[p] = KnownStamp(p) /\ \A q \in Request \ {p} : known'[q] = known[q]
    BY <1>2, <2>1 DEF Do
  <2>3. KnownStamp(p) = s /\ stamp \in {0, s}
    BY <1>2, <1>5 DEF KnownStamp, StampsOK, At
  <2>4. StampsOK'
    BY <1>2, <2>2, <2>3 DEF StampsOK, At
  <2>5. PendingOK'
    <3>1. /\ UNCHANGED <<items, met>> /\ op[p].at = "mark"
          /\ op[p].next.at \in {"idle", "store"}
      BY <1>2
    <3> QED
      BY <2>2, <3>1 DEF PendingOK, Current
  <2>6. UpToDateUnlessOverlapped'
    BY <1>2, <2>3, NothingUpTo DEF UpToDateUnlessOverlapped, UpToTheStamp
  <2> QED
    BY <1>1, <1>3, <2>4, <2>5, <2>6
<1> QED
  BY <1>4, <1>5

(* Writing the timestamp outdates whatever the fast backends have.         *)
LEMMA GuaranteeStamp ==
  ASSUME GuaranteeInv, ClocksInStep, NEW p \in Request, WriteStamp(p)
  PROVE  GuaranteeInv' /\ stamp' = Clock(p) + 1
<1> USE DEF GuaranteeInv
<1>1. TypeInv'
  BY TypeMark
<1>2. /\ UNCHANGED <<items, fast, known, now, writes, met>>
      /\ op[p].at = "stamp" /\ stamp' = Clock(p) + 1
      /\ \A q \in Request : Clock(q)' = Clock(q) /\ Clock(q) = Clock(p)
      /\ Clock(p) \in Nat
      /\ op[p].next.at \in {"idle", "store"}
      /\ op'[p] = op[p].next /\ \A q \in Request \ {p} : op'[q] = op[q]
  BY SameClock, ClockType, AfterMark
  DEF WriteStamp, At, Clock, Do, TypeInv, TypeOK, StampsOK
<1>3. CreatedOK' /\ SingleValues'
  BY <1>2 DEF CreatedOK, SingleValues
<1>4. StampsOK'
  BY <1>2 DEF StampsOK, At
<1>5. PendingOK'
  BY <1>2, ZenonT(40) DEF PendingOK, Current
<1>6. UpToDateUnlessOverlapped'
  BY <1>2, NothingUpTo DEF UpToDateUnlessOverlapped, UpToTheStamp
<1> QED
  BY <1>1, <1>2, <1>3, <1>4, <1>5, <1>6

LEMMA GuaranteeNewRequest ==
  ASSUME GuaranteeInv, NEW p \in Request, NewRequest(p)
  PROVE  GuaranteeInv'
<1> USE DEF GuaranteeInv
<1>1. TypeInv'
  BY TypeMark
<1>2. /\ UNCHANGED <<items, stamp, fast, now, writes, met, unmarked>>
      /\ op'[p] = Idle /\ \A q \in Request \ {p} : op'[q] = op[q]
      /\ known'[p] = Null /\ \A q \in Request \ {p} : known'[q] = known[q]
      /\ \A q \in Request : Clock(q)' = Clock(q) /\ Clock(q) \in Nat
  BY ClockType DEF NewRequest, Do, Clock, TypeInv, TypeOK
<1>3. CreatedOK' /\ SingleValues' /\ UpToDateUnlessOverlapped'
  BY <1>2 DEF CreatedOK, SingleValues, UpToDateUnlessOverlapped, UpToTheStamp
<1>4. StampsOK'
  BY <1>2 DEF StampsOK, At, Idle, Null
<1>5. PendingOK'
  BY <1>2 DEF PendingOK, Current, Idle
<1> QED
  BY <1>1, <1>3, <1>4, <1>5

LEMMA GuaranteeEvict ==
  ASSUME GuaranteeInv, NEW n \in Node, NEW c \in Cid, Evict(n, c)
  PROVE  GuaranteeInv'
<1> USE DEF GuaranteeInv
<1>1. TypeInv'
  BY TypeStep DEF Next
<1>2. /\ UNCHANGED <<items, stamp, known, op, now, writes, met, unmarked>>
      /\ \A m \in Node, d \in Cid : fast'[m][d] \subseteq fast[m][d]
  BY DEF Evict, TypeInv
<1>3. CreatedOK' /\ SingleValues' /\ UpToDateUnlessOverlapped'
  BY <1>2 DEF CreatedOK, SingleValues, UpToDateUnlessOverlapped, UpToTheStamp
<1>4. StampsOK' /\ PendingOK'
  BY <1>2 DEF StampsOK, PendingOK, At, Clock, Current
<1> QED
  BY <1>1, <1>3, <1>4

(* When time passes no timestamp is on its way, and none is still ahead.   *)
LEMMA GuaranteeTick ==
  ASSUME GuaranteeInv, ~Delays, Tick
  PROVE  GuaranteeInv'
<1> USE DEF GuaranteeInv
<1>1. TypeInv'
  BY TypeStep DEF Next
<1>2. /\ UNCHANGED <<items, stamp, fast, known, op, writes, met, unmarked>>
      /\ \A q \in Request : /\ Clock(q)' = Clock(q) + 1 /\ Clock(q) \in Nat
                            /\ ~At(q, "stamp") /\ known[q] \in Nat \union {Null}
      /\ stamp \in Nat /\ now \in Nat /\ now' = now + 1
  BY ClockType, ParametersAssumption DEF Tick, Clock, TypeInv, TypeOK
<1>3. CreatedOK'
  <2>1. \A m \in Node, d \in Cid : \A i \in fast[m][d] :
          i.created \in Nat /\ Ahead[m] \in Nat
    BY ParametersAssumption DEF TypeInv, FastItem
  <2> QED
    BY <1>2, <2>1 DEF CreatedOK
<1>4. SingleValues' /\ UpToDateUnlessOverlapped' /\ PendingOK'
  BY <1>2 DEF SingleValues, UpToDateUnlessOverlapped, UpToTheStamp, PendingOK, Current
<1>5. StampsOK'
  BY <1>2 DEF StampsOK, At, Null
<1> QED
  BY <1>1, <1>3, <1>4, <1>5

LEMMA GuaranteeStep ==
  ASSUME GuaranteeInv, ClocksInStep, ~Delays, [Next]_vars
  PROVE  GuaranteeInv'
<1>1. CASE UNCHANGED vars
  <2>1. TypeInv'
    BY <1>1, TypeStep DEF GuaranteeInv
  <2> QED
    BY <1>1, <2>1 DEF vars, GuaranteeInv, StampsOK, CreatedOK, PendingOK,
       SingleValues, UpToDateUnlessOverlapped, UpToTheStamp, At, Clock, Current
<1>2. CASE Next
  BY <1>2, GuaranteeRead, GuaranteeStore, GuaranteeChange, GuaranteeMark,
     GuaranteeStamp, GuaranteeNewRequest, GuaranteeEvict, GuaranteeTick DEF Next
<1> QED
  BY <1>1, <1>2

(* An item that a new request accepts from a fast backend is what the      *)
(* consistent backend has, unless its change is just going on or a write   *)
(* overlapped the operation that stored it.  A request that finds the      *)
(* timestamp it knows good enough and does not write one outdates nothing, *)
(* but there is nothing left to outdate then.                              *)
THEOREM Guarantee ==
  ASSUME ClocksInStep, ~Delays
  PROVE  Spec => []UpToDateUnlessOverlapped
<1>1. Init => GuaranteeInv
  BY GuaranteeInit
<1>2. GuaranteeInv /\ [Next]_vars => GuaranteeInv'
  BY GuaranteeStep
<1>3. GuaranteeInv => UpToDateUnlessOverlapped
  BY DEF GuaranteeInv
<1> QED
  BY <1>1, <1>2, <1>3, PTL DEF Spec

(* The last write timestamp never goes back.                               *)
THEOREM StampsAdvance ==
  ASSUME ClocksInStep, ~Delays
  PROVE  Spec => StampAdvances
<1>1. Init => GuaranteeInv
  BY GuaranteeInit
<1>2. GuaranteeInv /\ [Next]_vars => GuaranteeInv'
  BY GuaranteeStep
<1>3. GuaranteeInv /\ [Next]_vars => [stamp' # 0 => stamp' >= stamp]_vars
  <2> SUFFICES ASSUME GuaranteeInv, Next, stamp' # 0
               PROVE  stamp' >= stamp
    OBVIOUS
  <2>0. stamp \in Nat
    BY DEF GuaranteeInv, TypeInv, TypeOK
  <2>1. ASSUME NEW p \in Request, WriteStamp(p) PROVE stamp' >= stamp
    <3>1. stamp' = Clock(p) + 1 /\ stamp <= Clock(p) + 1 /\ Clock(p) \in Nat
      BY <2>1, GuaranteeStamp, ClockType DEF GuaranteeInv, StampsOK
    <3> QED
      BY <2>0, <3>1
  <2>2. CASE \A p \in Request : ~WriteStamp(p)
    <3>1. UNCHANGED stamp
      BY <2>2 DEF Next, Get, GetFast, GetConsistent, StoreFast, Set, Delete,
         DeleteAll, MarkAsOutdated, NewRequest, Evict, Tick
    <3> QED
      BY <2>0, <3>1
  <2> QED
    BY <2>1, <2>2
<1> QED
  BY <1>1, <1>2, <1>3, PTL DEF Spec, StampAdvances
=============================================================================

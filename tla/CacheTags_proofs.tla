-------------------------- MODULE CacheTags_proofs --------------------------
(***************************************************************************)
(* Proofs about CacheTags, for every number of requests, tags, cache ids   *)
(* and invalidations.                                                      *)
(***************************************************************************)
EXTENDS CacheTags, FiniteSetTheorems, WellFoundedInduction, TLAPS

-----------------------------------------------------------------------------
(* Sums over a set of tags.  The folds of the community modules take an    *)
(* element out of the set that is left, until there is none.               *)

Some(s) == CHOOSE x \in s : TRUE
Less(s) == s \ {Some(s)}

(* f[s] is the sum of v over s, for the subsets s of T.                    *)
IsSum(f, v, T) ==
  f = [s \in SUBSET T |-> IF s = {} THEN 0 ELSE v[Some(s)] + f[Less(s)]]

LEMMA SomeIsMember == \A s : s # {} => Some(s) \in s
BY DEF Some

LEMMA NaturalInduction ==
  ASSUME NEW X, 0 \in X, \A n \in Nat : n \in X => n + 1 \in X
  PROVE  \A n \in Nat : n \in X
<1> SUFFICES ASSUME Nat \ X # {} PROVE FALSE
  OBVIOUS
<1>1. \E m \in Nat \ X : \A n \in Nat \ X : ~ (<<n, m>> \in OpToRel(<, Nat))
  BY NatLessThanWellFounded, WFMin
<1>2. PICK m \in Nat \ X : \A n \in Nat \ X : ~ (<<n, m>> \in OpToRel(<, Nat))
  BY <1>1
<1>3. \A n \in Nat \ X : ~ (n < m)
  BY <1>2, Zenon DEF OpToRel
<1>4. m # 0 /\ m - 1 \in Nat /\ m - 1 < m /\ (m - 1) + 1 = m
  OBVIOUS
<1>5. m - 1 \in X
  BY <1>3, <1>4
<1> QED
  BY <1>4, <1>5

(* Induction over the way a fold takes a finite set apart.                 *)
LEMMA FoldInduction ==
  ASSUME NEW T, IsFiniteSet(T), NEW X, {} \in X,
         \A s \in SUBSET T : s # {} /\ Less(s) \in X => s \in X
  PROVE  T \in X
<1> SUFFICES ASSUME T \notin X PROVE FALSE
  OBVIOUS
<1> DEFINE R == StrictSubsetOrdering(T)
           U == {s \in SUBSET T : s \notin X}
<1>1. IsWellFoundedOn(R, SUBSET T)
  BY FS_StrictSubsetOrderingWellFounded, FS_FiniteSubsetsOfFinite
<1>2. U \subseteq SUBSET T /\ U # {}
  OBVIOUS
<1>3. \E s \in U : \A r \in U : ~ (<<r, s>> \in R)
  <2> HIDE DEF R, U
  <2> QED
    BY <1>1, <1>2, WFMin
<1>4. PICK s \in U : \A r \in U : ~ (<<r, s>> \in R)
  BY <1>3
<1>5. s # {} /\ Less(s) \in SUBSET T /\ Less(s) \subseteq s /\ Less(s) # s
  BY SomeIsMember DEF Less
<1>6. <<Less(s), s>> \in R
  BY <1>4, <1>5 DEF StrictSubsetOrdering
<1>7. Less(s) \in X
  BY <1>4, <1>5, <1>6
<1> QED
  BY <1>4, <1>5, <1>7

(* There is such a function, by induction over the size of the subsets.    *)
LEMMA SumExists ==
  ASSUME NEW T, IsFiniteSet(T), NEW v \in [T -> Int]
  PROVE  \E f : IsSum(f, v, T)
<1> DEFINE Upto(n) == {s \in SUBSET T : Cardinality(s) <= n}
           Sums(n) == {f \in [Upto(n) -> Int] : \A s \in Upto(n) :
                         f[s] = IF s = {} THEN 0 ELSE v[Some(s)] + f[Less(s)]}
           X == {n \in Nat : Sums(n) # {}}
<1>1. \A s \in SUBSET T : /\ IsFiniteSet(s) /\ Cardinality(s) \in Nat
                          /\ Cardinality(s) <= Cardinality(T)
                          /\ Cardinality(s) = 0 <=> s = {}
  BY FS_Subset, FS_CardinalityType, FS_EmptySet
<1>2. \A s \in SUBSET T : s # {} =>
        /\ Some(s) \in T /\ Less(s) \in SUBSET T
        /\ Cardinality(Less(s)) = Cardinality(s) - 1
  BY <1>1, SomeIsMember, FS_RemoveElement DEF Less
<1>3. 0 \in X
  <2>1. Upto(0) = {{}}
    BY <1>1
  <2>2. [s \in Upto(0) |-> 0] \in Sums(0)
    BY <2>1
  <2> QED
    BY <2>2
<1>4. ASSUME NEW n \in Nat, n \in X PROVE n + 1 \in X
  <2>1. PICK f \in Sums(n) : TRUE
    BY <1>4
  <2> DEFINE g == [s \in Upto(n + 1) |-> IF s = {} THEN 0 ELSE v[Some(s)] + f[Less(s)]]
  <2>2. \A s \in Upto(n + 1) : s # {} => Less(s) \in Upto(n)
    BY <1>1, <1>2
  <2>3. g \in [Upto(n + 1) -> Int]
    BY <1>2, <2>1, <2>2
  <2>4. \A s \in Upto(n) : s \in Upto(n + 1) /\ g[s] = f[s]
    BY <1>1, <2>1
  <2>5. \A s \in Upto(n + 1) :
          g[s] = IF s = {} THEN 0 ELSE v[Some(s)] + g[Less(s)]
    <3> HIDE DEF Upto
    <3> QED
      BY <2>2, <2>4
  <2>6. g \in Sums(n + 1)
    <3> HIDE DEF g, Upto
    <3> QED
      BY <2>3, <2>5
  <2>7. n + 1 \in Nat /\ Sums(n + 1) # {}
    <3> HIDE DEF Sums, g
    <3> QED
      BY <2>6
  <2> QED
    BY <2>7
<1>5. Cardinality(T) \in X
  <2>1. Cardinality(T) \in Nat
    BY FS_CardinalityType
  <2> HIDE DEF X
  <2> QED
    BY <1>3, <1>4, <2>1, NaturalInduction
<1>6. PICK f \in Sums(Cardinality(T)) : TRUE
  BY <1>5
<1>7. Upto(Cardinality(T)) = SUBSET T
  BY <1>1
<1>8. f = [s \in SUBSET T |-> f[s]]
  BY <1>6, <1>7
<1>9. IsSum(f, v, T)
  BY <1>6, <1>7, <1>8 DEF IsSum
<1> QED
  BY <1>9

(* A sum of natural numbers is one.                                        *)
LEMMA SumIsNatural ==
  ASSUME NEW T, IsFiniteSet(T), NEW v \in [T -> Nat], NEW f, IsSum(f, v, T)
  PROVE  f[T] \in Nat
<1> DEFINE X == {s \in SUBSET T : f[s] \in Nat}
<1>1. {} \in X
  BY DEF IsSum
<1>2. ASSUME NEW s \in SUBSET T, s # {}, Less(s) \in X PROVE s \in X
  <2>1. Some(s) \in T
    BY <1>2, SomeIsMember
  <2>2. f[s] = v[Some(s)] + f[Less(s)]
    BY <1>2 DEF IsSum
  <2> QED
    BY <1>2, <2>1, <2>2
<1>3. T \in X
  <2> HIDE DEF X
  <2> QED
    BY <1>1, <1>2, FoldInduction
<1> QED
  BY <1>3

(* A sum of larger numbers is larger.                                      *)
LEMMA SumGrows ==
  ASSUME NEW T, IsFiniteSet(T), NEW v \in [T -> Nat], NEW w \in [T -> Nat],
         NEW f, IsSum(f, v, T), NEW g, IsSum(g, w, T),
         \A t \in T : v[t] <= w[t],
         NEW u \in T, v[u] < w[u]
  PROVE  f[T] < g[T]
<1> DEFINE X == {s \in SUBSET T : /\ f[s] \in Nat /\ g[s] \in Nat /\ f[s] <= g[s]
                                  /\ u \in s => f[s] < g[s]}
<1>1. {} \in X
  BY DEF IsSum
<1>2. ASSUME NEW s \in SUBSET T, s # {}, Less(s) \in X PROVE s \in X
  <2>1. Some(s) \in T /\ (u \in s => u = Some(s) \/ u \in Less(s))
    BY <1>2, SomeIsMember DEF Less
  <2>2. f[s] = v[Some(s)] + f[Less(s)] /\ g[s] = w[Some(s)] + g[Less(s)]
    BY <1>2 DEF IsSum
  <2> QED
    BY <1>2, <2>1, <2>2
<1>3. T \in X
  <2> HIDE DEF X
  <2> QED
    BY <1>1, <1>2, FoldInduction
<1> QED
  BY <1>3

-----------------------------------------------------------------------------
(* The checksum of a set of tags is the sum of what the request takes for  *)
(* their counts.                                                           *)

Views(p, T) == [t \in T |-> View(p, t)]

LEMMA ViewIsNatural ==
  ASSUME TypeOK, NEW p \in Request, NEW t \in Tag
  PROVE  View(p, t) \in Nat /\ View(p, t) <= counts[t]
BY DEF TypeOK, View, Unset

LEMMA ChecksumIsSum ==
  ASSUME TypeOK, NEW p \in Request, NEW T \in SUBSET Tag, IsFiniteSet(T)
  PROVE  /\ Views(p, T) \in [T -> Nat]
         /\ \E f : IsSum(f, Views(p, T), T) /\ Checksum(p, T) = f[T]
<1> DEFINE Fold(f) == f = [s \in SUBSET T |->
              IF s = {} THEN 0
              ELSE View(p, CHOOSE x \in s : TRUE) + f[s \ {CHOOSE x \in s : TRUE}]]
<1>1. Views(p, T) \in [T -> Nat]
  BY ViewIsNatural DEF Views
<1>2. \A f : Fold(f) <=> IsSum(f, Views(p, T), T)
  <2>1. \A s \in SUBSET T : s # {} => Views(p, T)[Some(s)] = View(p, Some(s))
    BY SomeIsMember DEF Views
  <2> QED
    BY <2>1 DEF IsSum, Some, Less
<1>3. \E f : Fold(f)
  <2>1. Views(p, T) \in [T -> Int]
    BY <1>1
  <2> HIDE DEF Fold
  <2> QED
    BY <1>2, <2>1, SumExists
<1>4. Checksum(p, T) = (CHOOSE f : Fold(f))[T]
  BY DEF Checksum, MapThenSumSet, MapThenFoldSet
<1>5. Fold(CHOOSE f : Fold(f))
  <2> HIDE DEF Fold
  <2> QED
    BY <1>3
<1> QED
  <2> HIDE DEF Fold
  <2> QED
    BY <1>1, <1>2, <1>4, <1>5

LEMMA ChecksumIsNatural ==
  ASSUME TypeOK, NEW p \in Request, NEW T \in SUBSET Tag, IsFiniteSet(T)
  PROVE  Checksum(p, T) \in Nat
BY ChecksumIsSum, SumIsNatural

-----------------------------------------------------------------------------
(* Types.                                                                  *)

Stored == {i \in Item : IsFiniteSet(i.tags)}

ReadOp  == [at : {"validate"}, item : Stored]
WriteOp == [at : {"store"}, cid : Cid, item : Stored]
MergeOp == [at : {"merge"}, todo : SUBSET Tag]
CallOp  == {Idle} \union ReadOp \union WriteOp \union MergeOp

AtMostOne(S) == S = {} \/ \E i : S = {i}

TypeInv ==
  /\ TypeOK
  /\ bin \in [Cid -> SUBSET Stored]
  /\ \A c \in Cid : AtMostOne(bin[c])
  /\ op \in [Request -> CallOp]

LEMMA OpKinds ==
  ASSUME NEW o \in CallOp
  PROVE  /\ o.at = "validate" => o \in ReadOp
         /\ o.at = "store" => o \in WriteOp
         /\ o.at = "merge" => o \in MergeOp
         /\ o.at = "idle" => o = Idle
BY DEF CallOp, ReadOp, WriteOp, MergeOp, Idle

LEMMA DoOp ==
  ASSUME TypeInv, NEW p \in Request, NEW o \in CallOp, Do(p, o)
  PROVE  /\ op' \in [Request -> CallOp]
         /\ op'[p] = o
         /\ \A q \in Request \ {p} : op'[q] = op[q]
BY DEF TypeInv, Do

(* What static caches and counts must agree on.                            *)
StaticsAgree ==
  \A p \in Request, t \in Tag :
    /\ tagCache[p][t] <= counts[t]
    /\ t \in delayed[p] => t \in invalidated[p] /\ tagCache[p][t] = Unset

LEMMA FewStored ==
  ASSUME NEW S, AtMostOne(S)
  PROVE  Cardinality(S) <= 1
<1>1. CASE S = {}
  BY <1>1, FS_EmptySet
<1>2. ASSUME NEW i, S = {i} PROVE Cardinality(S) <= 1
  <2>1. Cardinality({i}) = 1
    BY FS_Singleton, Zenon
  <2> QED
    BY <1>2, <2>1
<1> QED
  BY <1>1, <1>2 DEF AtMostOne

LEMMA TypeByParts ==
  ASSUME counts' \in [Tag -> Nat],
         bin' \in [Cid -> SUBSET Stored], \A c \in Cid : AtMostOne(bin'[c]),
         tagCache' \in [Request -> [Tag -> Nat \union {Unset}]],
         invalidated' \in [Request -> SUBSET Tag], delayed' \in [Request -> SUBSET Tag],
         tx' \in [Request -> {"none", "open"}], changed' \in [Request -> SUBSET Tag],
         op' \in [Request -> CallOp], StaticsAgree'
  PROVE  TypeInv'
<1>1. \A c \in Cid : bin'[c] \subseteq Item /\ Cardinality(bin'[c]) <= 1
  <2> SUFFICES ASSUME NEW c \in Cid
               PROVE  bin'[c] \subseteq Item /\ Cardinality(bin'[c]) <= 1
    OBVIOUS
  <2>1. bin'[c] \subseteq Item
    BY DEF Stored
  <2> QED
    BY <2>1, FewStored
<1> QED
  BY <1>1 DEF TypeInv, TypeOK, StaticsAgree

LEMMA TypeParts ==
  ASSUME TypeInv
  PROVE  /\ counts \in [Tag -> Nat]
         /\ bin \in [Cid -> SUBSET Stored] /\ \A c \in Cid : AtMostOne(bin[c])
         /\ tagCache \in [Request -> [Tag -> Nat \union {Unset}]]
         /\ invalidated \in [Request -> SUBSET Tag]
         /\ delayed \in [Request -> SUBSET Tag]
         /\ tx \in [Request -> {"none", "open"}]
         /\ changed \in [Request -> SUBSET Tag]
         /\ op \in [Request -> CallOp] /\ StaticsAgree
         /\ Idle \in CallOp
BY DEF TypeInv, TypeOK, StaticsAgree, CallOp

LEMMA TypeInit == Init => TypeInv
<1> SUFFICES ASSUME Init PROVE TypeInv
  OBVIOUS
<1>1. StaticsAgree
  BY DEF Init, StaticsAgree, Unset
<1>2. op \in [Request -> CallOp]
  BY DEF Init, CallOp
<1>3. bin \in [Cid -> SUBSET Stored] /\ \A c \in Cid : bin[c] = {}
  BY DEF Init
<1>4. tagCache \in [Request -> [Tag -> Nat \union {Unset}]]
  BY DEF Init
<1>5. \A c \in Cid : bin[c] \subseteq Item /\ Cardinality(bin[c]) <= 1 /\ AtMostOne(bin[c])
  BY <1>3, FS_EmptySet DEF AtMostOne
<1> QED
  BY <1>1, <1>2, <1>3, <1>4, <1>5 DEF TypeInv, TypeOK, StaticsAgree, Init

(* Loading tags whose invalidation does not wait keeps the static caches   *)
(* in agreement, and what the requests take for the counts.                *)
LEMMA LoadKeeps ==
  ASSUME TypeInv, NEW p \in Request, NEW T \in SUBSET Tag,
         Load(p, T), T \intersect delayed[p] = {},
         UNCHANGED <<counts, delayed>>,
         \A q \in Request : delayed[q] \subseteq invalidated'[q]
  PROVE  /\ tagCache' \in [Request -> [Tag -> Nat \union {Unset}]]
         /\ StaticsAgree'
         /\ \A q \in Request, t \in Tag : View(q, t)' = View(q, t)
<1> DEFINE m == [t \in Tag |-> IF t \in T THEN View(p, t) ELSE tagCache[p][t]]
<1>1. m \in [Tag -> Nat \union {Unset}]
  BY TypeParts, ViewIsNatural DEF TypeInv
<1>2. tagCache' = [tagCache EXCEPT ![p] = m]
  BY DEF Load
<1>3. /\ tagCache' \in [Request -> [Tag -> Nat \union {Unset}]]
      /\ tagCache'[p] = m /\ \A q \in Request \ {p} : tagCache'[q] = tagCache[q]
  BY <1>1, <1>2, TypeParts
<1>4. \A t \in Tag : View(p, t)' = View(p, t)
  BY <1>3 DEF View
<1>5. \A q \in Request \ {p}, t \in Tag : View(q, t)' = View(q, t)
  BY <1>3 DEF View
<1>6. StaticsAgree'
  <2> SUFFICES ASSUME NEW q \in Request, NEW t \in Tag
               PROVE  /\ tagCache'[q][t] <= counts[t]
                      /\ t \in delayed[q] => tagCache'[q][t] = Unset
    BY DEF StaticsAgree
  <2>1. CASE q = p /\ t \in T
    BY <1>3, <2>1, ViewIsNatural DEF TypeInv
  <2>2. CASE ~(q = p /\ t \in T)
    BY <1>3, <2>2, TypeParts DEF StaticsAgree
  <2> QED
    BY <2>1, <2>2
<1> QED
  BY <1>3, <1>4, <1>5, <1>6

(* Counts only grow, and so does what a request takes for them.            *)
Grow ==
  /\ \A t \in Tag : counts[t] <= counts'[t]
  /\ \A q \in Request, t \in Tag : View(q, t) <= View(q, t)'

LEMMA UnchangedGrow ==
  ASSUME TypeInv, UNCHANGED <<counts, tagCache>>
  PROVE  Grow
<1>1. \A q \in Request, t \in Tag : View(q, t)' = View(q, t) /\ View(q, t) \in Nat
  BY ViewIsNatural DEF View, TypeInv
<1>2. \A t \in Tag : counts[t] \in Nat
  BY TypeParts
<1> QED
  BY <1>1, <1>2 DEF Grow

LEMMA TypeRead ==
  ASSUME TypeInv, NEW p \in Request, (\E c \in Cid : GetRow(p, c)) \/ Validate(p)
  PROVE  TypeInv' /\ Grow
<1>1. ASSUME NEW c \in Cid, GetRow(p, c) PROVE TypeInv' /\ Grow
  <2>1. PICK i \in bin[c] : Do(p, [at |-> "validate", item |-> i])
    BY <1>1 DEF GetRow
  <2>2. [at |-> "validate", item |-> i] \in CallOp
    BY <2>1, TypeParts DEF CallOp, ReadOp
  <2>3. op' \in [Request -> CallOp]
    BY <2>1, <2>2, DoOp
  <2>4. UNCHANGED <<counts, bin, tagCache, invalidated, delayed, tx, changed>>
    BY <1>1 DEF GetRow, shared, statics
  <2>5. Grow
    BY <2>4, UnchangedGrow
  <2>6. StaticsAgree'
    BY <2>4, TypeParts DEF StaticsAgree
  <2> QED
    BY <2>3, <2>4, <2>5, <2>6, TypeParts, TypeByParts
<1>2. CASE Validate(p)
  <2> DEFINE T == op[p].item.tags
  <2>1. T \in SUBSET Tag
    BY <1>2, TypeParts, OpKinds DEF Validate, At, ReadOp, Stored, Item
  <2>2. UNCHANGED <<counts, bin, invalidated, delayed, tx, changed>>
    BY <1>2 DEF Validate, shared
  <2>3. op' \in [Request -> CallOp]
    BY <1>2, TypeParts, DoOp DEF Validate
  <2>4. /\ tagCache' \in [Request -> [Tag -> Nat \union {Unset}]]
        /\ StaticsAgree' /\ Grow
    <3>1. CASE UNCHANGED tagCache
      BY <2>2, <3>1, TypeParts, UnchangedGrow DEF StaticsAgree
    <3>2. CASE T \intersect delayed[p] = {} /\ Load(p, T)
      <4>1. \A q \in Request : delayed[q] \subseteq invalidated'[q]
        BY <2>2, TypeParts DEF StaticsAgree
      <4>2. /\ tagCache' \in [Request -> [Tag -> Nat \union {Unset}]]
            /\ StaticsAgree'
            /\ \A q \in Request, t \in Tag : View(q, t)' = View(q, t)
        BY <2>1, <2>2, <3>2, <4>1, LoadKeeps
      <4>3. Grow
        BY <2>2, <4>2, ViewIsNatural, TypeParts DEF Grow, TypeInv
      <4> QED
        BY <4>2, <4>3
    <3> QED
      BY <1>2, <3>1, <3>2 DEF Validate
  <2> QED
    BY <2>2, <2>3, <2>4, TypeParts, TypeByParts
<1> QED
  BY <1>1, <1>2

(* The item that set() is going to store.                                  *)
NewItem(p, T, sum) ==
  [tags |-> T, checksum |-> sum, marked |-> [t \in Tag |-> Unset], late |-> {},
   by |-> IF T \intersect changed[p] # {} THEN {p} ELSE {}]

LEMMA NewItemStored ==
  ASSUME NEW p \in Request, NEW T \in SUBSET Tag, IsFiniteSet(T), NEW sum \in Int
  PROVE  NewItem(p, T, sum) \in Stored
BY DEF NewItem, Stored, Item

LEMMA TypeWrite ==
  ASSUME TypeInv, NEW p \in Request,
         (\E c \in Cid, T \in ItemTags : CurrentChecksum(p, c, T)) \/ Store(p)
  PROVE  TypeInv' /\ Grow
<1>1. ASSUME NEW c \in Cid, NEW T \in ItemTags, CurrentChecksum(p, c, T)
      PROVE  TypeInv' /\ Grow
  <2>1. T \in SUBSET Tag /\ IsFiniteSet(T)
    BY ParametersAssumption
  <2>2. UNCHANGED <<counts, bin, delayed, tx, changed>>
    BY <1>1 DEF CurrentChecksum, shared
  <2>3. CASE T \intersect delayed[p] # {}
    <3>1. PICK o \in {Idle, [at |-> "store", cid |-> c, item |-> NewItem(p, T, Invalid)]} :
            Do(p, o)
      BY <1>1, <2>3 DEF CurrentChecksum, NewItem
    <3>2. o \in CallOp
      BY <2>1, <3>1, TypeParts, NewItemStored DEF CallOp, WriteOp, Invalid
    <3>3. op' \in [Request -> CallOp] /\ UNCHANGED <<tagCache, invalidated>>
      BY <1>1, <2>3, <3>1, <3>2, DoOp DEF CurrentChecksum
    <3>4. StaticsAgree' /\ Grow
      BY <2>2, <3>3, TypeParts, UnchangedGrow DEF StaticsAgree
    <3> QED
      BY <2>2, <3>3, <3>4, TypeParts, TypeByParts
  <2>4. CASE T \intersect delayed[p] = {}
    <3> DEFINE o == [at |-> "store", cid |-> c, item |-> NewItem(p, T, Checksum(p, T))]
    <3>1. /\ Do(p, o) /\ Load(p, T)
          /\ invalidated' = [invalidated EXCEPT ![p] = @ \ T]
      BY <1>1, <2>4 DEF CurrentChecksum, NewItem
    <3>2. o \in CallOp
      BY <2>1, NewItemStored, ChecksumIsNatural DEF CallOp, WriteOp, TypeInv
    <3>3. op' \in [Request -> CallOp] /\ invalidated' \in [Request -> SUBSET Tag]
      BY <3>1, <3>2, DoOp, TypeParts
    <3>4. \A q \in Request : delayed[q] \subseteq invalidated'[q]
      BY <2>4, <3>1, TypeParts DEF StaticsAgree
    <3>5. /\ tagCache' \in [Request -> [Tag -> Nat \union {Unset}]]
          /\ StaticsAgree'
          /\ \A q \in Request, t \in Tag : View(q, t)' = View(q, t)
      BY <2>1, <2>2, <2>4, <3>1, <3>4, LoadKeeps
    <3>6. Grow
      BY <2>2, <3>5, ViewIsNatural, TypeParts DEF Grow, TypeInv
    <3> QED
      BY <2>2, <3>3, <3>5, <3>6, TypeParts, TypeByParts
  <2> QED
    BY <2>3, <2>4
<1>2. CASE Store(p)
  <2>1. op[p] \in WriteOp
    BY <1>2, TypeParts, OpKinds DEF Store, At
  <2>2. bin' \in [Cid -> SUBSET Stored] /\ \A c \in Cid : AtMostOne(bin'[c])
    BY <1>2, <2>1, TypeParts DEF Store, WriteOp, AtMostOne
  <2>3. op' \in [Request -> CallOp]
    BY <1>2, TypeParts, DoOp DEF Store
  <2>4. UNCHANGED <<counts, tagCache, invalidated, delayed, tx, changed>>
    BY <1>2 DEF Store, statics
  <2>5. StaticsAgree' /\ Grow
    BY <2>4, TypeParts, UnchangedGrow DEF StaticsAgree
  <2> QED
    BY <2>2, <2>3, <2>4, <2>5, TypeParts, TypeByParts
<1> QED
  BY <1>1, <1>2

(* What marking and a new request make of the items in the bins.           *)
Marked(i, T, n) ==
  [i EXCEPT !.marked = [t \in Tag |-> IF t \in T \intersect i.tags THEN n[t] ELSE @[t]]]

Later(i, p) ==
  [i EXCEPT !.late = IF i.marked = [t \in Tag |-> Unset] THEN @ ELSE @ \union {p}]

LEMMA MarkedItem ==
  ASSUME NEW i \in Stored, NEW T \in SUBSET Tag, NEW n \in [Tag -> Nat]
  PROVE  /\ Marked(i, T, n) \in Stored
         /\ \A f \in {"tags", "checksum", "late", "by"} : Marked(i, T, n)[f] = i[f]
         /\ \A t \in Tag : Marked(i, T, n).marked[t] =
                             IF t \in T \intersect i.tags THEN n[t] ELSE i.marked[t]
BY DEF Marked, Stored, Item

LEMMA LaterItem ==
  ASSUME NEW i \in Stored, NEW p \in Request
  PROVE  /\ Later(i, p) \in Stored
         /\ \A f \in {"tags", "checksum", "marked", "by"} : Later(i, p)[f] = i[f]
         /\ Later(i, p).late \subseteq i.late \union {p}
         /\ Later(i, p).late # i.late => \E t \in Tag : i.marked[t] # Unset
BY DEF Later, Stored, Item

LEMMA MarkKeeps ==
  ASSUME TypeInv, NEW T \in SUBSET Tag, NEW n \in [Tag -> Nat], Mark(T, n)
  PROVE  /\ bin' \in [Cid -> SUBSET Stored] /\ \A c \in Cid : AtMostOne(bin'[c])
         /\ \A c \in Cid : \A j \in bin'[c] : \E i \in bin[c] : j = Marked(i, T, n)
<1>1. bin' = [c \in Cid |-> {Marked(i, T, n) : i \in bin[c]}]
  BY DEF Mark, Marked
<1>2. bin' \in [Cid -> SUBSET Stored]
  <2>1. \A c \in Cid : bin[c] \subseteq Stored
    BY TypeParts
  <2>2. \A i \in Stored : Marked(i, T, n) \in Stored
    BY MarkedItem
  <2> QED
    BY <1>1, <2>1, <2>2
<1>3. \A c \in Cid : AtMostOne(bin'[c])
  <2> SUFFICES ASSUME NEW c \in Cid PROVE AtMostOne(bin'[c])
    OBVIOUS
  <2>1. AtMostOne(bin[c]) /\ bin'[c] = {Marked(i, T, n) : i \in bin[c]}
    BY <1>1, TypeParts
  <2>2. CASE bin[c] = {}
    BY <2>1, <2>2 DEF AtMostOne
  <2>3. ASSUME NEW k, bin[c] = {k} PROVE AtMostOne(bin'[c])
    <3>1. bin'[c] = {Marked(k, T, n)}
      BY <2>1, <2>3
    <3> QED
      BY <3>1 DEF AtMostOne
  <2> QED
    BY <2>1, <2>2, <2>3 DEF AtMostOne
<1> QED
  BY <1>1, <1>2, <1>3

LEMMA LaterKeeps ==
  ASSUME TypeInv, NEW p \in Request, NewRequest(p)
  PROVE  /\ bin' \in [Cid -> SUBSET Stored] /\ \A c \in Cid : AtMostOne(bin'[c])
         /\ \A c \in Cid : \A j \in bin'[c] : \E i \in bin[c] : j = Later(i, p)
<1>1. bin' = [c \in Cid |-> {Later(i, p) : i \in bin[c]}]
  BY DEF NewRequest, Later
<1>2. bin' \in [Cid -> SUBSET Stored]
  <2>1. \A c \in Cid : bin[c] \subseteq Stored
    BY TypeParts
  <2>2. \A i \in Stored : Later(i, p) \in Stored
    BY LaterItem
  <2> QED
    BY <1>1, <2>1, <2>2
<1>3. \A c \in Cid : AtMostOne(bin'[c])
  <2> SUFFICES ASSUME NEW c \in Cid PROVE AtMostOne(bin'[c])
    OBVIOUS
  <2>1. AtMostOne(bin[c]) /\ bin'[c] = {Later(i, p) : i \in bin[c]}
    BY <1>1, TypeParts
  <2>2. CASE bin[c] = {}
    BY <2>1, <2>2 DEF AtMostOne
  <2>3. ASSUME NEW k, bin[c] = {k} PROVE AtMostOne(bin'[c])
    <3>1. bin'[c] = {Later(k, p)}
      BY <2>1, <2>3
    <3> QED
      BY <3>1 DEF AtMostOne
  <2> QED
    BY <2>1, <2>2, <2>3 DEF AtMostOne
<1> QED
  BY <1>1, <1>2, <1>3

(* Forgetting tags can only raise what the request takes for their counts. *)
LEMMA ForgetKeeps ==
  ASSUME TypeInv, NEW p \in Request, NEW T, UNCHANGED counts,
         tagCache' = [tagCache EXCEPT ![p] = Forget(p, T)]
  PROVE  /\ tagCache' \in [Request -> [Tag -> Nat \union {Unset}]]
         /\ \A q \in Request, t \in Tag :
              /\ tagCache'[q][t] \in {tagCache[q][t], Unset}
              /\ q = p /\ t \in T => tagCache'[q][t] = Unset
         /\ Grow
<1>1. Forget(p, T) \in [Tag -> Nat \union {Unset}]
  BY TypeParts DEF Forget
<1>2. /\ tagCache' \in [Request -> [Tag -> Nat \union {Unset}]]
      /\ tagCache'[p] = Forget(p, T)
      /\ \A q \in Request \ {p} : tagCache'[q] = tagCache[q]
  BY <1>1, TypeParts
<1>3. \A q \in Request, t \in Tag :
        /\ tagCache'[q][t] \in {tagCache[q][t], Unset}
        /\ q = p /\ t \in T => tagCache'[q][t] = Unset
  BY <1>2 DEF Forget
<1>4. Grow
  <2>1. \A t \in Tag : counts'[t] = counts[t] /\ counts[t] \in Nat
    BY TypeParts
  <2>2. ASSUME NEW q \in Request, NEW t \in Tag PROVE View(q, t) <= View(q, t)'
    <3>1. View(q, t) \in Nat /\ View(q, t) <= counts[t]
      BY ViewIsNatural DEF TypeInv
    <3>2. View(q, t)' = View(q, t) \/ View(q, t)' = counts[t]
      BY <1>3, <2>1 DEF View
    <3> QED
      BY <2>1, <3>1, <3>2
  <2> QED
    BY <2>1, <2>2 DEF Grow
<1> QED
  BY <1>2, <1>3, <1>4

LEMMA TypeInvalidate ==
  ASSUME TypeInv, NEW p \in Request, NEW T \in SUBSET Tag, InvalidateTags(p, T)
  PROVE  TypeInv' /\ Grow
<1> DEFINE new == T \ invalidated[p]
<1>1. UNCHANGED <<counts, tx>>
  BY DEF InvalidateTags
<1>2. /\ tagCache' \in [Request -> [Tag -> Nat \union {Unset}]] /\ Grow
      /\ \A q \in Request, t \in Tag :
           /\ tagCache'[q][t] \in {tagCache[q][t], Unset}
           /\ q = p /\ t \in new => tagCache'[q][t] = Unset
  BY <1>1, ForgetKeeps DEF InvalidateTags
<1>3. /\ invalidated' \in [Request -> SUBSET Tag]
      /\ \A q \in Request : invalidated[q] \subseteq invalidated'[q]
      /\ T \subseteq invalidated'[p]
  BY TypeParts DEF InvalidateTags
<1>4. /\ delayed' \in [Request -> SUBSET Tag]
      /\ \A q \in Request : delayed'[q] \subseteq delayed[q] \union (IF q = p THEN new ELSE {})
  BY TypeParts DEF InvalidateTags
<1>5. changed' \in [Request -> SUBSET Tag]
  BY TypeParts DEF InvalidateTags
<1>6. op' \in [Request -> CallOp]
  <2>1. [at |-> "merge", todo |-> new] \in CallOp
    BY DEF CallOp, MergeOp
  <2> QED
    BY <2>1, TypeParts, DoOp DEF InvalidateTags
<1>7. bin' \in [Cid -> SUBSET Stored] /\ \A c \in Cid : AtMostOne(bin'[c])
  BY TypeParts, MarkKeeps DEF InvalidateTags
<1>8. StaticsAgree'
  BY <1>1, <1>2, <1>3, <1>4, TypeParts DEF StaticsAgree, Unset
<1> QED
  BY <1>1, <1>2, <1>3, <1>4, <1>5, <1>6, <1>7, <1>8, TypeParts, TypeByParts

LEMMA TypeMerge ==
  ASSUME TypeInv, NEW p \in Request, NEW t \in Tag, Merge(p, t)
  PROVE  TypeInv' /\ Grow
<1>1. UNCHANGED <<tagCache, invalidated, tx, changed>>
  BY DEF Merge
<1>2. /\ counts' \in [Tag -> Nat] /\ counts'[t] = counts[t] + 1
      /\ \A u \in Tag \ {t} : counts'[u] = counts[u]
      /\ OneMore(t) \in [Tag -> Nat]
  BY TypeParts DEF Merge, OneMore
<1>3. bin' \in [Cid -> SUBSET Stored] /\ \A c \in Cid : AtMostOne(bin'[c])
  BY <1>2, MarkKeeps DEF Merge
<1>4. /\ delayed' \in [Request -> SUBSET Tag]
      /\ \A q \in Request : delayed'[q] \subseteq delayed[q]
  BY TypeParts DEF Merge
<1>5. op' \in [Request -> CallOp]
  <2>1. op[p] \in MergeOp
    BY TypeParts, OpKinds DEF Merge, At
  <2>2. [op[p] EXCEPT !.todo = op[p].todo \ {t}] \in CallOp
    BY <2>1 DEF MergeOp, CallOp
  <2> QED
    BY <2>2, TypeParts, DoOp DEF Merge
<1>6. \A u \in Tag : counts[u] \in Nat /\ counts[u] <= counts'[u]
  <2>1. \A u \in Tag : counts[u] \in Nat
    BY TypeParts
  <2> QED
    BY <1>2, <2>1
<1>7. StaticsAgree'
  <2> SUFFICES ASSUME NEW q \in Request, NEW u \in Tag
               PROVE  /\ tagCache[q][u] <= counts'[u]
                      /\ u \in delayed'[q] => u \in invalidated[q] /\ tagCache[q][u] = Unset
    BY <1>1 DEF StaticsAgree
  <2>1. tagCache[q][u] <= counts[u] /\ tagCache[q][u] \in Int
    BY TypeParts DEF StaticsAgree, Unset
  <2>2. counts[u] \in Int /\ counts'[u] \in Int
    BY <1>2, <1>6
  <2>3. tagCache[q][u] <= counts'[u]
    BY <1>6, <2>1, <2>2
  <2> QED
    BY <1>4, <2>3, TypeParts DEF StaticsAgree
<1>8. Grow
  <2>1. ASSUME NEW q \in Request, NEW u \in Tag PROVE View(q, u) <= View(q, u)'
    <3>1. View(q, u) \in Nat
      BY ViewIsNatural DEF TypeInv
    <3> QED
      BY <1>1, <1>6, <3>1 DEF View
  <2> QED
    BY <1>6, <2>1 DEF Grow
<1> QED
  BY <1>1, <1>2, <1>3, <1>4, <1>5, <1>7, <1>8, TypeParts, TypeByParts

LEMMA TypeTransaction ==
  ASSUME TypeInv, NEW p \in Request, StartTransaction(p) \/ Commit(p) \/ RollBack(p)
  PROVE  TypeInv' /\ Grow
<1>1. CASE StartTransaction(p)
  <2>1. UNCHANGED <<counts, bin, tagCache, invalidated, delayed, op, changed>>
    BY <1>1 DEF StartTransaction, shared, statics
  <2>2. tx' \in [Request -> {"none", "open"}]
    BY <1>1, TypeParts DEF StartTransaction
  <2>3. StaticsAgree' /\ Grow
    BY <2>1, TypeParts, UnchangedGrow DEF StaticsAgree
  <2> QED
    BY <2>1, <2>2, <2>3, TypeParts, TypeByParts
<1>2. CASE Commit(p)
  <2>1. UNCHANGED <<counts, tagCache, invalidated, delayed>>
    BY <1>2 DEF Commit, statics
  <2>2. tx' \in [Request -> {"none", "open"}] /\ changed' \in [Request -> SUBSET Tag]
    BY <1>2, TypeParts DEF Commit
  <2>3. StaticsAgree' /\ Grow
    BY <2>1, TypeParts, UnchangedGrow DEF StaticsAgree
  <2>4. bin' \in [Cid -> SUBSET Stored] /\ \A c \in Cid : AtMostOne(bin'[c])
    <3>1. changed[p] \ delayed[p] \in SUBSET Tag
      BY TypeParts
    <3> QED
      BY <1>2, <3>1, TypeParts, MarkKeeps DEF Commit
  <2>5. op' \in [Request -> CallOp]
    <3>1. [at |-> "merge", todo |-> delayed[p]] \in CallOp
      BY TypeParts DEF CallOp, MergeOp
    <3> QED
      BY <1>2, <3>1, TypeParts, DoOp DEF Commit
  <2> QED
    BY <2>1, <2>2, <2>3, <2>4, <2>5, TypeParts, TypeByParts
<1>3. CASE RollBack(p)
  <2>1. UNCHANGED <<counts, bin, tagCache, invalidated, op>>
    BY <1>3 DEF RollBack, shared
  <2>2. /\ tx' \in [Request -> {"none", "open"}] /\ changed' \in [Request -> SUBSET Tag]
        /\ delayed' \in [Request -> SUBSET Tag]
        /\ \A q \in Request : delayed'[q] \subseteq delayed[q]
    BY <1>3, TypeParts DEF RollBack
  <2>3. StaticsAgree' /\ Grow
    BY <2>1, <2>2, TypeParts, UnchangedGrow DEF StaticsAgree
  <2> QED
    BY <2>1, <2>2, <2>3, TypeParts, TypeByParts
<1> QED
  BY <1>1, <1>2, <1>3

LEMMA TypeNewRequest ==
  ASSUME TypeInv, NEW p \in Request, NewRequest(p)
  PROVE  TypeInv' /\ Grow /\ \A t \in Tag : View(p, t)' = counts[t]
<1>1. UNCHANGED counts
  BY DEF NewRequest
<1>2. tagCache' = [tagCache EXCEPT ![p] = Forget(p, Tag)]
  BY DEF NewRequest, Forget
<1>3. /\ tagCache' \in [Request -> [Tag -> Nat \union {Unset}]] /\ Grow
      /\ \A q \in Request, t \in Tag :
           /\ tagCache'[q][t] \in {tagCache[q][t], Unset}
           /\ q = p /\ t \in Tag => tagCache'[q][t] = Unset
  BY <1>1, <1>2, ForgetKeeps
<1>4. /\ invalidated' \in [Request -> SUBSET Tag] /\ delayed' \in [Request -> SUBSET Tag]
      /\ changed' \in [Request -> SUBSET Tag] /\ tx' \in [Request -> {"none", "open"}]
      /\ delayed'[p] = {}
      /\ \A q \in Request \ {p} : delayed'[q] = delayed[q] /\ invalidated'[q] = invalidated[q]
  BY TypeParts DEF NewRequest
<1>5. op' \in [Request -> CallOp]
  BY TypeParts, DoOp DEF NewRequest
<1>6. bin' \in [Cid -> SUBSET Stored] /\ \A c \in Cid : AtMostOne(bin'[c])
  BY LaterKeeps
<1>7. StaticsAgree'
  <2> SUFFICES ASSUME NEW q \in Request, NEW t \in Tag
               PROVE  /\ tagCache'[q][t] <= counts[t]
                      /\ t \in delayed'[q] => t \in invalidated'[q] /\ tagCache'[q][t] = Unset
    BY <1>1 DEF StaticsAgree
  <2>1. counts[t] \in Nat
    BY TypeParts
  <2> QED
    BY <1>3, <1>4, <2>1, TypeParts DEF StaticsAgree, Unset
<1>8. \A t \in Tag : View(p, t)' = counts[t]
  BY <1>1, <1>3 DEF View
<1> QED
  BY <1>1, <1>3, <1>4, <1>5, <1>6, <1>7, <1>8, TypeParts, TypeByParts

LEMMA TypeStep ==
  ASSUME TypeInv, [Next]_vars
  PROVE  TypeInv' /\ Grow
<1>1. ASSUME NEW p \in Request, NEW T \in SUBSET Tag \ {{}}, InvalidateTags(p, T)
      PROVE  TypeInv' /\ Grow
  BY <1>1, TypeInvalidate
<1>2. ASSUME NEW p \in Request, NEW t \in Tag, Merge(p, t) PROVE TypeInv' /\ Grow
  BY <1>2, TypeMerge
<1>3. CASE UNCHANGED vars
  <2>1. UNCHANGED <<counts, bin, tagCache, invalidated, delayed, tx, op, changed>>
    BY <1>3 DEF vars
  <2>2. StaticsAgree' /\ Grow
    BY <2>1, TypeParts, UnchangedGrow DEF StaticsAgree
  <2> QED
    BY <2>1, <2>2, TypeParts, TypeByParts
<1> QED
  BY <1>1, <1>2, <1>3, TypeRead, TypeWrite, TypeTransaction, TypeNewRequest DEF Next

(* The counts, the bins and what each request keeps have their types; no   *)
(* static cache is ahead of the table, and a tag whose invalidation waits  *)
(* is in $invalidatedTags and not in $tagCache, whatever the requests do   *)
(* and wherever they die.                                                  *)
THEOREM TypeCorrect == Spec => []TypeOK
<1>1. Init => TypeInv
  BY TypeInit
<1>2. TypeInv /\ [Next]_vars => TypeInv'
  BY TypeStep
<1>3. TypeInv => TypeOK
  BY DEF TypeInv
<1> QED
  BY <1>1, <1>2, <1>3, PTL DEF Spec

-----------------------------------------------------------------------------
(* What the checksum of an item says of its history.                       *)

(* b is what the request that stored the item took for the counts of the   *)
(* tags: the checksum is their sum.  The table has passed b wherever the   *)
(* item is marked, and so has every request that began after a mark, in    *)
(* one of the tags at least.                                               *)
Base(i, b) ==
  /\ b \in [i.tags -> Nat]
  /\ \E f : IsSum(f, b, i.tags) /\ f[i.tags] = i.checksum
  /\ \A t \in i.tags : b[t] <= counts[t] /\ (i.marked[t] # Unset => b[t] < i.marked[t])
  /\ \A p \in i.late : /\ \A t \in i.tags : b[t] <= View(p, t)
                       /\ \E t \in i.tags : b[t] < View(p, t)

ItemOK(i) ==
  /\ i.by # {} => i.checksum = Invalid
  /\ \A t \in Tag : i.marked[t] # Unset => t \in i.tags /\ i.marked[t] <= counts[t]
  /\ i.checksum # Invalid => \E b : Base(i, b)

ItemsOK ==
  /\ \A c \in Cid : \A i \in bin[c] : ItemOK(i)
  /\ \A p \in Request : op[p].at \in {"validate", "store"} => ItemOK(op[p].item)

(* The tags a transaction has changed wait for its end, and no request     *)
(* carries out invalidations while a transaction of its own is open.       *)
ChangesWait ==
  /\ \A p \in Request : changed[p] \subseteq IF tx[p] = "open" THEN delayed[p] ELSE {}
  /\ \A p \in Request : At(p, "merge") => tx[p] = "none"

HistoryInv == TypeInv /\ ItemsOK /\ ChangesWait

(* An item keeps its history right when it is marked at a new count, when  *)
(* a request begins, and when counts grow.                                 *)
LEMMA ItemStep ==
  ASSUME TypeInv, TypeInv', Grow, NEW i \in Stored, NEW j \in Stored, ItemOK(i),
         j.tags = i.tags, j.checksum = i.checksum, j.by = i.by,
         \A t \in Tag : \/ j.marked[t] = i.marked[t]
                        \/ t \in i.tags /\ j.marked[t] = counts'[t] /\ counts[t] < counts'[t],
         \A p \in j.late : \/ p \in i.late
                           \/ /\ \A t \in Tag : View(p, t)' = counts[t]
                              /\ \E t \in Tag : i.marked[t] # Unset
  PROVE  ItemOK(j)'
<1>1. /\ i.tags \in SUBSET Tag /\ i.late \in SUBSET Request /\ j.late \in SUBSET Request
      /\ i.marked \in [Tag -> Nat \union {Unset}] /\ j.marked \in [Tag -> Nat \union {Unset}]
  BY DEF Stored, Item
<1>2. /\ \A t \in Tag : counts[t] \in Nat /\ counts'[t] \in Nat /\ counts[t] <= counts'[t]
      /\ \A p \in Request, t \in Tag :
           View(p, t) \in Nat /\ View(p, t)' \in Nat /\ View(p, t) <= View(p, t)'
  <2>1. \A t \in Tag : counts[t] \in Nat /\ counts'[t] \in Nat
    BY DEF TypeInv, TypeOK
  <2>2. \A p \in Request, t \in Tag : View(p, t) \in Nat
    BY ViewIsNatural DEF TypeInv
  <2>3. \A p \in Request, t \in Tag : View(p, t)' \in Nat
    BY <2>1 DEF TypeInv, TypeOK, View, Unset
  <2> QED
    BY <2>1, <2>2, <2>3 DEF Grow
<1>3. ASSUME NEW t \in Tag, j.marked[t] # Unset
      PROVE  t \in j.tags /\ j.marked[t] <= counts'[t]
  BY <1>1, <1>2, <1>3 DEF ItemOK, Unset
<1>4. ASSUME j.checksum # Invalid PROVE \E b : Base(j, b)'
  <2>1. PICK b : Base(i, b)
    BY <1>4 DEF ItemOK
  <2>2. b \in [i.tags -> Nat]
    BY <2>1 DEF Base
  <2>3. \A t \in i.tags : b[t] <= counts'[t] /\ (j.marked[t] # Unset => b[t] < j.marked[t])
    <3> SUFFICES ASSUME NEW t \in i.tags
                 PROVE  b[t] <= counts'[t] /\ (j.marked[t] # Unset => b[t] < j.marked[t])
      OBVIOUS
    <3>1. b[t] \in Nat /\ t \in Tag /\ b[t] <= counts[t]
          /\ (i.marked[t] # Unset => b[t] < i.marked[t])
      BY <1>1, <2>1, <2>2 DEF Base
    <3> QED
      BY <1>2, <3>1
  <2>4. ASSUME NEW p \in j.late
        PROVE  /\ \A t \in i.tags : b[t] <= View(p, t)'
               /\ \E t \in i.tags : b[t] < View(p, t)'
    <3>1. CASE p \in i.late
      <4>1. \A t \in i.tags : b[t] \in Nat /\ b[t] <= View(p, t)
        BY <2>1, <2>2, <3>1 DEF Base
      <4>2. PICK t \in i.tags : b[t] < View(p, t)
        BY <2>1, <3>1 DEF Base
      <4> QED
        BY <1>1, <1>2, <4>1, <4>2
    <3>2. CASE /\ \A t \in Tag : View(p, t)' = counts[t]
               /\ \E t \in Tag : i.marked[t] # Unset
      <4>1. PICK t \in Tag : i.marked[t] # Unset
        BY <3>2
      <4>2. t \in i.tags /\ i.marked[t] <= counts[t]
        BY <4>1 DEF ItemOK
      <4>3. b[t] < i.marked[t] /\ i.marked[t] \in Nat /\ b[t] \in Nat /\ counts[t] \in Nat
        BY <1>1, <1>2, <2>1, <2>2, <4>1, <4>2 DEF Base
      <4>4. b[t] < View(p, t)'
        BY <3>2, <4>2, <4>3
      <4>5. \A u \in i.tags : b[u] <= View(p, u)'
        BY <1>1, <2>1, <3>2 DEF Base
      <4> QED
        BY <4>2, <4>4, <4>5
    <3> QED
      BY <3>1, <3>2
  <2>5. \E f : IsSum(f, b, j.tags) /\ f[j.tags] = j.checksum
    BY <2>1 DEF Base
  <2> QED
    BY <2>2, <2>3, <2>4, <2>5 DEF Base
<1> QED
  BY <1>3, <1>4 DEF ItemOK

LEMMA ItemKept ==
  ASSUME TypeInv, TypeInv', Grow, NEW i \in Stored, ItemOK(i)
  PROVE  ItemOK(i)'
BY ItemStep

(* A new item: its checksum is the sum of what its request goes by, or one *)
(* that no sum equals.                                                     *)
LEMMA ItemNew ==
  ASSUME TypeInv, NEW p \in Request, NEW T \in SUBSET Tag, IsFiniteSet(T), NEW sum \in Int,
         \/ sum = Invalid
         \/ sum = Checksum(p, T) /\ T \intersect changed[p] = {},
         NEW i, i = NewItem(p, T, sum)
  PROVE  ItemOK(i)
<1>1. /\ i.tags = T /\ i.checksum = sum /\ i.marked = [t \in Tag |-> Unset] /\ i.late = {}
      /\ i.by = IF T \intersect changed[p] # {} THEN {p} ELSE {}
  BY DEF NewItem
<1>2. ASSUME sum = Checksum(p, T) PROVE Base(i, Views(p, T))
  <2>1. /\ Views(p, T) \in [T -> Nat]
        /\ \E f : IsSum(f, Views(p, T), T) /\ sum = f[T]
    BY <1>2, ChecksumIsSum DEF TypeInv
  <2>2. \A t \in T : Views(p, T)[t] <= counts[t] /\ i.marked[t] = Unset
    BY <1>1, ViewIsNatural DEF Views, TypeInv
  <2> QED
    BY <1>1, <2>1, <2>2 DEF Base
<1>3. \A t \in Tag : i.marked[t] = Unset
  BY <1>1
<1> QED
  BY <1>1, <1>2, <1>3 DEF ItemOK

LEMMA HistoryInit == Init => HistoryInv
<1> SUFFICES ASSUME Init PROVE HistoryInv
  OBVIOUS
<1>1. TypeInv
  BY TypeInit
<1>2. ItemsOK
  BY DEF Init, ItemsOK, Idle
<1>3. ChangesWait
  BY DEF Init, ChangesWait, At, Idle
<1> QED
  BY <1>1, <1>2, <1>3 DEF HistoryInv

(* The items that a step leaves alone keep their history right.            *)
LEMMA ItemsKept ==
  ASSUME HistoryInv, TypeInv', Grow, UNCHANGED bin,
         NEW p \in Request, \A q \in Request \ {p} : op'[q] = op[q],
         op'[p].at \in {"validate", "store"} => op'[p].item \in Stored /\ ItemOK(op'[p].item)
  PROVE  ItemsOK'
<1>1. ASSUME NEW c \in Cid, NEW i \in bin[c] PROVE ItemOK(i)'
  <2>1. i \in Stored /\ ItemOK(i)
    BY TypeParts DEF HistoryInv, ItemsOK
  <2> QED
    BY <2>1, ItemKept DEF HistoryInv
<1>2. ASSUME NEW q \in Request, NEW i, i = op'[q].item, op'[q].at \in {"validate", "store"}
      PROVE  ItemOK(i)'
  <2>1. i \in Stored /\ ItemOK(i)
    <3>1. CASE q = p
      BY <1>2, <3>1
    <3>2. CASE q # p
      <4>1. op'[q] = op[q] /\ op[q] \in CallOp
        BY <3>2, TypeParts DEF HistoryInv
      <4>2. op[q].item \in Stored
        BY <1>2, <4>1, OpKinds DEF ReadOp, WriteOp
      <4> QED
        BY <1>2, <4>1, <4>2 DEF HistoryInv, ItemsOK
    <3> QED
      BY <3>1, <3>2
  <2> QED
    BY <2>1, ItemKept DEF HistoryInv
<1> QED
  BY <1>1, <1>2 DEF ItemsOK

LEMMA HistoryRead ==
  ASSUME HistoryInv, NEW p \in Request, (\E c \in Cid : GetRow(p, c)) \/ Validate(p)
  PROVE  HistoryInv'
<1>1. TypeInv' /\ Grow
  BY TypeRead DEF HistoryInv
<1>2. UNCHANGED <<bin, delayed, tx, changed>>
  BY DEF GetRow, Validate, shared, statics
<1>3. PICK o \in CallOp :
        /\ Do(p, o) /\ o.at # "merge"
        /\ o.at \in {"validate", "store"} => o.item \in Stored /\ ItemOK(o.item)
  <2>1. ASSUME NEW c \in Cid, GetRow(p, c)
        PROVE  \E o \in CallOp :
                 /\ Do(p, o) /\ o.at # "merge"
                 /\ o.at \in {"validate", "store"} => o.item \in Stored /\ ItemOK(o.item)
    <3>1. PICK i \in bin[c] : Do(p, [at |-> "validate", item |-> i])
      BY <2>1 DEF GetRow
    <3>2. i \in Stored /\ ItemOK(i)
      BY TypeParts DEF HistoryInv, ItemsOK
    <3>3. [at |-> "validate", item |-> i] \in CallOp
      BY <3>2 DEF CallOp, ReadOp
    <3> QED
      BY <3>1, <3>2, <3>3
  <2>2. CASE Validate(p)
    BY <2>2, TypeParts DEF Validate, Idle, HistoryInv
  <2> QED
    BY <2>1, <2>2
<1>4. op'[p] = o /\ \A q \in Request \ {p} : op'[q] = op[q]
  BY <1>3, DoOp DEF HistoryInv
<1>5. ItemsOK'
  BY <1>1, <1>2, <1>3, <1>4, ItemsKept
<1>6. ChangesWait'
  BY <1>2, <1>3, <1>4 DEF HistoryInv, ChangesWait, At
<1> QED
  BY <1>1, <1>5, <1>6 DEF HistoryInv

LEMMA HistoryWrite ==
  ASSUME HistoryInv, NEW p \in Request, NEW c \in Cid, NEW T \in ItemTags,
         CurrentChecksum(p, c, T)
  PROVE  HistoryInv'
<1>1. TypeInv' /\ Grow
  BY TypeWrite DEF HistoryInv
<1>2. UNCHANGED <<bin, delayed, tx, changed>>
  BY DEF CurrentChecksum, shared
<1>3. T \in SUBSET Tag /\ IsFiniteSet(T)
  BY ParametersAssumption
<1>4. PICK o \in CallOp :
        /\ Do(p, o) /\ o.at # "merge"
        /\ o.at \in {"validate", "store"} => o.item \in Stored /\ ItemOK(o.item)
  <2>1. CASE T \intersect delayed[p] # {}
    <3> DEFINE i == NewItem(p, T, Invalid)
    <3>1. i \in Stored /\ ItemOK(i)
      BY <1>3, NewItemStored, ItemNew DEF HistoryInv, Invalid
    <3> HIDE DEF i
    <3>2. Idle \in CallOp /\ [at |-> "store", cid |-> c, item |-> i] \in CallOp
      BY <3>1 DEF CallOp, WriteOp
    <3>3. Do(p, Idle) \/ Do(p, [at |-> "store", cid |-> c, item |-> i])
      BY <2>1 DEF CurrentChecksum, NewItem, i
    <3> QED
      BY <3>1, <3>2, <3>3 DEF Idle
  <2>2. CASE T \intersect delayed[p] = {}
    <3> DEFINE sum == Checksum(p, T)
               i == NewItem(p, T, sum)
    <3>1. sum \in Int
      BY <1>3, ChecksumIsNatural DEF HistoryInv, TypeInv
    <3>2. T \intersect changed[p] = {}
      BY <2>2 DEF HistoryInv, ChangesWait
    <3>3. i \in Stored
      BY <1>3, <3>1, NewItemStored
    <3>4. ItemOK(i)
      BY <1>3, <3>1, <3>2, ItemNew DEF HistoryInv
    <3> HIDE DEF i
    <3>5. [at |-> "store", cid |-> c, item |-> i] \in CallOp
      BY <3>3 DEF CallOp, WriteOp
    <3>6. Do(p, [at |-> "store", cid |-> c, item |-> i])
      BY <2>2 DEF CurrentChecksum, NewItem, i
    <3> QED
      BY <3>3, <3>4, <3>5, <3>6
  <2> QED
    BY <2>1, <2>2
<1>5. op'[p] = o /\ \A q \in Request \ {p} : op'[q] = op[q]
  BY <1>4, DoOp DEF HistoryInv
<1>6. ItemsOK'
  BY <1>1, <1>2, <1>4, <1>5, ItemsKept
<1>7. ChangesWait'
  BY <1>2, <1>4, <1>5 DEF HistoryInv, ChangesWait, At
<1> QED
  BY <1>1, <1>6, <1>7 DEF HistoryInv

(* The items in progress keep their history right when a step leaves or    *)
(* ends the calls of the requests.                                         *)
LEMMA CallsKept ==
  ASSUME HistoryInv, TypeInv', Grow,
         NEW p \in Request, \A q \in Request \ {p} : op'[q] = op[q],
         op'[p].at \in {"idle", "merge"}
  PROVE  \A q \in Request : \A i :
           op'[q].at \in {"validate", "store"} /\ i = op'[q].item => ItemOK(i)'
<1> SUFFICES ASSUME NEW q \in Request, NEW i,
                    op'[q].at \in {"validate", "store"}, i = op'[q].item
             PROVE  ItemOK(i)'
  OBVIOUS
<1>1. op'[q] = op[q] /\ op[q] \in CallOp
  BY TypeParts DEF HistoryInv
<1>2. i \in Stored /\ ItemOK(i)
  BY <1>1, OpKinds DEF ReadOp, WriteOp, HistoryInv, ItemsOK
<1> QED
  BY <1>2, ItemKept DEF HistoryInv

LEMMA HistoryStore ==
  ASSUME HistoryInv, NEW p \in Request, Store(p)
  PROVE  HistoryInv'
<1>1. TypeInv' /\ Grow
  BY TypeWrite DEF HistoryInv
<1>2. /\ UNCHANGED <<delayed, tx, changed>>
      /\ op'[p] = Idle /\ \A q \in Request \ {p} : op'[q] = op[q]
  BY TypeParts, DoOp DEF Store, statics, HistoryInv
<1>3. op[p] \in WriteOp /\ ItemOK(op[p].item)
  BY TypeParts, OpKinds DEF Store, At, HistoryInv, ItemsOK
<1>4. ASSUME NEW c \in Cid, NEW i \in bin'[c] PROVE ItemOK(i)'
  <2>1. i \in bin[c] \/ i = op[p].item
    BY <1>3, TypeParts DEF Store, WriteOp, HistoryInv
  <2>2. i \in Stored /\ ItemOK(i)
    BY <1>3, <2>1, TypeParts DEF HistoryInv, ItemsOK, WriteOp
  <2> QED
    BY <1>1, <2>2, ItemKept DEF HistoryInv
<1>5. ItemsOK'
  BY <1>1, <1>2, <1>4, CallsKept DEF ItemsOK, Idle
<1>6. ChangesWait'
  BY <1>2 DEF HistoryInv, ChangesWait, At, Idle
<1> QED
  BY <1>1, <1>5, <1>6 DEF HistoryInv

(* Without a repeated invalidation a call marks nothing: what takes effect *)
(* is the merge.                                                           *)
LEMMA HistoryInvalidate ==
  ASSUME HistoryInv, ~Repeats, NEW p \in Request, NEW T \in SUBSET Tag, InvalidateTags(p, T)
  PROVE  HistoryInv'
<1>1. TypeInv' /\ Grow
  BY TypeInvalidate DEF HistoryInv
<1>2. T \ invalidated[p] = T
  BY DEF InvalidateTags
<1>3. PICK o \in CallOp : /\ op' = [op EXCEPT ![p] = o]
                          /\ o.at \in {"idle", "merge"} /\ (o.at = "merge" => tx[p] = "none")
  <2>1. Idle \in CallOp /\ [at |-> "merge", todo |-> T] \in CallOp
    BY DEF CallOp, MergeOp
  <2>2. CASE InTransaction(p)
    <3>1. op' = [op EXCEPT ![p] = op[p]] /\ op[p] = Idle
      BY <2>2, TypeParts, OpKinds DEF InvalidateTags, At, HistoryInv
    <3> QED
      BY <2>1, <3>1 DEF Idle
  <2>3. CASE ~InTransaction(p)
    <3>1. tx[p] = "none"
      BY <2>3, TypeParts DEF InTransaction, HistoryInv
    <3> QED
      BY <1>2, <2>1, <2>3, <3>1 DEF InvalidateTags, Do, Idle
  <2> QED
    BY <2>2, <2>3
<1>4. op'[p] = o /\ \A q \in Request \ {p} : op'[q] = op[q]
  BY <1>3, TypeParts DEF HistoryInv
<1>5. ASSUME NEW c \in Cid, NEW j \in bin'[c] PROVE ItemOK(j)'
  <2>1. CASE UNCHANGED bin
    <3>1. j \in Stored /\ ItemOK(j)
      BY <2>1, TypeParts DEF HistoryInv, ItemsOK
    <3> QED
      BY <1>1, <3>1, ItemKept DEF HistoryInv
  <2>2. CASE Mark(T \ T, counts)
    <3>1. counts \in [Tag -> Nat] /\ T \ T \in SUBSET Tag /\ T \ T = {}
      BY TypeParts DEF HistoryInv
    <3>2. PICK i \in bin[c] : j = Marked(i, {}, counts)
      BY <2>2, <3>1, MarkKeeps DEF HistoryInv
    <3>3. i \in Stored /\ ItemOK(i)
      BY TypeParts DEF HistoryInv, ItemsOK
    <3>4. /\ j \in Stored /\ j.tags = i.tags /\ j.checksum = i.checksum /\ j.late = i.late
          /\ j.by = i.by /\ \A t \in Tag : j.marked[t] = i.marked[t]
      BY <3>1, <3>2, <3>3, MarkedItem
    <3> QED
      BY <1>1, <3>3, <3>4, ItemStep DEF HistoryInv
  <2> QED
    BY <1>2, <2>1, <2>2 DEF InvalidateTags
<1>6. ItemsOK'
  BY <1>1, <1>3, <1>4, <1>5, CallsKept DEF ItemsOK
<1>7. ChangesWait'
  <2>1. UNCHANGED tx
    BY DEF InvalidateTags
  <2>2. ASSUME NEW q \in Request
        PROVE  changed'[q] \subseteq IF tx[q] = "open" THEN delayed'[q] ELSE {}
    <3>1. CASE q = p /\ tx[p] = "open"
      BY <1>2, <3>1, TypeParts DEF InvalidateTags, InTransaction, HistoryInv, ChangesWait
    <3>2. CASE ~(q = p /\ tx[p] = "open")
      BY <3>2, TypeParts DEF InvalidateTags, InTransaction, HistoryInv, ChangesWait
    <3> QED
      BY <3>1, <3>2
  <2> QED
    BY <1>3, <1>4, <2>1, <2>2 DEF HistoryInv, ChangesWait, At
<1> QED
  BY <1>1, <1>6, <1>7 DEF HistoryInv

(* The merge marks the items at a count the table did not have before.     *)
LEMMA HistoryMerge ==
  ASSUME HistoryInv, NEW p \in Request, NEW t \in Tag, Merge(p, t)
  PROVE  HistoryInv'
<1>1. TypeInv' /\ Grow
  BY TypeMerge DEF HistoryInv
<1>2. /\ counts' = OneMore(t) /\ OneMore(t) \in [Tag -> Nat]
      /\ counts'[t] = counts[t] + 1 /\ counts[t] \in Nat
  BY TypeParts DEF Merge, OneMore, HistoryInv
<1>3. PICK o \in CallOp : Do(p, o) /\ o.at \in {"idle", "merge"}
  <2>1. op[p] \in MergeOp
    BY TypeParts, OpKinds DEF Merge, At, HistoryInv
  <2>2. [op[p] EXCEPT !.todo = op[p].todo \ {t}] \in MergeOp
    BY <2>1 DEF MergeOp
  <2>3. Idle \in CallOp /\ [op[p] EXCEPT !.todo = op[p].todo \ {t}] \in CallOp
    BY <2>2 DEF CallOp
  <2>4. /\ [op[p] EXCEPT !.todo = op[p].todo \ {t}].at = "merge"
        /\ Idle.at = "idle"
    BY <2>2 DEF MergeOp, Idle
  <2> QED
    BY <2>3, <2>4 DEF Merge
<1>4. op'[p] = o /\ \A q \in Request \ {p} : op'[q] = op[q]
  BY <1>3, DoOp DEF HistoryInv
<1>5. ASSUME NEW c \in Cid, NEW j \in bin'[c] PROVE ItemOK(j)'
  <2>1. PICK i \in bin[c] : j = Marked(i, {t}, counts')
    <3>1. Mark({t}, OneMore(t)) /\ {t} \in SUBSET Tag
      BY DEF Merge
    <3> QED
      BY <1>2, <3>1, MarkKeeps DEF HistoryInv
  <2>2. i \in Stored /\ ItemOK(i)
    BY TypeParts DEF HistoryInv, ItemsOK
  <2>3. /\ j \in Stored /\ j.tags = i.tags /\ j.checksum = i.checksum /\ j.late = i.late
        /\ j.by = i.by
        /\ \A u \in Tag : j.marked[u] = IF u \in {t} \intersect i.tags
                                        THEN counts'[u] ELSE i.marked[u]
    <3>1. counts' \in [Tag -> Nat] /\ {t} \in SUBSET Tag
      BY <1>2
    <3> QED
      BY <2>1, <2>2, <3>1, MarkedItem
  <2>4. \A u \in Tag : \/ j.marked[u] = i.marked[u]
                       \/ u \in i.tags /\ j.marked[u] = counts'[u] /\ counts[u] < counts'[u]
    BY <1>2, <2>3
  <2> QED
    BY <1>1, <2>2, <2>3, <2>4, ItemStep DEF HistoryInv
<1>6. ItemsOK'
  BY <1>1, <1>3, <1>4, <1>5, CallsKept DEF ItemsOK
<1>7. ChangesWait'
  <2>1. tx[p] = "none" /\ UNCHANGED <<tx, changed>>
    BY DEF Merge, HistoryInv, ChangesWait
  <2>2. \A q \in Request \ {p} : delayed'[q] = delayed[q]
    BY TypeParts DEF Merge, HistoryInv
  <2> QED
    BY <1>3, <1>4, <2>1, <2>2 DEF HistoryInv, ChangesWait, At
<1> QED
  BY <1>1, <1>6, <1>7 DEF HistoryInv

(* What a transaction has changed waits, so that a commit marks nothing:   *)
(* the merges that follow do.                                              *)
LEMMA HistoryTransaction ==
  ASSUME HistoryInv, NEW p \in Request, StartTransaction(p) \/ Commit(p) \/ RollBack(p)
  PROVE  HistoryInv'
<1>1. TypeInv' /\ Grow
  BY TypeTransaction DEF HistoryInv
<1>2. PICK o \in CallOp : /\ op' = [op EXCEPT ![p] = o]
                          /\ o.at \in {"idle", "merge"} /\ (o.at = "merge" => tx'[p] = "none")
  <2>1. Idle \in CallOp /\ [at |-> "merge", todo |-> delayed[p]] \in CallOp
    BY TypeParts DEF CallOp, MergeOp, HistoryInv
  <2>2. CASE StartTransaction(p) \/ RollBack(p)
    <3>1. op' = [op EXCEPT ![p] = op[p]] /\ op[p] = Idle
      BY <2>2, TypeParts, OpKinds DEF StartTransaction, RollBack, At, HistoryInv
    <3> QED
      BY <2>1, <3>1 DEF Idle
  <2>3. CASE Commit(p)
    <3>1. tx'[p] = "none"
      BY <2>3, TypeParts DEF Commit, HistoryInv
    <3> QED
      BY <2>1, <2>3, <3>1 DEF Commit, Do, Idle
  <2> QED
    BY <2>2, <2>3
<1>3. op'[p] = o /\ \A q \in Request \ {p} : op'[q] = op[q]
  BY <1>2, TypeParts DEF HistoryInv
<1>4. ASSUME NEW c \in Cid, NEW j \in bin'[c] PROVE ItemOK(j)'
  <2>1. CASE UNCHANGED bin
    <3>1. j \in Stored /\ ItemOK(j)
      BY <2>1, TypeParts DEF HistoryInv, ItemsOK
    <3> QED
      BY <1>1, <3>1, ItemKept DEF HistoryInv
  <2>2. CASE Commit(p)
    <3>1. changed[p] \ delayed[p] = {}
      BY <2>2 DEF Commit, HistoryInv, ChangesWait
    <3>2. counts \in [Tag -> Nat] /\ {} \in SUBSET Tag /\ Mark({}, counts)
      BY <2>2, <3>1, TypeParts DEF Commit, HistoryInv
    <3>3. PICK i \in bin[c] : j = Marked(i, {}, counts)
      BY <3>2, MarkKeeps DEF HistoryInv
    <3>4. i \in Stored /\ ItemOK(i)
      BY TypeParts DEF HistoryInv, ItemsOK
    <3>5. /\ j \in Stored /\ j.tags = i.tags /\ j.checksum = i.checksum /\ j.late = i.late
          /\ j.by = i.by /\ \A t \in Tag : j.marked[t] = i.marked[t]
      BY <3>2, <3>3, <3>4, MarkedItem
    <3> QED
      BY <1>1, <3>4, <3>5, ItemStep DEF HistoryInv
  <2> QED
    BY <2>1, <2>2 DEF StartTransaction, RollBack, shared
<1>5. ItemsOK'
  BY <1>1, <1>2, <1>3, <1>4, CallsKept DEF ItemsOK
<1>6. ChangesWait'
  <2>1. \A q \in Request \ {p} : /\ tx'[q] = tx[q] /\ changed'[q] = changed[q]
                                 /\ delayed'[q] = delayed[q]
    BY TypeParts DEF StartTransaction, Commit, RollBack, statics, HistoryInv
  <2>2. changed'[p] = {}
    BY TypeParts DEF StartTransaction, Commit, RollBack, HistoryInv, ChangesWait
  <2> QED
    BY <1>2, <1>3, <2>1, <2>2 DEF HistoryInv, ChangesWait, At
<1> QED
  BY <1>1, <1>5, <1>6 DEF HistoryInv

(* A new request goes by the counts of the table, which have passed those  *)
(* of the marked items.                                                    *)
LEMMA HistoryNewRequest ==
  ASSUME HistoryInv, NEW p \in Request, NewRequest(p)
  PROVE  HistoryInv'
<1>1. TypeInv' /\ Grow /\ \A t \in Tag : View(p, t)' = counts[t]
  BY TypeNewRequest DEF HistoryInv
<1>2. op'[p] = Idle /\ \A q \in Request \ {p} : op'[q] = op[q]
  BY TypeParts, DoOp DEF NewRequest, HistoryInv
<1>3. ASSUME NEW c \in Cid, NEW j \in bin'[c] PROVE ItemOK(j)'
  <2>1. PICK i \in bin[c] : j = Later(i, p)
    BY LaterKeeps DEF HistoryInv
  <2>2. i \in Stored /\ ItemOK(i)
    BY TypeParts DEF HistoryInv, ItemsOK
  <2>3. /\ j \in Stored /\ j.tags = i.tags /\ j.checksum = i.checksum
        /\ j.marked = i.marked /\ j.by = i.by /\ j.late \subseteq i.late \union {p}
        /\ j.late # i.late => \E t \in Tag : i.marked[t] # Unset
    BY <2>1, <2>2, LaterItem
  <2>4. \A q \in j.late : \/ q \in i.late
                          \/ /\ \A t \in Tag : View(q, t)' = counts[t]
                             /\ \E t \in Tag : i.marked[t] # Unset
    BY <1>1, <2>3
  <2> QED
    BY <1>1, <2>2, <2>3, <2>4, ItemStep DEF HistoryInv
<1>4. ItemsOK'
  BY <1>1, <1>2, <1>3, CallsKept DEF ItemsOK, Idle
<1>5. ChangesWait'
  <2>1. \A q \in Request \ {p} : /\ tx'[q] = tx[q] /\ changed'[q] = changed[q]
                                 /\ delayed'[q] = delayed[q]
    BY TypeParts DEF NewRequest, HistoryInv
  <2>2. changed'[p] = {}
    BY TypeParts DEF NewRequest, HistoryInv
  <2> QED
    BY <1>2, <2>1, <2>2 DEF HistoryInv, ChangesWait, At, Idle
<1> QED
  BY <1>1, <1>4, <1>5 DEF HistoryInv

LEMMA HistoryStep ==
  ASSUME HistoryInv, ~Repeats, [Next]_vars
  PROVE  HistoryInv'
<1>1. ASSUME NEW p \in Request, NEW T \in SUBSET Tag \ {{}}, InvalidateTags(p, T)
      PROVE  HistoryInv'
  BY <1>1, HistoryInvalidate
<1>2. ASSUME NEW p \in Request, NEW t \in Tag, Merge(p, t) PROVE HistoryInv'
  BY <1>2, HistoryMerge
<1>3. CASE UNCHANGED vars
  <2>1. TypeInv' /\ Grow
    BY <1>3, TypeStep DEF HistoryInv
  <2>2. UNCHANGED <<bin, delayed, tx, op, changed>>
    BY <1>3 DEF vars
  <2>3. ASSUME NEW c \in Cid, NEW i \in bin'[c] PROVE ItemOK(i)'
    <3>1. i \in Stored /\ ItemOK(i)
      BY <2>2, TypeParts DEF HistoryInv, ItemsOK
    <3> QED
      BY <2>1, <3>1, ItemKept DEF HistoryInv
  <2>4. ASSUME NEW q \in Request, NEW i, op'[q].at \in {"validate", "store"}, i = op'[q].item
        PROVE  ItemOK(i)'
    <3>1. op[q] \in CallOp /\ op'[q] = op[q]
      BY <2>2, TypeParts DEF HistoryInv
    <3>2. i \in Stored /\ ItemOK(i)
      BY <2>4, <3>1, OpKinds DEF ReadOp, WriteOp, HistoryInv, ItemsOK
    <3> QED
      BY <2>1, <3>2, ItemKept DEF HistoryInv
  <2>5. ItemsOK'
    BY <2>3, <2>4 DEF ItemsOK
  <2>6. ChangesWait'
    BY <2>2 DEF HistoryInv, ChangesWait, At
  <2> QED
    BY <2>1, <2>5, <2>6 DEF HistoryInv
<1>4. ASSUME NEW p \in Request, NEW c \in Cid, NEW T \in ItemTags, CurrentChecksum(p, c, T)
      PROVE  HistoryInv'
  BY <1>4, HistoryWrite
<1> QED
  BY <1>1, <1>2, <1>3, <1>4, HistoryRead, HistoryStore, HistoryTransaction,
     HistoryNewRequest DEF Next

(* An item that is accepted has a sum for its checksum, and not a smaller  *)
(* one than the request finds.                                             *)
LEMMA AcceptedItem ==
  ASSUME HistoryInv, NEW p \in Request, NEW i \in InReach(p), IsValid(p, i)
  PROVE  p \notin i.late /\ i.by = {}
<1>1. i \in Stored /\ ItemOK(i)
  <2>1. CASE \E c \in Cid : i \in bin[c]
    BY <2>1, TypeParts DEF HistoryInv, ItemsOK
  <2>2. CASE At(p, "validate") /\ i = op[p].item
    <3>1. op[p] \in ReadOp
      BY <2>2, TypeParts, OpKinds DEF At, HistoryInv
    <3>2. i \in Stored
      BY <2>2, <3>1 DEF ReadOp
    <3>3. ItemOK(i)
      BY <2>2 DEF At, HistoryInv, ItemsOK
    <3> QED
      BY <3>2, <3>3
  <2>3. \/ \E c \in Cid : i \in bin[c]
        \/ At(p, "validate") /\ i = op[p].item
    BY DEF InReach
  <2> QED
    BY <2>1, <2>2, <2>3
<1> DEFINE T == i.tags
<1>2. T \in SUBSET Tag /\ IsFiniteSet(T)
  BY <1>1 DEF Stored, Item
<1>3. TypeOK /\ i.checksum = Checksum(p, T)
  BY DEF HistoryInv, TypeInv, IsValid
<1>4. i.checksum # Invalid
  BY <1>2, <1>3, ChecksumIsNatural DEF Invalid
<1>5. i.by = {}
  BY <1>1, <1>4 DEF ItemOK
<1>6. ASSUME p \in i.late PROVE FALSE
  <2>1. PICK b : Base(i, b)
    BY <1>1, <1>4 DEF ItemOK
  <2>2. PICK f : IsSum(f, b, T) /\ f[T] = i.checksum
    BY <2>1 DEF Base
  <2>3. Views(p, T) \in [T -> Nat]
    BY <1>2, <1>3, ChecksumIsSum
  <2>4. PICK g : IsSum(g, Views(p, T), T) /\ Checksum(p, T) = g[T]
    BY <1>2, <1>3, ChecksumIsSum
  <2>5. b \in [T -> Nat] /\ \A t \in T : b[t] <= Views(p, T)[t]
    BY <1>6, <2>1 DEF Base, Views
  <2>6. PICK u \in T : b[u] < Views(p, T)[u]
    BY <1>6, <2>1 DEF Base, Views
  <2>7. f[T] < g[T]
    BY <1>2, <2>2, <2>3, <2>4, <2>5, <2>6, SumGrows
  <2>8. g[T] \in Nat
    BY <1>2, <2>3, <2>4, SumIsNatural
  <2> QED
    BY <1>3, <2>2, <2>4, <2>7, <2>8
<1> QED
  BY <1>5, <1>6

(* get() never accepts an item that an invalidation had reached before the *)
(* request began, however the queries of the requests that read, store and *)
(* invalidate interleave: the sum that isValid() compares has grown since, *)
(* for any tags and any number of them.                                    *)
THEOREM StaleItemsRefused ==
  ASSUME ~Repeats
  PROVE  Spec => []StaleNeverServed
<1>1. Init => HistoryInv
  BY HistoryInit
<1>2. HistoryInv /\ [Next]_vars => HistoryInv'
  BY HistoryStep
<1>3. HistoryInv => StaleNeverServed
  BY AcceptedItem DEF StaleNeverServed
<1> QED
  BY <1>1, <1>2, <1>3, PTL DEF Spec

(* get() never accepts an item that was stored with a tag its request had  *)
(* invalidated in a transaction not yet committed, also after the          *)
(* transaction was rolled back or its request died.                        *)
THEOREM UncommittedRefused ==
  ASSUME ~Repeats
  PROVE  Spec => []UncommittedNeverServed
<1>1. Init => HistoryInv
  BY HistoryInit
<1>2. HistoryInv /\ [Next]_vars => HistoryInv'
  BY HistoryStep
<1>3. HistoryInv => UncommittedNeverServed
  BY AcceptedItem DEF UncommittedNeverServed
<1> QED
  BY <1>1, <1>2, <1>3, PTL DEF Spec
=============================================================================

-------------------------- MODULE TableDrag_proofs --------------------------
(***************************************************************************)
(* Proofs about TableDrag, for any number of rows.  A table during a move  *)
(* is a group of rows, put in at some place between the other rows.  The   *)
(* other rows stay as they are for the whole move: only the place of the   *)
(* group and its indentation change.                                       *)
(***************************************************************************)
EXTENDS TableDrag, SequenceTheorems, FiniteSetTheorems, WellFoundedInduction, TLAPS

-----------------------------------------------------------------------------
(* Least and greatest numbers.                                             *)

LEMMA MinIs ==
  ASSUME NEW I, I \subseteq Nat, I # {}
  PROVE  Min(I) \in I /\ \A j \in I : Min(I) <= j
<1>1. PICK k \in I : \A j \in I : ~ (<<j, k>> \in OpToRel(<, Nat))
  BY NatLessThanWellFounded, WFMin
<1>2. \A j \in I : ~ (j < k)
  BY <1>1, Zenon DEF OpToRel
<1>3. \A j \in I : k =< j
  BY <1>2
<1> QED
  BY <1>3 DEF Min

LEMMA MaxIs ==
  ASSUME NEW n \in Nat, NEW I, I \subseteq 0..n, I # {}
  PROVE  Max(I) \in I /\ \A j \in I : j <= Max(I)
<1> DEFINE D == {k \in Nat : n - k \in I}
<1>1. D # {} /\ D \subseteq Nat
  <2>1. PICK i \in I : TRUE
    OBVIOUS
  <2>2. n - i \in D
    BY <2>1
  <2> QED
    BY <2>2
<1>2. PICK k \in D : \A j \in D : k <= j
  BY <1>1, MinIs
<1>3. \A j \in I : n - j \in D /\ j <= n - k
  <2>1. \A j \in I : n - j \in D
    OBVIOUS
  <2> QED
    BY <1>2, <2>1
<1>4. \E i \in I : \A j \in I : i >= j
  BY <1>3
<1> QED
  BY <1>4 DEF Max

LEMMA OfTwo ==
  ASSUME NEW a \in Int, NEW b \in Int
  PROVE  /\ Min({a, b}) = IF a <= b THEN a ELSE b
         /\ Max({a, b}) = IF a >= b THEN a ELSE b
BY DEF Min, Max

-----------------------------------------------------------------------------
(* A group put into the other rows after the k-th of them.                 *)

Insert(os, g, k) == SubSeq(os, 1, k) \o g \o SubSeq(os, k + 1, Len(os))

IsOrder(o) ==
  o \in Seq(Row) /\ Len(o) = Len(Rows) /\ IsInjective(o) /\ ToSet(o) = Row

(* The group and the other rows, all rows once.                            *)
Parts(os, g) ==
  /\ os \in Seq(Row) /\ g \in Seq(Row) /\ Len(os) + Len(g) = Len(Rows)
  /\ IsInjective(os) /\ IsInjective(g)
  /\ \A i \in 1..Len(os), j \in 1..Len(g) : os[i] # g[j]
  /\ \A r \in Row : \/ \E i \in 1..Len(os) : os[i] = r
                    \/ \E j \in 1..Len(g) : g[j] = r

Inserted(os, g, k, o) ==
  /\ o \in Seq(Row) /\ Len(o) = Len(os) + Len(g)
  /\ \A j \in 1..k : o[j] = os[j]
  /\ \A j \in 1..Len(g) : o[k + j] = g[j]
  /\ \A j \in (k + 1)..Len(os) : o[Len(g) + j] = os[j]

(* Where the rows are after a group is put in.                             *)
LEMMA InsertIs ==
  ASSUME NEW os \in Seq(Row), NEW g \in Seq(Row), NEW k \in 0..Len(os),
         NEW o, o = Insert(os, g, k)
  PROVE  Inserted(os, g, k, o)
<1> DEFINE a == SubSeq(os, 1, k)
           b == SubSeq(os, k + 1, Len(os))
           c == a \o g
<1>1. Len(os) \in Nat /\ Len(g) \in Nat /\ k \in Nat
  OBVIOUS
<1>2. a \in Seq(Row) /\ Len(a) = k /\ \A j \in 1..k : a[j] = os[j]
  BY <1>1
<1>3. /\ b \in Seq(Row) /\ Len(b) = Len(os) - k
      /\ \A j \in 1..(Len(os) - k) : b[j] = os[k + j]
  BY <1>1
<1> HIDE DEF a, b
<1>4. /\ c \in Seq(Row) /\ Len(c) = k + Len(g)
      /\ \A j \in 1..(k + Len(g)) : c[j] = IF j <= k THEN a[j] ELSE g[j - k]
  BY <1>1, <1>2, ConcatProperties
<1>5. o = c \o b
  BY DEF Insert, a, b
<1> HIDE DEF c
<1>6. /\ o \in Seq(Row) /\ Len(o) = Len(os) + Len(g)
      /\ \A j \in 1..(Len(os) + Len(g)) :
           o[j] = IF j <= k + Len(g) THEN c[j] ELSE b[j - (k + Len(g))]
  <2>1. /\ o \in Seq(Row) /\ Len(o) = Len(c) + Len(b)
        /\ \A j \in 1..(Len(c) + Len(b)) : o[j] = IF j <= Len(c) THEN c[j] ELSE b[j - Len(c)]
    <3>1. /\ c \o b \in Seq(Row) /\ Len(c \o b) = Len(c) + Len(b)
          /\ \A j \in 1..(Len(c) + Len(b)) :
               (c \o b)[j] = IF j <= Len(c) THEN c[j] ELSE b[j - Len(c)]
      BY <1>3, <1>4, ConcatProperties
    <3> QED
      BY <1>5, <3>1
  <2>2. Len(c) + Len(b) = Len(os) + Len(g)
    BY <1>1, <1>3, <1>4
  <2> QED
    BY <1>4, <2>1, <2>2
<1>7. \A j \in 1..k : o[j] = os[j]
  BY <1>1, <1>2, <1>4, <1>6
<1>8. \A j \in 1..Len(g) : o[k + j] = g[j]
  BY <1>1, <1>4, <1>6
<1>9. ASSUME NEW j \in (k + 1)..Len(os) PROVE o[Len(g) + j] = os[j]
  <2>1. /\ Len(g) + j \in 1..(Len(os) + Len(g)) /\ ~ (Len(g) + j <= k + Len(g))
        /\ (Len(g) + j) - (k + Len(g)) = j - k /\ j - k \in 1..(Len(os) - k) /\ k + (j - k) = j
    BY <1>1
  <2> QED
    BY <1>3, <1>6, <2>1
<1> QED
  BY <1>6, <1>7, <1>8, <1>9 DEF Inserted

(* Every place is one of the group or one of the other rows.               *)
InPlace(n, m, k, p) ==
  \/ p \in 1..k
  \/ \E j \in 1..m : p = k + j
  \/ \E j \in (k + 1)..n : p = m + j

(* A place is before the group, in it or after it.                         *)
LEMMA Places3 ==
  ASSUME NEW n \in Nat, NEW m \in Nat, NEW k \in 0..n, NEW p \in 1..(n + m)
  PROVE  InPlace(n, m, k, p)
<1> USE DEF InPlace
<1>1. CASE p <= k
  BY <1>1
<1>2. CASE p > k /\ p <= k + m
  <2>1. p - k \in 1..m /\ p = k + (p - k)
    BY <1>2
  <2> QED
    BY <2>1
<1>3. CASE p > k + m
  <2>1. p - m \in (k + 1)..n /\ p = m + (p - m)
    BY <1>3
  <2> QED
    BY <2>1
<1> QED
  BY <1>1, <1>2, <1>3

(* Putting a group back in gives every row once.                           *)
LEMMA InsertOrder ==
  ASSUME NEW os, NEW g, Parts(os, g), NEW k \in 0..Len(os), NEW o, o = Insert(os, g, k)
  PROVE  IsOrder(o)
<1>1. /\ os \in Seq(Row) /\ g \in Seq(Row) /\ Len(os) \in Nat /\ Len(g) \in Nat
      /\ DOMAIN os = 1..Len(os) /\ DOMAIN g = 1..Len(g)
  BY DEF Parts
<1>2. /\ o \in Seq(Row) /\ Len(o) = Len(os) + Len(g)
      /\ \A j \in 1..k : o[j] = os[j]
      /\ \A j \in 1..Len(g) : o[k + j] = g[j]
      /\ \A j \in (k + 1)..Len(os) : o[Len(g) + j] = os[j]
  <2>1. Inserted(os, g, k, o)
    BY <1>1, InsertIs
  <2> QED
    BY <2>1 DEF Inserted
<1>3. DOMAIN o = 1..(Len(os) + Len(g)) /\ Len(o) = Len(Rows)
  BY <1>2 DEF Parts
<1>4. ASSUME NEW p \in DOMAIN o, NEW q \in DOMAIN o, o[p] = o[q] PROVE p = q
  <2>1. \/ p \in 1..k /\ o[p] = os[p]
        \/ \E j \in 1..Len(g) : p = k + j /\ o[p] = g[j]
        \/ \E j \in (k + 1)..Len(os) : p = Len(g) + j /\ o[p] = os[j]
    <3>1. InPlace(Len(os), Len(g), k, p)
      BY <1>1, <1>3, Places3
    <3> QED
      BY <1>2, <3>1 DEF InPlace
  <2>2. \/ q \in 1..k /\ o[q] = os[q]
        \/ \E j \in 1..Len(g) : q = k + j /\ o[q] = g[j]
        \/ \E j \in (k + 1)..Len(os) : q = Len(g) + j /\ o[q] = os[j]
    <3>1. InPlace(Len(os), Len(g), k, q)
      BY <1>1, <1>3, Places3
    <3> QED
      BY <1>2, <3>1 DEF InPlace
  <2>3. 1..k \subseteq 1..Len(os) /\ (k + 1)..Len(os) \subseteq 1..Len(os)
    BY <1>1
  <2>4. /\ \A i, j \in 1..Len(os) : os[i] = os[j] => i = j
        /\ \A i, j \in 1..Len(g) : g[i] = g[j] => i = j
        /\ \A i \in 1..Len(os), j \in 1..Len(g) : os[i] # g[j]
    BY <1>1 DEF Parts, IsInjective
  <2>5. CASE p \in 1..k /\ o[p] = os[p]
    <3>1. CASE q \in 1..k /\ o[q] = os[q]
      BY <1>4, <2>3, <2>4, <2>5, <3>1
    <3>2. ASSUME NEW j \in 1..Len(g), o[q] = g[j] PROVE FALSE
      BY <1>4, <2>3, <2>4, <2>5, <3>2
    <3>3. ASSUME NEW j \in (k + 1)..Len(os), o[q] = os[j] PROVE FALSE
      <4>1. p = j
        BY <1>4, <2>3, <2>4, <2>5, <3>3
      <4> QED
        BY <1>1, <2>5, <4>1
    <3> QED
      BY <2>2, <3>1, <3>2, <3>3
  <2>6. ASSUME NEW i \in 1..Len(g), p = k + i, o[p] = g[i] PROVE p = q
    <3>1. ASSUME NEW j \in 1..Len(os), o[q] = os[j] PROVE FALSE
      BY <1>4, <2>4, <2>6, <3>1
    <3>2. ASSUME NEW j \in 1..Len(g), q = k + j, o[q] = g[j] PROVE p = q
      <4>1. i = j
        BY <1>4, <2>4, <2>6, <3>2
      <4> QED
        BY <2>6, <3>2, <4>1
    <3> QED
      BY <2>2, <2>3, <3>1, <3>2
  <2>7. ASSUME NEW i \in (k + 1)..Len(os), p = Len(g) + i, o[p] = os[i] PROVE p = q
    <3>1. i \in 1..Len(os)
      BY <2>3
    <3>2. ASSUME q \in 1..k, o[q] = os[q] PROVE FALSE
      <4>1. i = q
        BY <1>4, <2>3, <2>4, <2>7, <3>1, <3>2
      <4> QED
        BY <1>1, <3>2, <4>1
    <3>3. ASSUME NEW j \in 1..Len(g), o[q] = g[j] PROVE FALSE
      BY <1>4, <2>4, <2>7, <3>1, <3>3
    <3>4. ASSUME NEW j \in (k + 1)..Len(os), q = Len(g) + j, o[q] = os[j] PROVE p = q
      <4>1. i = j
        BY <1>4, <2>3, <2>4, <2>7, <3>1, <3>4
      <4> QED
        BY <2>7, <3>4, <4>1
    <3> QED
      BY <2>2, <3>2, <3>3, <3>4
  <2> QED
    BY <2>1, <2>5, <2>6, <2>7
<1>5. ASSUME NEW r \in Row PROVE \E p \in DOMAIN o : o[p] = r
  <2>1. CASE \E i \in 1..Len(os) : os[i] = r
    <3>1. PICK i \in 1..Len(os) : os[i] = r
      BY <2>1
    <3>2. CASE i <= k
      <4>1. i \in 1..k /\ i \in DOMAIN o
        BY <1>1, <1>3, <3>2
      <4> QED
        BY <1>2, <3>1, <4>1
    <3>3. CASE i > k
      <4>1. i \in (k + 1)..Len(os) /\ Len(g) + i \in DOMAIN o
        BY <1>1, <1>3, <3>3
      <4> QED
        BY <1>2, <3>1, <4>1
    <3> QED
      BY <3>2, <3>3
  <2>2. CASE \E j \in 1..Len(g) : g[j] = r
    <3>1. PICK j \in 1..Len(g) : g[j] = r
      BY <2>2
    <3>2. k + j \in DOMAIN o
      BY <1>1, <1>3
    <3> QED
      BY <1>2, <3>1, <3>2
  <2> QED
    BY <2>1, <2>2 DEF Parts
<1>6. \A p \in DOMAIN o : o[p] \in Row
  BY <1>2
<1> QED
  BY <1>2, <1>3, <1>4, <1>5, <1>6 DEF IsOrder, IsInjective, ToSet

(* Rows next to each other.                                                *)
Part(o, a, b, s) ==
  s \in Seq(Row) /\ Len(s) = b - a + 1 /\ \A j \in 1..(b - a + 1) : s[j] = o[a + j - 1]

(* The rows of a part of an order, by their places in it.                  *)
LEMMA PartIs ==
  ASSUME NEW o \in Seq(Row), NEW a \in Int, NEW b \in Int, a >= 1, b <= Len(o), a <= b + 1,
         NEW s, s = SubSeq(o, a, b)
  PROVE  Part(o, a, b, s)
<1>1. Len(o) \in Nat /\ \A i \in 1..Len(o) : o[i] \in Row
  OBVIOUS
<1>2. \A i \in a..b : o[i] \in Row
  BY <1>1
<1>3. /\ SubSeq(o, a, b) \in Seq(Row)
      /\ Len(SubSeq(o, a, b)) = IF a <= b THEN b - a + 1 ELSE 0
      /\ \A i \in 1..(b - a + 1) : SubSeq(o, a, b)[i] = o[a + i - 1]
  BY <1>2, SubSeqProperties
<1> QED
  BY <1>3 DEF Part

(* An order, taken apart again.                                            *)
Outside(o, i, m) == SubSeq(o, 1, i - 1) \o SubSeq(o, i + m, Len(Rows))

(* m rows from place i on, and what is left without them.                  *)
Span(o, i, m) ==
  IsOrder(o) /\ i \in 1..Len(Rows) /\ m \in 1..Len(Rows) /\ i + m <= Len(Rows) + 1

LeftOver(o, i, m, q) ==
  /\ q \in Seq(Row) /\ Len(q) = Len(Rows) - m
  /\ \A j \in 1..(i - 1) : q[j] = o[j]
  /\ \A j \in i..(Len(Rows) - m) : q[j] = o[j + m]

(* The rows outside a span, by their places in the order.                  *)
LEMMA OutsideIs ==
  ASSUME NEW o, NEW i, NEW m, Span(o, i, m), NEW os, os = Outside(o, i, m)
  PROVE  LeftOver(o, i, m, os)
<1> DEFINE n == Len(Rows)
           a == SubSeq(o, 1, i - 1)
           b == SubSeq(o, i + m, n)
<1>1. /\ n \in Nat /\ i \in Nat /\ m \in Nat /\ i >= 1 /\ m >= 1 /\ i + m <= n + 1
      /\ o \in Seq(Row) /\ Len(o) = n
  BY RowsAssumption DEF IsOrder, Span
<1> HIDE DEF n
<1>2. a \in Seq(Row) /\ Len(a) = i - 1 /\ \A j \in 1..(i - 1) : a[j] = o[j]
  BY <1>1
<1>3. /\ b \in Seq(Row) /\ Len(b) = n - (i + m) + 1
      /\ \A j \in 1..(n - (i + m) + 1) : b[j] = o[i + m + j - 1]
  <2>1. i + m \in Int /\ i + m >= 1 /\ n <= Len(o) /\ n \in Int
    BY <1>1
  <2>2. Part(o, i + m, n, b)
    BY <1>1, <2>1, PartIs
  <2> QED
    BY <2>2 DEF Part
<1> HIDE DEF a, b
<1>4. /\ a \o b \in Seq(Row) /\ Len(a \o b) = Len(a) + Len(b)
      /\ \A j \in 1..(Len(a) + Len(b)) :
           (a \o b)[j] = IF j <= Len(a) THEN a[j] ELSE b[j - Len(a)]
  BY <1>2, <1>3, ConcatProperties
<1>5. Len(a) + Len(b) = n - m /\ Len(a) = i - 1
  BY <1>1, <1>2, <1>3
<1>6. os = a \o b
  BY DEF Outside, a, b, n
<1>7. \A j \in 1..(i - 1) : os[j] = o[j]
  BY <1>1, <1>2, <1>4, <1>5, <1>6
<1>8. ASSUME NEW j \in i..(n - m) PROVE os[j] = o[j + m]
  <2>1. /\ j \in 1..(n - m) /\ ~ (j <= i - 1) /\ j - (i - 1) \in 1..(n - (i + m) + 1)
        /\ i + m + (j - (i - 1)) - 1 = j + m
    BY <1>1
  <2> QED
    BY <1>3, <1>4, <1>5, <1>6, <2>1
<1> QED
  BY <1>4, <1>5, <1>6, <1>7, <1>8 DEF n, LeftOver

Split(o, i, m, os, g) ==
  /\ Parts(os, g) /\ o = Insert(os, g, i - 1)
  /\ Len(os) = Len(Rows) - m /\ Len(g) = m
  /\ \A j \in i..(Len(Rows) - m) : os[j] = o[j + m]
  /\ \A j \in 1..m : g[j] = o[i + j - 1]

OneToOne(s, k) == \A p, q \in 1..k : s[p] = s[q] => p = q

(* A list of k different rows is injective.                                *)
LEMMA OneToOneIs ==
  ASSUME NEW s \in Seq(Row), NEW k, Len(s) = k, OneToOne(s, k)
  PROVE  IsInjective(s)
<1>1. DOMAIN s = 1..k
  BY LenProperties
<1> QED
  BY <1>1 DEF OneToOne, IsInjective

(* A span taken out of an order can be put back in where it was.           *)
LEMMA SplitOrder ==
  ASSUME NEW o, NEW i, NEW m, Span(o, i, m), NEW os, os = Outside(o, i, m),
         NEW b, b = i + m - 1, NEW g, g = SubSeq(o, i, b)
  PROVE  Split(o, i, m, os, g)
<1> DEFINE n == Len(Rows)
<1>1. /\ n \in Nat /\ i \in Nat /\ m \in Nat /\ i >= 1 /\ m >= 1 /\ i + m <= n + 1
      /\ o \in Seq(Row) /\ Len(o) = n
  BY RowsAssumption DEF IsOrder, Span
<1> HIDE DEF n
<1>2. g \in Seq(Row) /\ Len(g) = m /\ \A j \in 1..m : g[j] = o[i + j - 1]
  <2>1. i + m - 1 \in Int /\ i + m - 1 <= Len(o) /\ i <= (i + m - 1) + 1 /\ i \in Int
        /\ (i + m - 1) - i + 1 = m
    BY <1>1
  <2>2. Part(o, i, i + m - 1, g)
    BY <1>1, <2>1, PartIs
  <2> QED
    BY <2>1, <2>2 DEF Part
<1>3. /\ os \in Seq(Row) /\ Len(os) = n - m
      /\ \A j \in 1..(i - 1) : os[j] = o[j]
      /\ \A j \in i..(n - m) : os[j] = o[j + m]
  <2>1. LeftOver(o, i, m, os)
    BY OutsideIs
  <2> QED
    BY <2>1 DEF n, LeftOver
<1>4. /\ \A p, q \in 1..n : o[p] = o[q] => p = q
      /\ \A r \in Row : \E p \in 1..n : o[p] = r
  <2>1. IsInjective(o) /\ ToSet(o) = Row
    BY DEF Span, IsOrder
  <2>2. DOMAIN o = 1..n
    BY <1>1, LenProperties
  <2>3. \A p, q \in 1..n : o[p] = o[q] => p = q
    BY <2>1, <2>2 DEF IsInjective
  <2>4. \A r \in Row : \E p \in 1..n : o[p] = r
    BY <2>1, <2>2 DEF ToSet
  <2> QED
    BY <2>3, <2>4
<1>5. /\ \A j \in 1..(n - m) : \/ j \in 1..(i - 1) /\ j \in 1..n
                               \/ j \in i..(n - m) /\ j + m \in 1..n
      /\ \A j \in 1..m : i + j - 1 \in 1..n
  BY <1>1
<1>6. IsInjective(os)
  <2> SUFFICES ASSUME NEW p \in 1..(n - m), NEW q \in 1..(n - m), os[p] = os[q] PROVE p = q
    BY <1>3 DEF IsInjective
  <2>1. CASE p <= i - 1 /\ q <= i - 1
    BY <1>1, <1>3, <1>4, <2>1
  <2>2. CASE p <= i - 1 /\ q > i - 1
    <3>1. q + m \in 1..n /\ p \in 1..n /\ p # q + m /\ os[p] = o[p] /\ os[q] = o[q + m]
      BY <1>1, <1>3, <2>2
    <3> QED
      BY <1>4, <3>1
  <2>3. CASE p > i - 1 /\ q <= i - 1
    <3>1. p + m \in 1..n /\ q \in 1..n /\ q # p + m /\ os[q] = o[q] /\ os[p] = o[p + m]
      BY <1>1, <1>3, <2>3
    <3> QED
      BY <1>4, <3>1
  <2>4. CASE p > i - 1 /\ q > i - 1
    <3>1. p + m \in 1..n /\ q + m \in 1..n /\ os[q] = o[q + m] /\ os[p] = o[p + m]
      BY <1>1, <1>3, <2>4
    <3>2. p + m = q + m
      BY <1>4, <3>1
    <3> QED
      BY <1>1, <3>2
  <2> QED
    BY <1>1, <2>1, <2>2, <2>3, <2>4
<1>7. IsInjective(g)
  <2>1. ASSUME NEW p \in 1..m, NEW q \in 1..m, g[p] = g[q] PROVE p = q
    <3>1. g[p] = o[i + p - 1] /\ g[q] = o[i + q - 1]
      BY <1>2, Zenon
    <3>2. i + p - 1 \in 1..n /\ i + q - 1 \in 1..n
      BY <1>5
    <3>3. i + p - 1 = i + q - 1
      BY <1>4, <2>1, <3>1, <3>2
    <3> QED
      BY <1>1, <3>3
  <2>2. OneToOne(g, m)
    BY <2>1, Zenon DEF OneToOne
  <2> QED
    BY <1>2, <2>2, OneToOneIs, Zenon
<1>8. ASSUME NEW p \in 1..(n - m), NEW q \in 1..m PROVE os[p] # g[q]
  <2>1. CASE p <= i - 1
    <3>1. p \in 1..n /\ p # i + q - 1 /\ os[p] = o[p] /\ g[q] = o[i + q - 1]
      BY <1>1, <1>2, <1>3, <2>1
    <3> QED
      BY <1>4, <1>5, <3>1
  <2>2. CASE p > i - 1
    <3>1. p + m \in 1..n /\ p + m # i + q - 1 /\ os[p] = o[p + m] /\ g[q] = o[i + q - 1]
      BY <1>1, <1>2, <1>3, <2>2
    <3> QED
      BY <1>4, <1>5, <3>1
  <2> QED
    BY <1>1, <2>1, <2>2
<1>9. ASSUME NEW r \in Row
      PROVE  \/ \E j \in 1..(n - m) : os[j] = r
             \/ \E j \in 1..m : g[j] = r
  <2>1. PICK p \in 1..n : o[p] = r
    BY <1>4
  <2>2. CASE p <= i - 1
    <3>1. p \in 1..(n - m) /\ p \in 1..(i - 1)
      BY <1>1, <2>2
    <3> QED
      BY <1>3, <2>1, <3>1
  <2>3. CASE p > i - 1 /\ p <= i + m - 1
    <3>1. p - i + 1 \in 1..m /\ i + (p - i + 1) - 1 = p
      BY <1>1, <2>3
    <3> QED
      BY <1>2, <2>1, <3>1
  <2>4. CASE p > i + m - 1
    <3>1. p - m \in 1..(n - m) /\ p - m \in i..(n - m) /\ (p - m) + m = p
      BY <1>1, <2>4
    <3> QED
      BY <1>3, <2>1, <3>1
  <2>5. p <= i - 1 \/ (p > i - 1 /\ p <= i + m - 1) \/ p > i + m - 1
    BY <1>1
  <2> QED
    BY <2>2, <2>3, <2>4, <2>5
<1>10. Parts(os, g)
  <2>1. Len(os) + Len(g) = n
    BY <1>1, <1>2, <1>3
  <2> QED
    <3>1. \A p \in 1..Len(os), q \in 1..Len(g) : os[p] # g[q]
      BY <1>2, <1>3, <1>8
    <3>2. \A r \in Row : \/ \E p \in 1..Len(os) : os[p] = r
                         \/ \E q \in 1..Len(g) : g[q] = r
      BY <1>2, <1>3, <1>9
    <3> QED
      BY <1>2, <1>3, <1>6, <1>7, <2>1, <3>1, <3>2 DEF Parts, n
<1>11. o = Insert(os, g, i - 1)
  <2>1. PICK q : q = Insert(os, g, i - 1)
    OBVIOUS
  <2>2. i - 1 \in 0..Len(os)
    BY <1>1, <1>3
  <2>3. Inserted(os, g, i - 1, q)
    BY <1>2, <1>3, <2>1, <2>2, InsertIs
  <2>4. q \in Seq(Row) /\ Len(q) = n
    BY <1>1, <1>2, <1>3, <2>3 DEF Inserted
  <2>5. ASSUME NEW p \in 1..n PROVE q[p] = o[p]
    <3>1. CASE p <= i - 1
      BY <1>1, <1>3, <2>3, <3>1 DEF Inserted
    <3>2. CASE p > i - 1 /\ p <= i + m - 1
      <4>1. /\ p - i + 1 \in 1..m /\ i + (p - i + 1) - 1 = p
            /\ (i - 1) + (p - i + 1) = p
        BY <1>1, <3>2
      <4>2. q[(i - 1) + (p - i + 1)] = g[p - i + 1]
        BY <1>2, <2>3, <4>1 DEF Inserted
      <4> QED
        BY <1>2, <4>1, <4>2
    <3>3. CASE p > i + m - 1
      <4>1. /\ p - m \in i..(n - m) /\ (p - m) + m = p
            /\ p - m \in ((i - 1) + 1)..(n - m) /\ m + (p - m) = p
        BY <1>1, <3>3
      <4>2. q[m + (p - m)] = os[p - m]
        BY <1>2, <1>3, <2>3, <4>1 DEF Inserted
      <4> QED
        BY <1>3, <4>1, <4>2
    <3> QED
      BY <1>1, <3>1, <3>2, <3>3
  <2>6. q = o
    BY <1>1, <2>4, <2>5, SeqEqual
  <2> QED
    BY <2>1, <2>6
<1> QED
  BY <1>2, <1>3, <1>10, <1>11 DEF Split, n

(* A row has one place.                                                    *)
LEMMA PlaceIs ==
  ASSUME NEW t, IsOrder(t.order), NEW r \in Row
  PROVE  /\ Place(t, r) \in Places /\ t.order[Place(t, r)] = r
         /\ \A i \in Places : t.order[i] = r => i = Place(t, r)
<1>1. /\ \A p, q \in Places : t.order[p] = t.order[q] => p = q
      /\ \E p \in Places : t.order[p] = r
  BY DEF IsOrder, IsInjective, ToSet, Places
<1> QED
  BY <1>1 DEF Place

-----------------------------------------------------------------------------
(* The group of a row.                                                     *)

(* Row e is the first after r that does not move with it, or the end.      *)
EndOf(t, r, e) ==
  /\ e \in (Place(t, r) + 1)..(Len(Rows) + 1)
  /\ Group(t, r) = SubSeq(t.order, Place(t, r), e - 1)
  /\ \A j \in (Place(t, r) + 1)..(e - 1) :
       t.order[j] \in Draggable /\ t.indent[t.order[j]] > t.indent[r]
  /\ e <= Len(Rows) =>
       t.order[e] \notin Draggable \/ t.indent[t.order[e]] <= t.indent[r]

(* Every group ends somewhere: the set of ends in Group() has a least one. *)
LEMMA GroupEnds ==
  ASSUME NEW t, IsOrder(t.order), t.indent \in [Row -> Int], NEW r \in Row
  PROVE  \E e : EndOf(t, r, e)
<1> DEFINE n == Len(Rows)
           i == Place(t, r)
           ends == {j \in Places : j > i /\ (t.order[j] \notin Draggable \/ t.indent[t.order[j]] <= t.indent[r])}
           I == ends \cup {n + 1}
<1>1. n \in Nat /\ i \in 1..n
  BY PlaceIs, RowsAssumption DEF Places
<1>2. I \subseteq Nat /\ I # {} /\ \A j \in I : j >= i + 1 /\ j <= n + 1
  BY <1>1 DEF Places
<1>3. PICK e : e = Min(I)
  OBVIOUS
<1>4. e \in I /\ \A j \in I : e <= j
  BY <1>2, <1>3, MinIs
<1>5. Group(t, r) = SubSeq(t.order, i, e - 1)
  BY <1>3 DEF Group
<1>6. ASSUME NEW j \in (i + 1)..(e - 1)
      PROVE  t.order[j] \in Draggable /\ t.indent[t.order[j]] > t.indent[r]
  <2>1. j \in Places /\ j > i /\ j \notin I
    BY <1>1, <1>2, <1>4 DEF Places
  <2>2. t.order[j] \in Row
    BY <1>1, <2>1 DEF IsOrder, Places
  <2>3. t.order[j] \in Draggable /\ ~ (t.indent[t.order[j]] <= t.indent[r])
    BY <2>1
  <2> QED
    BY <2>2, <2>3
<1>7. e <= n => t.order[e] \notin Draggable \/ t.indent[t.order[e]] <= t.indent[r]
  BY <1>1, <1>4
<1>8. e \in (i + 1)..(n + 1)
  BY <1>1, <1>2, <1>4
<1> QED
  BY <1>5, <1>6, <1>7, <1>8 DEF EndOf

(* The same in terms of the other rows; st is how the table was sent.      *)
Deeper(st, ind, g) ==
  /\ g # <<>>
  /\ \A j \in 1..Len(g) : g[j] \notin st.fixed
  /\ \A j \in 2..Len(g) : ind[g[j]] > ind[g[1]]

Ends(st, ind, os, g, k) ==
  k < Len(os) => os[k + 1] \in st.fixed \/ ind[os[k + 1]] <= ind[g[1]]

(* A group, and the rows that are not in it.                               *)
LEMMA GroupIs ==
  ASSUME NEW t, IsOrder(t.order), t.indent \in [Row -> Int], NEW r \in Draggable,
         NEW g, g = Group(t, r)
  PROVE  \E os : \E k \in 0..Len(os) :
           /\ Parts(os, g) /\ t.order = Insert(os, g, k) /\ g[1] = r
           /\ Deeper(settings, t.indent, g) /\ Ends(settings, t.indent, os, g, k)
<1>1. r \in Row
  BY DEF Draggable
<1>2. PICK e : EndOf(t, r, e)
  BY <1>1, GroupEnds
<1>3. PICK i : i = Place(t, r)
  OBVIOUS
<1>4. PICK m : m = e - i
  OBVIOUS
<1>5. Len(Rows) \in Nat /\ i \in 1..Len(Rows) /\ t.order[i] = r /\ e \in (i + 1)..(Len(Rows) + 1)
  <2>1. Len(Rows) \in Nat
    BY RowsAssumption
  <2>2. Place(t, r) \in Places /\ t.order[Place(t, r)] = r
    BY <1>1, PlaceIs
  <2>3. e \in (Place(t, r) + 1)..(Len(Rows) + 1)
    BY <1>2 DEF EndOf
  <2> QED
    BY <1>3, <2>1, <2>2, <2>3 DEF Places
<1>6. /\ m \in 1..Len(Rows) /\ i + m <= Len(Rows) + 1 /\ e = i + m
      /\ g = SubSeq(t.order, i, i + m - 1)
  <2>1. m \in 1..Len(Rows) /\ i + m <= Len(Rows) + 1 /\ e = i + m /\ e - 1 = i + m - 1
    BY <1>4, <1>5
  <2>2. g = SubSeq(t.order, i, e - 1)
    BY <1>2, <1>3 DEF EndOf
  <2> QED
    BY <2>1, <2>2
<1>7. PICK os : os = Outside(t.order, i, m)
  OBVIOUS
<1>15. Split(t.order, i, m, os, g)
  <2>1. Span(t.order, i, m)
    BY <1>5, <1>6 DEF Span
  <2>2. PICK b : b = i + m - 1
    OBVIOUS
  <2> QED
    BY <1>6, <1>7, <2>1, <2>2, SplitOrder
<1>8. Parts(os, g) /\ t.order = Insert(os, g, i - 1)
  BY <1>15 DEF Split
<1>9. /\ Len(os) = Len(Rows) - m /\ Len(g) = m
      /\ \A j \in i..(Len(Rows) - m) : os[j] = t.order[j + m]
  BY <1>15 DEF Split
<1>10. \A j \in 1..m : g[j] = t.order[i + j - 1]
  BY <1>15 DEF Split
<1>11. g[1] = r
  BY <1>5, <1>6, <1>10
<1>12. Deeper(settings, t.indent, g)
  <2>1. ASSUME NEW j \in 2..m PROVE g[j] \in Draggable /\ t.indent[g[j]] > t.indent[r]
    <3>1. j \in 1..m /\ i + j - 1 \in (i + 1)..(e - 1)
      BY <1>5, <1>6
    <3>2. \A p \in (i + 1)..(e - 1) : t.order[p] \in Draggable /\ t.indent[t.order[p]] > t.indent[r]
      BY <1>2, <1>3 DEF EndOf
    <3> QED
      BY <1>10, <3>1, <3>2
  <2>2. \A j \in 1..m : j = 1 \/ j \in 2..m
    BY <1>6
  <2>3. \A j \in 1..m : g[j] \in Draggable
    BY <1>11, <2>1, <2>2
  <2>4. g # <<>>
    <3>1. Len(g) # 0
      <4>1. m \in Nat /\ m >= 1
        BY <1>5, <1>6
      <4> QED
        BY <1>9, <4>1
    <3> QED
      BY <3>1
  <2> QED
    BY <1>9, <1>11, <2>1, <2>3, <2>4 DEF Deeper, Draggable
<1>13. Ends(settings, t.indent, os, g, i - 1)
  <2>1. ASSUME i - 1 < Len(os) PROVE os[i] \in settings.fixed \/ t.indent[os[i]] <= t.indent[g[1]]
    <3>1. e <= Len(Rows) /\ i \in i..(Len(Rows) - m) /\ os[i] = t.order[e] /\ e \in 1..Len(Rows)
      BY <1>5, <1>6, <1>9, <2>1
    <3>2. t.order[e] \in Row
      BY <3>1 DEF IsOrder
    <3>3. t.order[e] \notin Draggable \/ t.indent[t.order[e]] <= t.indent[r]
      BY <1>2, <3>1 DEF EndOf
    <3> QED
      BY <1>11, <3>1, <3>2, <3>3 DEF Draggable
  <2>2. (i - 1) + 1 = i
    BY <1>5
  <2> QED
    BY <2>1, <2>2 DEF Ends
<1>14. i - 1 \in 0..Len(os)
  BY <1>5, <1>6, <1>9
<1> QED
  BY <1>8, <1>11, <1>12, <1>13, <1>14

-----------------------------------------------------------------------------
(* A table with a group g between the other rows, after the k-th of them.  *)

At(os, k) == IF k \in 1..Len(os) THEN os[k] ELSE Top

Holds(t, os, g, k) ==
  Parts(os, g) /\ g # <<>> /\ k \in 0..Len(os) /\ t.order = Insert(os, g, k)

(* Where the rows are.                                                     *)
HasRows(t, os, g, k) ==
  /\ Len(Rows) \in Nat /\ Len(os) \in Nat /\ Len(g) \in Nat /\ Len(g) >= 1
  /\ Len(os) + Len(g) = Len(Rows) /\ k \in 0..Len(os)
  /\ \A i \in 1..Len(os) : os[i] \in Row
  /\ \A j \in 1..Len(g) : g[j] \in Row
  /\ \A j \in 1..k : t.order[j] = os[j]
  /\ \A j \in 1..Len(g) : t.order[k + j] = g[j]
  /\ \A j \in (k + 1)..Len(os) : t.order[Len(g) + j] = os[j]

(* A table that holds a group has all rows, each once.                     *)
LEMMA HoldsRows ==
  ASSUME NEW t, NEW os, NEW g, NEW k, Holds(t, os, g, k)
  PROVE  HasRows(t, os, g, k) /\ IsOrder(t.order)
<1>1. PICK o : o = t.order
  OBVIOUS
<1>2. /\ os \in Seq(Row) /\ g \in Seq(Row) /\ Len(os) + Len(g) = Len(Rows)
      /\ k \in 0..Len(os) /\ g # <<>> /\ o = Insert(os, g, k) /\ Parts(os, g)
  BY <1>1 DEF Holds, Parts
<1>3. Inserted(os, g, k, o)
  BY <1>2, InsertIs
<1>4. IsOrder(o)
  BY <1>2, InsertOrder
<1>5. /\ Len(os) \in Nat /\ Len(g) \in Nat /\ Len(g) >= 1
      /\ \A i \in 1..Len(os) : os[i] \in Row
      /\ \A j \in 1..Len(g) : g[j] \in Row
  <2>1. Len(g) # 0
    BY <1>2
  <2>2. Len(os) \in Nat /\ Len(g) \in Nat
    BY <1>2
  <2>3. /\ \A i \in 1..Len(os) : os[i] \in Row
        /\ \A j \in 1..Len(g) : g[j] \in Row
    BY <1>2
  <2> QED
    BY <2>1, <2>2, <2>3
<1>6. Len(Rows) \in Nat
  BY <1>2, <1>5
<1> QED
  BY <1>1, <1>2, <1>3, <1>4, <1>5, <1>6 DEF HasRows, Inserted

(* Two places of one row are the same place.                               *)
LEMMA OnePlace ==
  ASSUME NEW t, IsOrder(t.order), NEW p \in Places
  PROVE  t.order[p] \in Row /\ Place(t, t.order[p]) = p
<1>1. t.order[p] \in Row
  BY DEF IsOrder, Places
<1> QED
  BY <1>1, PlaceIs

(* The place of a row of the group.                                        *)
LEMMA PlaceOfGroup ==
  ASSUME NEW t, NEW os, NEW g, NEW k, Holds(t, os, g, k), NEW j \in 1..Len(g)
  PROVE  k + j \in Places /\ Place(t, g[j]) = k + j
<1>1. HasRows(t, os, g, k) /\ IsOrder(t.order)
  BY HoldsRows
<1>2. k + j \in Places /\ t.order[k + j] = g[j]
  BY <1>1 DEF HasRows, Places
<1> QED
  BY <1>1, <1>2, OnePlace

PlaceAmong(k, m, i) == IF i <= k THEN i ELSE m + i

(* The place of a row that does not move.                                  *)
LEMMA PlaceOfOther ==
  ASSUME NEW t, NEW os, NEW g, NEW k, Holds(t, os, g, k), NEW i \in 1..Len(os)
  PROVE  /\ PlaceAmong(k, Len(g), i) \in Places
         /\ Place(t, os[i]) = PlaceAmong(k, Len(g), i)
<1>1. HasRows(t, os, g, k) /\ IsOrder(t.order)
  BY HoldsRows
<1>2. PICK p : p = PlaceAmong(k, Len(g), i)
  OBVIOUS
<1>3. CASE i <= k
  <2>1. p \in Places /\ t.order[p] = os[i]
    BY <1>1, <1>2, <1>3 DEF HasRows, Places, PlaceAmong
  <2> QED
    BY <1>1, <1>2, <2>1, OnePlace
<1>4. CASE i > k
  <2>1. p \in Places /\ t.order[p] = os[i]
    BY <1>1, <1>2, <1>4 DEF HasRows, Places, PlaceAmong
  <2> QED
    BY <1>1, <1>2, <2>1, OnePlace
<1> QED
  BY <1>1, <1>3, <1>4 DEF HasRows

(* Neighbours.                                                             *)
LEMMA GroupNeighbours ==
  ASSUME NEW t, NEW os, NEW g, NEW k, Holds(t, os, g, k)
  PROVE  /\ Above(t, g[1]) = At(os, k) /\ Below(t, Last(g)) = At(os, k + 1)
         /\ Last(g) = g[Len(g)]
<1>1. HasRows(t, os, g, k)
  BY HoldsRows
<1>2. 1 \in 1..Len(g) /\ Len(g) \in 1..Len(g)
  BY <1>1 DEF HasRows
<1>3. Place(t, g[1]) = k + 1 /\ Place(t, g[Len(g)]) = k + Len(g)
  BY <1>2, PlaceOfGroup
<1>4. Last(g) = g[Len(g)]
  BY DEF Last
<1>5. (k + 1) - 1 = k /\ (k \in Places <=> k \in Places)
  BY <1>1 DEF HasRows
<1>6. RowAt(t, k) = At(os, k)
  BY <1>1 DEF RowAt, At, HasRows, Places
<1>7. RowAt(t, k + Len(g) + 1) = At(os, k + 1)
  <2>1. CASE k < Len(os)
    <3>1. /\ k + 1 \in (k + 1)..Len(os) /\ k + 1 \in 1..Len(os)
          /\ k + Len(g) + 1 = Len(g) + (k + 1) /\ k + Len(g) + 1 \in Places
      BY <1>1, <2>1 DEF HasRows, Places
    <3>2. t.order[Len(g) + (k + 1)] = os[k + 1]
      BY <1>1, <3>1 DEF HasRows
    <3> QED
      BY <3>1, <3>2 DEF RowAt, At
  <2>2. CASE k = Len(os)
    <3>1. k + 1 \notin 1..Len(os) /\ k + Len(g) + 1 \notin Places
      BY <1>1, <2>2 DEF HasRows, Places
    <3> QED
      BY <3>1 DEF RowAt, At
  <2> QED
    BY <1>1, <2>1, <2>2 DEF HasRows
<1>8. Above(t, g[1]) = RowAt(t, k) /\ Below(t, Last(g)) = RowAt(t, k + Len(g) + 1)
  BY <1>3, <1>4, <1>5 DEF Above, Below
<1> QED
  BY <1>4, <1>6, <1>7, <1>8

(* The neighbours of a row that does not move.                             *)
LEMMA OtherNeighbours ==
  ASSUME NEW t, NEW os, NEW g, NEW k, Holds(t, os, g, k), NEW i \in 1..Len(os)
  PROVE  /\ Above(t, os[i]) = IF i = k + 1 THEN g[Len(g)] ELSE At(os, i - 1)
         /\ Below(t, os[i]) = IF i = k THEN g[1] ELSE At(os, i + 1)
<1>1. HasRows(t, os, g, k)
  BY HoldsRows
<1>2. PICK p : p = PlaceAmong(k, Len(g), i)
  OBVIOUS
<1>3. Above(t, os[i]) = RowAt(t, p - 1) /\ Below(t, os[i]) = RowAt(t, p + 1)
  BY <1>2, PlaceOfOther DEF Above, Below
<1>4. p = IF i <= k THEN i ELSE Len(g) + i
  BY <1>2 DEF PlaceAmong
<1>5. CASE i <= k
  <2>1. RowAt(t, p - 1) = At(os, i - 1)
    BY <1>1, <1>4, <1>5 DEF RowAt, At, HasRows, Places
  <2>2. CASE i < k
    <3>1. RowAt(t, p + 1) = At(os, i + 1)
      BY <1>1, <1>4, <2>2 DEF RowAt, At, HasRows, Places
    <3> QED
      BY <1>1, <1>3, <1>5, <2>1, <2>2, <3>1 DEF HasRows
  <2>3. CASE i = k
    <3>1. RowAt(t, p + 1) = g[1]
      BY <1>1, <1>4, <2>3 DEF RowAt, At, HasRows, Places
    <3> QED
      BY <1>1, <1>3, <2>1, <2>3, <3>1 DEF HasRows
  <2> QED
    BY <1>1, <1>5, <2>2, <2>3 DEF HasRows
<1>6. CASE i > k
  <2>1. ASSUME i = k + 1 PROVE RowAt(t, p - 1) = g[Len(g)]
    <3>1. p - 1 = k + Len(g) /\ k + Len(g) \in Places /\ Len(g) \in 1..Len(g)
      BY <1>1, <1>4, <1>6, <2>1 DEF HasRows, Places
    <3>2. RowAt(t, p - 1) = g[Len(g)]
      BY <1>1, <3>1 DEF RowAt, HasRows
    <3> QED
      BY <3>2
  <2>2. ASSUME i > k + 1 PROVE RowAt(t, p - 1) = At(os, i - 1)
    <3>1. p - 1 = Len(g) + (i - 1) /\ p - 1 \in Places /\ i - 1 \in (k + 1)..Len(os)
          /\ i - 1 \in 1..Len(os)
      BY <1>1, <1>4, <1>6, <2>2 DEF HasRows, Places
    <3>2. t.order[Len(g) + (i - 1)] = os[i - 1]
      BY <1>1, <3>1 DEF HasRows
    <3> QED
      BY <3>1, <3>2 DEF RowAt, At
  <2>3. RowAt(t, p - 1) = IF i = k + 1 THEN g[Len(g)] ELSE At(os, i - 1)
    BY <1>1, <1>6, <2>1, <2>2 DEF HasRows
  <2>4. RowAt(t, p + 1) = At(os, i + 1)
    <3>1. CASE i < Len(os)
      <4>1. p + 1 = Len(g) + (i + 1) /\ p + 1 \in Places /\ i + 1 \in (k + 1)..Len(os)
            /\ i + 1 \in 1..Len(os)
        BY <1>1, <1>4, <1>6, <3>1 DEF HasRows, Places
      <4>2. t.order[Len(g) + (i + 1)] = os[i + 1]
        BY <1>1, <4>1 DEF HasRows
      <4> QED
        BY <4>1, <4>2 DEF RowAt, At
    <3>2. CASE i = Len(os)
      <4>1. p + 1 \notin Places /\ i + 1 \notin 1..Len(os)
        BY <1>1, <1>4, <1>6, <3>2 DEF HasRows, Places
      <4> QED
        BY <4>1 DEF RowAt, At
    <3> QED
      BY <1>1, <3>1, <3>2 DEF HasRows
  <2>5. i # k
    BY <1>1, <1>6 DEF HasRows
  <2> QED
    BY <1>3, <2>3, <2>4, <2>5
<1> QED
  BY <1>1, <1>5, <1>6 DEF HasRows

(* What is at a place: a row of the group, another row, or nothing.        *)
LEMMA AtPlace ==
  ASSUME NEW t, NEW os, NEW g, NEW k, Holds(t, os, g, k), NEW p \in Int
  PROVE  \/ p \notin Places /\ RowAt(t, p) = Top
         \/ p \in (k + 1)..(k + Len(g)) /\ RowAt(t, p) \in ToSet(g)
         \/ \E i \in 1..Len(os) : p = PlaceAmong(k, Len(g), i) /\ RowAt(t, p) = os[i]
<1>1. HasRows(t, os, g, k)
  BY HoldsRows
<1>2. CASE p \notin Places
  BY <1>2 DEF RowAt
<1>3. CASE p \in 1..k
  <2>1. p \in Places /\ p \in 1..Len(os) /\ p = PlaceAmong(k, Len(g), p)
    BY <1>1, <1>3 DEF HasRows, Places, PlaceAmong
  <2>2. RowAt(t, p) = os[p]
    BY <1>1, <1>3, <2>1 DEF HasRows, RowAt
  <2> QED
    BY <2>1, <2>2
<1>4. CASE p \in (k + 1)..(k + Len(g))
  <2>1. p \in Places /\ p - k \in 1..Len(g) /\ p = k + (p - k)
    BY <1>1, <1>4 DEF HasRows, Places
  <2>2. t.order[k + (p - k)] = g[p - k]
    BY <1>1, <2>1 DEF HasRows
  <2>3. RowAt(t, p) = g[p - k]
    BY <2>1, <2>2 DEF RowAt
  <2>4. DOMAIN g = 1..Len(g)
    BY DEF Holds, Parts
  <2> QED
    BY <1>4, <2>1, <2>3, <2>4 DEF ToSet
<1>5. CASE p \in (k + Len(g) + 1)..Len(Rows)
  <2>1. /\ p \in Places /\ p - Len(g) \in (k + 1)..Len(os) /\ p - Len(g) \in 1..Len(os)
        /\ p = Len(g) + (p - Len(g)) /\ p = PlaceAmong(k, Len(g), p - Len(g))
    BY <1>1, <1>5 DEF HasRows, Places, PlaceAmong
  <2>2. t.order[Len(g) + (p - Len(g))] = os[p - Len(g)]
    BY <1>1, <2>1 DEF HasRows
  <2>3. RowAt(t, p) = os[p - Len(g)]
    BY <2>1, <2>2 DEF RowAt
  <2> QED
    BY <2>1, <2>3
<1> QED
  BY <1>1, <1>2, <1>3, <1>4, <1>5 DEF HasRows, Places

(* The rows that do not move.                                              *)
LEMMA OutsideAgain ==
  ASSUME NEW t, NEW os, NEW g, NEW k, Holds(t, os, g, k), NEW o, o = t.order,
         NEW i, i = k + 1, NEW m, m = Len(g)
  PROVE  Outside(o, i, m) = os
<1>1. HasRows(t, os, g, k) /\ IsOrder(o)
  BY HoldsRows
<1>2. i \in 1..Len(Rows) /\ m \in 1..Len(Rows) /\ i + m <= Len(Rows) + 1
  BY <1>1 DEF HasRows
<1>3. PICK q : q = Outside(o, i, m)
  OBVIOUS
<1>4. /\ q \in Seq(Row) /\ Len(q) = Len(Rows) - m
      /\ \A j \in 1..(i - 1) : q[j] = o[j]
      /\ \A j \in i..(Len(Rows) - m) : q[j] = o[j + m]
  <2>1. Span(o, i, m)
    BY <1>1, <1>2 DEF Span
  <2>2. LeftOver(o, i, m, q)
    BY <1>3, <2>1, OutsideIs
  <2> QED
    BY <2>2 DEF LeftOver
<1>5. os \in Seq(Row) /\ Len(os) = Len(Rows) - m
  BY <1>1 DEF HasRows, Holds, Parts
<1>6. ASSUME NEW j \in 1..Len(os) PROVE q[j] = os[j]
  <2>1. CASE j <= k
    <3>1. j \in 1..k /\ j \in 1..(i - 1)
      BY <1>1, <2>1 DEF HasRows
    <3> QED
      BY <1>1, <1>4, <3>1 DEF HasRows
  <2>2. CASE j > k
    <3>1. j \in (k + 1)..Len(os) /\ j \in i..(Len(Rows) - m) /\ j + m = Len(g) + j
      BY <1>1, <1>5, <2>2 DEF HasRows
    <3> QED
      BY <1>1, <1>4, <3>1 DEF HasRows
  <2> QED
    BY <1>1, <2>1, <2>2 DEF HasRows
<1>7. q = os
  BY <1>4, <1>5, <1>6, SeqEqual
<1> QED
  BY <1>3, <1>7

-----------------------------------------------------------------------------
(* A table with the row that is being moved.                               *)

IsTable(t) ==
  t = [order |-> t.order, indent |-> t.indent] /\ t.indent \in [Row -> Int]

IsRowObject(w) ==
  /\ w = [element |-> w.element, group |-> w.group, keyboard |-> w.keyboard,
          changed |-> w.changed, height |-> w.height, interval |-> w.interval,
          isKnown |-> w.isKnown]
  /\ w.keyboard \in BOOLEAN /\ w.changed \in BOOLEAN /\ w.isKnown \in BOOLEAN
  /\ w.interval.min \in Int /\ w.interval.max \in Int

IsMove(s) ==
  s = [table |-> s.table, row |-> s.row] /\ IsTable(s.table) /\ IsRowObject(s.row)

SameRow(v, w) ==
  /\ w.element = v.element /\ w.group = v.group /\ w.keyboard = v.keyboard
  /\ w.height = v.height

SameInterval(v, w) == w.interval = v.interval /\ w.isKnown = v.isKnown

(* The group of s is after the k-th of the other rows.                     *)
Stands(s, os, k) ==
  IsMove(s) /\ Holds(s.table, os, s.row.group, k) /\ s.row.element = s.row.group[1]

(* From s to w the group goes to another place.                            *)
GoesTo(s, w, os, k) ==
  /\ Stands(w, os, k) /\ w.table.indent = s.table.indent
  /\ SameRow(s.row, w.row) /\ SameInterval(s.row, w.row) /\ w.row.changed = TRUE

(* Others() finds the rows that do not move.                               *)
LEMMA OthersIs ==
  ASSUME NEW s, NEW os, NEW k, Stands(s, os, k)
  PROVE  Others(s) = os
<1>1. PICK g : g = s.row.group
  OBVIOUS
<1>2. PICK t : t = s.table
  OBVIOUS
<1>3. Holds(t, os, g, k) /\ s.row.element = g[1]
  BY <1>1, <1>2 DEF Stands
<1>4. HasRows(t, os, g, k)
  BY <1>3, HoldsRows
<1>5. 1 \in 1..Len(g)
  BY <1>4 DEF HasRows
<1>6. PICK i : i = k + 1
  OBVIOUS
<1>7. Place(t, s.row.element) = i
  BY <1>3, <1>5, <1>6, PlaceOfGroup
<1>8. PICK m : m = Len(g)
  OBVIOUS
<1>9. PICK o : o = t.order
  OBVIOUS
<1>10. Outside(o, i, m) = os
  BY <1>3, <1>6, <1>8, <1>9, OutsideAgain
<1> QED
  BY <1>1, <1>2, <1>7, <1>8, <1>9, <1>10 DEF Others, Outside

IndexIn(os, r) == CHOOSE j \in 1..Len(os) : os[j] = r

(* A row has one index among the others.                                   *)
LEMMA IndexIs ==
  ASSUME NEW os, IsInjective(os), os \in Seq(Row), NEW i \in 1..Len(os)
  PROVE  IndexIn(os, os[i]) = i
<1>1. \A j \in 1..Len(os) : os[j] = os[i] => j = i
  BY DEF IsInjective
<1> QED
  BY <1>1 DEF IndexIn

NewOrder(s, o) == [s EXCEPT !.table.order = o, !.row.changed = TRUE]

Ordered(s, w, o) ==
  /\ IsMove(w) /\ w.table.order = o /\ w.table.indent = s.table.indent
  /\ SameRow(s.row, w.row) /\ SameInterval(s.row, w.row) /\ w.row.changed = TRUE

(* Only the order changes, and that the row was moved is noted.            *)
LEMMA NewOrderIs ==
  ASSUME NEW s, IsMove(s), NEW o, NEW w, w = NewOrder(s, o)
  PROVE  Ordered(s, w, o)
<1>1. PICK t : t = s.table
  OBVIOUS
<1>2. PICK v : v = s.row
  OBVIOUS
<1>3. s = [table |-> t, row |-> v] /\ IsTable(t) /\ IsRowObject(v)
  BY <1>1, <1>2 DEF IsMove
<1>4. PICK u : u = [t EXCEPT !.order = o]
  OBVIOUS
<1>5. PICK x : x = [v EXCEPT !.changed = TRUE]
  OBVIOUS
<1>6. w = [table |-> u, row |-> x]
  BY <1>3, <1>4, <1>5 DEF NewOrder
<1>7. u = [order |-> o, indent |-> t.indent]
  BY <1>3, <1>4 DEF IsTable
<1>8. x = [element |-> v.element, group |-> v.group, keyboard |-> v.keyboard,
           changed |-> TRUE, height |-> v.height, interval |-> v.interval,
           isKnown |-> v.isKnown]
  BY <1>3, <1>5 DEF IsRowObject
<1>9. IsTable(u) /\ u.order = o /\ u.indent = t.indent
  BY <1>3, <1>7 DEF IsTable
<1>10. IsRowObject(x) /\ SameRow(v, x) /\ SameInterval(v, x) /\ x.changed = TRUE
  <2>1. /\ x.element = v.element /\ x.group = v.group /\ x.keyboard = v.keyboard
        /\ x.changed = TRUE /\ x.height = v.height /\ x.interval = v.interval
        /\ x.isKnown = v.isKnown
    BY <1>8
  <2> QED
    BY <1>3, <1>8, <2>1 DEF IsRowObject, SameRow, SameInterval
<1>11. w.table = u /\ w.row = x /\ IsMove(w)
  BY <1>6, <1>9, <1>10 DEF IsMove
<1> QED
  BY <1>1, <1>2, <1>9, <1>10, <1>11 DEF Ordered

(* A swap puts the whole group after, or before, one of the other rows.    *)
LEMMA SwapIs ==
  ASSUME NEW s, NEW os, NEW k, Stands(s, os, k), NEW i \in 1..Len(os),
         NEW r, r = os[i], NEW position,
         NEW h, h = IF position = "after" THEN i ELSE i - 1,
         NEW w, w = Swap(s, position, r)
  PROVE  h \in 0..Len(os) /\ GoesTo(s, w, os, h)
<1>1. PICK g : g = s.row.group
  OBVIOUS
<1>2. Others(s) = os
  BY OthersIs
<1>3. /\ Parts(os, g) /\ g # <<>> /\ IsInjective(os) /\ os \in Seq(Row) /\ Len(os) \in Nat
      /\ IsMove(s) /\ s.row.element = g[1]
  BY <1>1 DEF Stands, Holds, Parts
<1>4. IndexIn(os, r) = i
  BY <1>3, IndexIs
<1>5. h \in 0..Len(os)
  BY <1>3
<1>6. w = NewOrder(s, Insert(os, g, h))
  BY <1>1, <1>2, <1>4 DEF Swap, NewOrder, Insert, IndexIn
<1>7. PICK o : o = Insert(os, g, h)
  OBVIOUS
<1>8. /\ IsMove(w) /\ w.table.order = o /\ w.table.indent = s.table.indent
      /\ SameRow(s.row, w.row) /\ SameInterval(s.row, w.row) /\ w.row.changed = TRUE
  <2>1. w = NewOrder(s, o)
    BY <1>6, <1>7
  <2>2. Ordered(s, w, o)
    BY <1>3, <2>1, NewOrderIs
  <2> QED
    BY <2>2 DEF Ordered
<1>9. w.row.group = g /\ w.row.element = g[1]
  BY <1>1, <1>3, <1>8 DEF SameRow
<1>10. Holds(w.table, os, g, h)
  BY <1>3, <1>5, <1>7, <1>8 DEF Holds
<1> QED
  BY <1>5, <1>8, <1>9, <1>10 DEF GoesTo, Stands

HasInterval(s, w, iv) ==
  /\ IsMove(w) /\ w.table = s.table /\ SameRow(s.row, w.row)
  /\ w.row.interval = iv /\ w.row.isKnown = TRUE /\ w.row.changed = s.row.changed

(* Keeping an interval changes nothing else.                               *)
LEMMA WithIs ==
  ASSUME NEW s, IsMove(s), NEW iv, iv.min \in Int, iv.max \in Int, NEW w, w = With(s, iv)
  PROVE  HasInterval(s, w, iv)
<1>1. PICK t : t = s.table
  OBVIOUS
<1>2. PICK v : v = s.row
  OBVIOUS
<1>3. s = [table |-> t, row |-> v] /\ IsTable(t) /\ IsRowObject(v)
  BY <1>1, <1>2 DEF IsMove
<1>4. PICK y : y = [v EXCEPT !.interval = iv]
  OBVIOUS
<1>5. PICK x : x = [y EXCEPT !.isKnown = TRUE]
  OBVIOUS
<1>6. w = [table |-> t, row |-> x]
  <2>1. PICK z : z = [s EXCEPT !.row.interval = iv]
    OBVIOUS
  <2>2. z = [table |-> t, row |-> y]
    BY <1>3, <1>4, <2>1
  <2>3. w = [z EXCEPT !.row.isKnown = TRUE]
    BY <2>1 DEF With
  <2> QED
    BY <1>5, <2>2, <2>3
<1>7. y = [element |-> v.element, group |-> v.group, keyboard |-> v.keyboard,
           changed |-> v.changed, height |-> v.height, interval |-> iv,
           isKnown |-> v.isKnown]
  BY <1>3, <1>4 DEF IsRowObject
<1>8. x = [element |-> v.element, group |-> v.group, keyboard |-> v.keyboard,
           changed |-> v.changed, height |-> v.height, interval |-> iv,
           isKnown |-> TRUE]
  BY <1>5, <1>7
<1>9. /\ x.element = v.element /\ x.group = v.group /\ x.keyboard = v.keyboard
      /\ x.changed = v.changed /\ x.height = v.height /\ x.interval = iv /\ x.isKnown = TRUE
  BY <1>8
<1>10. IsRowObject(x) /\ SameRow(v, x)
  BY <1>3, <1>8, <1>9 DEF IsRowObject, SameRow
<1>11. w.table = t /\ w.row = x /\ IsMove(w)
  BY <1>3, <1>6, <1>10 DEF IsMove
<1> QED
  BY <1>1, <1>2, <1>9, <1>10, <1>11 DEF HasInterval

(* A row is indented: everything in its group is by as much.               *)
Shift(ind, g, d) == [q \in Row |-> IF q \in ToSet(g) THEN ind[q] + d ELSE ind[q]]

Clamp(x, iv) ==
  LET y == IF x >= iv.min THEN x ELSE iv.min IN IF y <= iv.max THEN y ELSE iv.max

IntervalOf(s) == IF s.row.isKnown THEN s.row.interval ELSE IntervalHere(s)

IntervalIs(s, iv) == iv = IntervalOf(s) /\ iv.min \in Int /\ iv.max \in Int

Indented(s, w, iv, diff) ==
  LET from == s.table.indent[s.row.element] IN
  /\ IsMove(w) /\ SameRow(s.row, w.row) /\ w.row.interval = iv /\ w.row.isKnown = TRUE
  /\ w.table.order = s.table.order
  /\ w.table.indent = Shift(s.table.indent, s.row.group, Clamp(from + diff, iv) - from)
  /\ ~w.row.changed => ~s.row.changed /\ Clamp(from + diff, iv) = from

(* What indent() leaves behind, field by field.                            *)
LEMMA IndentIs ==
  ASSUME NEW s, IsMove(s), s.row.element \in Row, NEW diff \in Int,
         NEW iv, IntervalIs(s, iv), NEW w, w = Indent(s, diff)
  PROVE  Indented(s, w, iv, diff)
<1>1. PICK u : u = With(s, iv)
  OBVIOUS
<1>2. /\ IsMove(u) /\ u.table = s.table /\ SameRow(s.row, u.row)
      /\ u.row.interval = iv /\ u.row.isKnown = TRUE /\ u.row.changed = s.row.changed
  <2>1. iv.min \in Int /\ iv.max \in Int
    BY DEF IntervalIs
  <2>2. HasInterval(s, u, iv)
    BY <1>1, <2>1, WithIs
  <2> QED
    BY <2>2 DEF HasInterval
<1>3. PICK g : g = s.row.group
  OBVIOUS
<1>4. PICK from : from = s.table.indent[s.row.element]
  OBVIOUS
<1>5. from \in Int
  BY <1>4 DEF IsMove, IsTable
<1>6. PICK to : to = Clamp(from + diff, iv)
  OBVIOUS
<1>7. to = Min({Max({from + diff, iv.min}), iv.max}) /\ to \in Int
  <2>1. PICK sum : sum = from + diff
    OBVIOUS
  <2>2. sum \in Int /\ iv.min \in Int /\ iv.max \in Int
    BY <1>5, <2>1 DEF IntervalIs
  <2>3. PICK y : y = Max({sum, iv.min})
    OBVIOUS
  <2>4. y = IF sum >= iv.min THEN sum ELSE iv.min
    BY <2>2, <2>3, OfTwo
  <2>5. y \in Int
    BY <2>2, <2>4
  <2>6. Min({y, iv.max}) = IF y <= iv.max THEN y ELSE iv.max
    BY <2>2, <2>5, OfTwo
  <2>7. to = IF y <= iv.max THEN y ELSE iv.max
    BY <1>6, <2>1, <2>4 DEF Clamp
  <2> QED
    BY <2>1, <2>2, <2>3, <2>5, <2>6, <2>7
<1>8. w = [u EXCEPT
            !.table.indent = [q \in Row |-> IF q \in ToSet(g) THEN @[q] + to - from ELSE @[q]],
            !.row.changed = @ \/ to # from]
  BY <1>1, <1>3, <1>4, <1>7 DEF Indent, IntervalIs, IntervalOf
<1>9. PICK t : t = s.table
  OBVIOUS
<1>10. PICK v : v = u.row
  OBVIOUS
<1>11. u = [table |-> t, row |-> v] /\ IsTable(t) /\ IsRowObject(v)
  BY <1>2, <1>9, <1>10 DEF IsMove
<1>12. PICK ind : ind = [q \in Row |-> IF q \in ToSet(g) THEN t.indent[q] + to - from ELSE t.indent[q]]
  OBVIOUS
<1>13. PICK y : y = [t EXCEPT !.indent = ind]
  OBVIOUS
<1>14. PICK b : b = (v.changed \/ to # from)
  OBVIOUS
<1>15. PICK x : x = [v EXCEPT !.changed = b]
  OBVIOUS
<1>16. w = [table |-> y, row |-> x]
  <2>1. PICK z : z = [u EXCEPT !.table.indent =
                       [q \in Row |-> IF q \in ToSet(g) THEN @[q] + to - from ELSE @[q]]]
    OBVIOUS
  <2>2. z = [table |-> y, row |-> v]
    BY <1>11, <1>12, <1>13, <2>1
  <2>3. w = [z EXCEPT !.row.changed = @ \/ to # from]
    BY <1>8, <2>1
  <2> QED
    BY <1>14, <1>15, <2>2, <2>3
<1>17. y = [order |-> t.order, indent |-> ind]
  BY <1>11, <1>13 DEF IsTable
<1>18. x = [element |-> v.element, group |-> v.group, keyboard |-> v.keyboard,
            changed |-> b, height |-> v.height, interval |-> v.interval,
            isKnown |-> v.isKnown]
  BY <1>11, <1>15 DEF IsRowObject
<1>19. ind = Shift(t.indent, g, to - from) /\ ind \in [Row -> Int]
  <2>1. \A q \in Row : t.indent[q] \in Int
    BY <1>11 DEF IsTable
  <2>2. \A q \in Row : t.indent[q] + to - from = t.indent[q] + (to - from)
    BY <1>5, <1>7, <2>1
  <2>3. \A q \in Row : t.indent[q] + to - from \in Int
    BY <1>5, <1>7, <2>1
  <2> QED
    BY <1>12, <2>1, <2>2, <2>3 DEF Shift
<1>20. IsTable(y) /\ y.order = t.order /\ y.indent = ind
  BY <1>17, <1>19 DEF IsTable
<1>21. /\ x.element = v.element /\ x.group = v.group /\ x.keyboard = v.keyboard
       /\ x.changed = b /\ x.height = v.height /\ x.interval = v.interval
       /\ x.isKnown = v.isKnown
  BY <1>18
<1>22. IsRowObject(x) /\ SameRow(v, x)
  <2>1. b \in BOOLEAN
    BY <1>14
  <2> QED
    BY <1>11, <1>18, <1>21, <2>1 DEF IsRowObject, SameRow
<1>23. w.table = y /\ w.row = x /\ IsMove(w)
  BY <1>16, <1>20, <1>22 DEF IsMove
<1>24. SameRow(s.row, w.row) /\ w.row.interval = iv /\ w.row.isKnown = TRUE
  BY <1>2, <1>10, <1>21, <1>22, <1>23 DEF SameRow
<1>25. w.table.order = s.table.order /\ w.table.indent = Shift(s.table.indent, g, to - from)
  BY <1>9, <1>19, <1>20, <1>23
<1>26. ~w.row.changed => ~s.row.changed /\ to = from
  BY <1>2, <1>10, <1>14, <1>21, <1>23
<1> QED
  BY <1>3, <1>4, <1>6, <1>23, <1>24, <1>25, <1>26 DEF Indented

-----------------------------------------------------------------------------
(* What holds of a move with whatever events: the group stays below its    *)
(* first row, and no depth is reached that is not allowed.                 *)

Allowed(st, ind) ==
  \A r \in Row :
    /\ ind[r] >= 0
    /\ st.limit # 0 => ind[r] <= st.limit
    /\ r \in st.root \cup st.fixed => ind[r] = 0

HeightOK(st, s) ==
  st.limit # 0 =>
    /\ s.row.height \in 0..st.limit
    /\ \A j \in 1..Len(s.row.group) :
         s.table.indent[s.row.group[j]] <= s.table.indent[s.row.element] + s.row.height

IntervalOK(st, row, iv) ==
  /\ iv.min \in Nat /\ iv.max \in Nat
  /\ st.limit # 0 => iv.max + row.height <= st.limit
  /\ row.element \in st.root => iv.max = 0

KnownOK(st, s) == s.row.isKnown => IntervalOK(st, s.row, s.row.interval)

MoveOK(st, s, os, k) ==
  /\ Stands(s, os, k)
  /\ Deeper(st, s.table.indent, s.row.group) /\ Allowed(st, s.table.indent)
  /\ HeightOK(st, s) /\ KnownOK(st, s)

RoomAfter(st, ind, q) ==
  IF q \notin Row \ st.fixed THEN 0 ELSE ind[q] + (IF q \in st.leaf THEN 0 ELSE 1)

DepthOf(ind, q) == IF q = Top THEN 0 ELSE ind[q]

IsValid(st, t, row, prev, next, iv) ==
  /\ IntervalOK(st, row, iv)
  /\ iv.min = DepthOf(t.indent, next)
  /\ st.limit = 0 =>
       iv.max = IF row.element \in st.root THEN 0 ELSE RoomAfter(st, t.indent, prev)

(* How a table was sent.                                                   *)
LEMMA SettingsAre ==
  ASSUME settings \in Tables
  PROVE  settings.limit \in Nat /\ settings.fixed \subseteq Row
BY RowsAssumption

(* What validIndentInterval() returns: it allows no forbidden depth.       *)
LEMMA ValidIs ==
  ASSUME settings \in Tables, NEW s, IsMove(s), Allowed(settings, s.table.indent),
         HeightOK(settings, s), NEW prev, NEW next \in Row \cup {Top},
         NEW iv, iv = ValidIndentInterval(s.table, s.row, prev, next)
  PROVE  IsValid(settings, s.table, s.row, prev, next, iv)
<1>1. PICK ind : ind = s.table.indent
  OBVIOUS
<1>2. PICK st : st = settings
  OBVIOUS
<1>3. ind \in [Row -> Int] /\ \A q \in Row : ind[q] \in Nat
  BY <1>1 DEF IsMove, IsTable, Allowed
<1>4. st.limit \in Nat
  BY <1>2, SettingsAre
<1>5. PICK below : below = RoomAfter(st, ind, prev)
  OBVIOUS
<1>6. below \in Nat
  BY <1>3, <1>5 DEF RoomAfter
<1>7. PICK free : free = IF s.row.element \in st.root THEN 0 ELSE below
  OBVIOUS
<1>8. iv.min = DepthOf(ind, next) /\ iv.min \in Nat
  BY <1>1, <1>3 DEF ValidIndentInterval, DepthOf
<1>9. CASE st.limit = 0
  <2>1. iv.max = free
    BY <1>1, <1>2, <1>5, <1>7, <1>9 DEF ValidIndentInterval, RoomAfter, Draggable
  <2> QED
    BY <1>1, <1>2, <1>5, <1>6, <1>7, <1>8, <1>9, <2>1 DEF IsValid, IntervalOK
<1>10. CASE st.limit # 0
  <2>1. PICK left : left = st.limit - s.row.height
    OBVIOUS
  <2>2. left \in Nat /\ left + s.row.height = st.limit
    BY <1>2, <1>4, <1>10, <2>1 DEF HeightOK
  <2>3. iv.max = IF prev \notin Draggable \/ s.row.element \in st.root THEN 0
                 ELSE Min({below, left})
    BY <1>1, <1>2, <1>5, <1>10, <2>1 DEF ValidIndentInterval, RoomAfter, Draggable
  <2>4. Min({below, left}) = IF below <= left THEN below ELSE left
    BY <1>6, <2>2, OfTwo
  <2>5. iv.max \in Nat /\ iv.max <= left
    BY <1>6, <2>2, <2>3, <2>4
  <2>6. s.row.height \in Nat
    BY <1>2, <1>4, <1>10 DEF HeightOK
  <2>7. iv.max + s.row.height <= st.limit
    BY <2>2, <2>5, <2>6
  <2>8. s.row.element \in st.root => iv.max = 0
    BY <2>3
  <2> QED
    BY <1>1, <1>2, <1>8, <1>10, <2>5, <2>7, <2>8 DEF IsValid, IntervalOK
<1> QED
  BY <1>9, <1>10

(* The rows of the group and the first of them.                            *)
GroupOf(s, os, g) ==
  /\ Len(g) \in Nat /\ Len(g) >= 1 /\ g[1] = s.row.element
  /\ ToSet(g) = {g[j] : j \in 1..Len(g)}
  /\ \A j \in 1..Len(g) : g[j] \in Row /\ g[j] \in ToSet(g)
  /\ s.row.element \in Row /\ s.row.element \in ToSet(g)
  /\ \A i, j \in 1..Len(g) : g[i] = g[j] => i = j
  /\ \A i \in 1..Len(os) : os[i] \in Row /\ os[i] \notin ToSet(g)

(* The rows of a group, and that the other rows are others.                *)
LEMMA GroupRows ==
  ASSUME NEW s, NEW os, NEW k, Stands(s, os, k), NEW g, g = s.row.group
  PROVE  GroupOf(s, os, g)
<1>1. Holds(s.table, os, g, k) /\ g[1] = s.row.element
  BY DEF Stands
<1>2. HasRows(s.table, os, g, k)
  BY <1>1, HoldsRows
<1>3. DOMAIN g = 1..Len(g) /\ IsInjective(g)
  BY <1>1 DEF Holds, Parts
<1>4. \A i \in 1..Len(os), j \in 1..Len(g) : os[i] # g[j]
  BY <1>1 DEF Holds, Parts
<1>5. ToSet(g) = {g[j] : j \in 1..Len(g)}
  BY <1>3 DEF ToSet
<1>6. Len(g) \in Nat /\ Len(g) >= 1 /\ 1 \in 1..Len(g)
  BY <1>2 DEF HasRows
<1>7. \A i, j \in 1..Len(g) : g[i] = g[j] => i = j
  BY <1>3 DEF IsInjective
<1> QED
  BY <1>1, <1>2, <1>4, <1>5, <1>6, <1>7 DEF HasRows, GroupOf

(* Next to a group there is a row or nothing.                              *)
LEMMA AtIsRow ==
  ASSUME NEW t, NEW os, NEW g, NEW k, Holds(t, os, g, k), NEW i
  PROVE  At(os, i) \in Row \cup {Top}
<1>1. HasRows(t, os, g, k)
  BY HoldsRows
<1> QED
  BY <1>1 DEF At, HasRows

(* The interval that indent() finds by itself.                             *)
LEMMA HereIs ==
  ASSUME settings \in Tables, NEW s, NEW os, NEW k, MoveOK(settings, s, os, k),
         NEW iv, iv = IntervalHere(s)
  PROVE  IsValid(settings, s.table, s.row, At(os, k), At(os, k + 1), iv)
<1>1. Holds(s.table, os, s.row.group, k) /\ s.row.element = s.row.group[1] /\ IsMove(s)
  BY DEF MoveOK, Stands
<1>2. /\ Above(s.table, s.row.element) = At(os, k)
      /\ Below(s.table, Last(s.row.group)) = At(os, k + 1)
  BY <1>1, GroupNeighbours
<1>3. At(os, k + 1) \in Row \cup {Top}
  BY <1>1, AtIsRow
<1>4. iv = ValidIndentInterval(s.table, s.row, At(os, k), At(os, k + 1))
  BY <1>2 DEF IntervalHere
<1> QED
  BY <1>1, <1>3, <1>4, ValidIs DEF MoveOK

(* A depth that is kept within an interval.                                *)
LEMMA ClampIs ==
  ASSUME NEW x \in Int, NEW iv, iv.min \in Nat, iv.max \in Nat
  PROVE  /\ Clamp(x, iv) \in Nat /\ Clamp(x, iv) <= iv.max
         /\ iv.min <= iv.max => iv.min <= Clamp(x, iv)
BY DEF Clamp

ShiftedBy(ind, g, d, new) ==
  /\ new \in [Row -> Int]
  /\ \A j \in 1..Len(g) : new[g[j]] = ind[g[j]] + d
  /\ \A q \in Row : q \in ToSet(g) \/ new[q] = ind[q]

(* Indenting a group changes the depth of its rows only, by as much each.  *)
LEMMA ShiftIs ==
  ASSUME NEW s, NEW os, NEW k, Stands(s, os, k), NEW d \in Int, NEW ind, ind = s.table.indent,
         NEW g, g = s.row.group, NEW new, new = Shift(ind, g, d)
  PROVE  ShiftedBy(ind, g, d, new)
<1>1. ind \in [Row -> Int]
  BY DEF Stands, IsMove, IsTable
<1>2. \A j \in 1..Len(g) : g[j] \in Row /\ g[j] \in ToSet(g)
  <2>1. GroupOf(s, os, g)
    BY GroupRows
  <2> QED
    BY <2>1 DEF GroupOf
<1> QED
  BY <1>1, <1>2 DEF ShiftedBy, Shift

KnowsOK(st, s, iv) == IntervalIs(s, iv) /\ IntervalOK(st, s.row, iv)

(* The interval indent() goes by, kept or found, is one it may go by.      *)
LEMMA IntervalFound ==
  ASSUME settings \in Tables, NEW s, NEW os, NEW k, MoveOK(settings, s, os, k)
  PROVE  \E iv : KnowsOK(settings, s, iv)
<1>1. CASE s.row.isKnown
  <2>1. IntervalOK(settings, s.row, s.row.interval) /\ s.row.interval = IntervalOf(s)
    BY <1>1 DEF MoveOK, KnownOK, IntervalOf
  <2>2. KnowsOK(settings, s, s.row.interval)
    BY <2>1 DEF KnowsOK, IntervalIs, IntervalOK
  <2> QED
    BY <2>2
<1>2. CASE ~s.row.isKnown
  <2>1. PICK iv : iv = IntervalHere(s)
    OBVIOUS
  <2>2. IntervalOK(settings, s.row, iv)
    BY <2>1, HereIs DEF IsValid
  <2>3. KnowsOK(settings, s, iv)
    BY <1>2, <2>1, <2>2 DEF KnowsOK, IntervalIs, IntervalOK, IntervalOf
  <2> QED
    BY <2>3
<1> QED
  BY <1>1, <1>2

IndentsBy(s, w, iv, diff, d) ==
  LET from == s.table.indent[s.row.element] IN
  /\ SameRow(s.row, w.row) /\ w.row.interval = iv /\ w.row.isKnown = TRUE
  /\ d = Clamp(from + diff, iv) - from
  /\ ShiftedBy(s.table.indent, s.row.group, d, w.table.indent)

(* Indenting reaches no forbidden depth; the group stays below its row.    *)
LEMMA IndentKeeps ==
  ASSUME settings \in Tables, NEW s, NEW os, NEW k, MoveOK(settings, s, os, k),
         NEW diff \in Int, NEW iv, KnowsOK(settings, s, iv), NEW w, w = Indent(s, diff)
  PROVE  MoveOK(settings, w, os, k) /\ \E d \in Int : IndentsBy(s, w, iv, diff, d)
<1>1. PICK st : st = settings
  OBVIOUS
<1>2. PICK g : g = s.row.group
  OBVIOUS
<1>3. PICK ind : ind = s.table.indent
  OBVIOUS
<1>4. PICK new : new = w.table.indent
  OBVIOUS
<1>5. PICK from : from = ind[s.row.element]
  OBVIOUS
<1>6. Stands(s, os, k) /\ IsMove(s) /\ ind \in [Row -> Int]
  BY <1>3 DEF MoveOK, Stands, IsMove, IsTable
<1>7. /\ Len(g) \in Nat /\ Len(g) >= 1 /\ g[1] = s.row.element
      /\ ToSet(g) = {g[j] : j \in 1..Len(g)}
      /\ \A j \in 1..Len(g) : g[j] \in Row /\ g[j] \in ToSet(g)
      /\ s.row.element \in Row
  <2>1. GroupOf(s, os, g)
    BY <1>2, <1>6, GroupRows
  <2> QED
    BY <2>1 DEF GroupOf
<1>8. /\ \A q \in Row : ind[q] \in Nat /\ (st.limit # 0 => ind[q] <= st.limit)
      /\ \A q \in Row : q \in st.root \cup st.fixed => ind[q] = 0
  BY <1>1, <1>3, <1>6 DEF MoveOK, Allowed
<1>9. from \in Nat
  BY <1>5, <1>7, <1>8
<1>10. /\ \A j \in 1..Len(g) : g[j] \notin st.fixed
       /\ \A j \in 2..Len(g) : ind[g[j]] > from
  BY <1>1, <1>2, <1>3, <1>5, <1>7 DEF MoveOK, Deeper
<1>11. iv.min \in Nat /\ iv.max \in Nat /\ (s.row.element \in st.root => iv.max = 0)
  BY <1>1 DEF KnowsOK, IntervalOK
<1>12. PICK to : to = Clamp(from + diff, iv)
  OBVIOUS
<1>13. to \in Nat /\ to <= iv.max
  <2>1. from + diff \in Int
    BY <1>9
  <2> QED
    BY <1>11, <1>12, <2>1, ClampIs
<1>14. PICK d : d = to - from
  OBVIOUS
<1>15. d \in Int /\ from + d = to
  BY <1>9, <1>13, <1>14
<1>16. Indented(s, w, iv, diff)
  BY <1>6, <1>7, IndentIs DEF KnowsOK
<1>17. /\ IsMove(w) /\ SameRow(s.row, w.row) /\ w.row.interval = iv /\ w.row.isKnown = TRUE
       /\ w.table.order = s.table.order /\ new = Shift(ind, g, d)
  BY <1>2, <1>3, <1>4, <1>5, <1>12, <1>14, <1>16 DEF Indented
<1>18. ShiftedBy(ind, g, d, new)
  BY <1>2, <1>3, <1>6, <1>15, <1>17, ShiftIs
<1>19. /\ new \in [Row -> Int] /\ new[s.row.element] = to
       /\ \A j \in 1..Len(g) : new[g[j]] = ind[g[j]] + d
       /\ \A q \in Row : q \in ToSet(g) \/ new[q] = ind[q]
  <2>1. 1 \in 1..Len(g)
    BY <1>7
  <2> QED
    BY <1>5, <1>7, <1>15, <1>18, <2>1 DEF ShiftedBy
<1>20. w.row.group = g /\ w.row.element = s.row.element /\ w.row.height = s.row.height
  BY <1>2, <1>17 DEF SameRow
<1>21. Stands(w, os, k)
  BY <1>2, <1>6, <1>17, <1>20 DEF Stands, Holds
<1>22. \A j \in 1..Len(g) : j = 1 \/ j \in 2..Len(g)
  BY <1>7
<1>23. ASSUME NEW j \in 2..Len(g) PROVE new[g[j]] > to
  <2>1. j \in 1..Len(g)
    BY <1>7
  <2>2. ind[g[j]] \in Nat /\ ind[g[j]] > from /\ new[g[j]] = ind[g[j]] + d
    BY <1>7, <1>8, <1>10, <1>19, <2>1
  <2> QED
    BY <1>9, <1>13, <1>15, <2>2
<1>24. Deeper(st, new, g)
  BY <1>1, <1>2, <1>7, <1>10, <1>19, <1>23 DEF Deeper, MoveOK
<1>25. HeightOK(st, w)
  <2> SUFFICES ASSUME st.limit # 0
               PROVE  /\ s.row.height \in 0..st.limit
                      /\ \A j \in 1..Len(g) : new[g[j]] <= to + s.row.height
    BY <1>4, <1>19, <1>20 DEF HeightOK
  <2>1. /\ s.row.height \in 0..st.limit
        /\ \A j \in 1..Len(g) : ind[g[j]] <= from + s.row.height
    BY <1>1, <1>2, <1>3, <1>5 DEF MoveOK, HeightOK
  <2>2. st.limit \in Nat /\ s.row.height \in Nat
    BY <1>1, <2>1, SettingsAre
  <2>3. ASSUME NEW j \in 1..Len(g) PROVE new[g[j]] <= to + s.row.height
    <3>1. ind[g[j]] \in Nat
      BY <1>7, <1>8
    <3>2. new[g[j]] = ind[g[j]] + d
      BY <1>19
    <3>3. ind[g[j]] <= from + s.row.height
      BY <2>1
    <3>4. PICK x : x = ind[g[j]]
      OBVIOUS
    <3>5. x \in Nat /\ x <= from + s.row.height
      BY <3>1, <3>3, <3>4
    <3>6. x + d <= to + s.row.height
      BY <1>9, <1>15, <2>2, <3>5
    <3> QED
      BY <3>2, <3>4, <3>6
  <2> QED
    BY <2>1, <2>3
<1>26. ASSUME NEW q \in Row
       PROVE  /\ new[q] >= 0 /\ (st.limit # 0 => new[q] <= st.limit)
              /\ q \in st.root \cup st.fixed => new[q] = 0
  <2>1. CASE q \notin ToSet(g)
    <3>1. new[q] = ind[q] /\ ind[q] \in Nat
      BY <1>8, <1>19, <2>1
    <3> QED
      BY <1>8, <3>1
  <2>2. CASE q = s.row.element
    <3>1. q \notin st.fixed
      BY <1>7, <1>10, <2>2
    <3>2. new[q] = to
      BY <1>19, <2>2
    <3>3. ASSUME st.limit # 0 PROVE to <= st.limit
      <4>1. s.row.height \in 0..st.limit /\ iv.max + s.row.height <= st.limit
        BY <1>1, <3>3 DEF MoveOK, HeightOK, KnowsOK, IntervalOK
      <4>2. st.limit \in Nat
        BY <1>1, SettingsAre
      <4> QED
        BY <1>11, <1>13, <4>1, <4>2
    <3>4. q \in st.root => to = 0
      BY <1>11, <1>13, <2>2
    <3> QED
      BY <1>13, <3>1, <3>2, <3>3, <3>4
  <2>3. ASSUME NEW j \in 2..Len(g), q = g[j]
        PROVE  /\ new[q] >= 0 /\ (st.limit # 0 => new[q] <= st.limit)
               /\ q \in st.root \cup st.fixed => new[q] = 0
    <3>1. j \in 1..Len(g) /\ ind[q] > from /\ new[q] > to /\ new[q] \in Int
      BY <1>7, <1>10, <1>19, <1>23, <2>3
    <3>2. new[q] >= 0
      BY <1>13, <3>1
    <3>3. q \notin st.root \cup st.fixed
      BY <1>8, <1>9, <3>1
    <3>4. ASSUME st.limit # 0 PROVE new[q] <= st.limit
      <4>1. s.row.height \in 0..st.limit /\ iv.max + s.row.height <= st.limit
        BY <1>1, <3>4 DEF MoveOK, HeightOK, KnowsOK, IntervalOK
      <4>2. new[g[j]] <= to + s.row.height
        BY <1>4, <1>19, <1>20, <1>25, <3>1, <3>4 DEF HeightOK
      <4>3. st.limit \in Nat
        BY <1>1, SettingsAre
      <4>4. to + s.row.height <= st.limit /\ to + s.row.height \in Nat
        <5>1. PICK h, c : h = s.row.height /\ c = iv.max
          OBVIOUS
        <5>2. h \in Nat /\ c \in Nat /\ c + h <= st.limit /\ to <= c
          BY <1>11, <1>13, <4>1, <4>3, <5>1
        <5>3. to + h <= st.limit /\ to + h \in Nat
          BY <1>13, <4>3, <5>2
        <5> QED
          BY <5>1, <5>3, Zenon
      <4>5. PICK x : x = new[q]
        OBVIOUS
      <4>6. x \in Int /\ x <= to + s.row.height
        BY <2>3, <3>1, <4>2, <4>5
      <4>7. x <= st.limit
        BY <4>3, <4>4, <4>6
      <4> QED
        BY <4>5, <4>7
    <3> QED
      BY <3>2, <3>3, <3>4
  <2>4. q \in ToSet(g) => q = s.row.element \/ \E j \in 2..Len(g) : q = g[j]
    BY <1>7, <1>22
  <2> QED
    BY <2>1, <2>2, <2>3, <2>4
<1>27. Allowed(st, new)
  BY <1>26 DEF Allowed
<1>28. KnownOK(st, w)
  BY <1>1, <1>17, <1>20 DEF KnownOK, KnowsOK, IntervalOK
<1>29. MoveOK(settings, w, os, k)
  BY <1>1, <1>4, <1>20, <1>21, <1>24, <1>25, <1>27, <1>28 DEF MoveOK
<1>30. IndentsBy(s, w, iv, diff, d)
  BY <1>2, <1>3, <1>4, <1>5, <1>12, <1>14, <1>17, <1>18 DEF IndentsBy
<1> QED
  BY <1>15, <1>29, <1>30

(* Moving a group without indenting it reaches no forbidden depth.         *)
LEMMA StaysOK ==
  ASSUME NEW st, NEW s, NEW w, NEW os, NEW k, NEW h, MoveOK(st, s, os, k), Stands(w, os, h),
         w.table.indent = s.table.indent, SameRow(s.row, w.row),
         w.row.isKnown => IntervalOK(st, s.row, w.row.interval)
  PROVE  MoveOK(st, w, os, h)
<1>1. /\ w.row.group = s.row.group /\ w.row.element = s.row.element
      /\ w.row.height = s.row.height
  BY DEF SameRow
<1>2. KnownOK(st, w)
  BY <1>1 DEF KnownOK, IntervalOK
<1>3. HeightOK(st, w)
  BY <1>1 DEF HeightOK, MoveOK
<1> QED
  BY <1>1, <1>2, <1>3 DEF MoveOK

(* The i-th of the other rows is swapped, and h of them are before then.   *)
SwapAt(s, w, os, i, position, h) ==
  /\ i \in 1..Len(os) /\ h = IF position = "after" THEN i ELSE i - 1
  /\ w = Swap(s, position, os[i])

(* Neither does a swap.                                                    *)
LEMMA SwapKeeps ==
  ASSUME NEW s, NEW os, NEW k, MoveOK(settings, s, os, k),
         NEW i, NEW position, NEW h, NEW w, SwapAt(s, w, os, i, position, h)
  PROVE  h \in 0..Len(os) /\ GoesTo(s, w, os, h) /\ MoveOK(settings, w, os, h)
<1>1. h \in 0..Len(os) /\ GoesTo(s, w, os, h)
  BY SwapIs DEF MoveOK, SwapAt
<1>2. w.row.isKnown => IntervalOK(settings, s.row, w.row.interval)
  BY <1>1 DEF GoesTo, SameInterval, MoveOK, KnownOK
<1> QED
  BY <1>1, <1>2, StaysOK DEF GoesTo

-----------------------------------------------------------------------------
(* Without a limit: the rows that do not move are a tree of their own, so  *)
(* is the group, and between the two neighbours of the group there is a    *)
(* depth for it.                                                           *)

Nested(st, ind, os) ==
  \A j \in 1..Len(os) : ind[os[j]] <= RoomAfter(st, ind, At(os, j - 1))

Steps(st, ind, g) ==
  \A j \in 2..Len(g) : ind[g[j]] <= RoomAfter(st, ind, g[j - 1])

Lo(ind, os, k)     == DepthOf(ind, At(os, k + 1))
Hi(st, ind, os, k) == RoomAfter(st, ind, At(os, k))

Known(st, s, os, k) ==
  s.row.isKnown /\ s.row.element \notin st.root =>
    /\ s.row.interval.min = Lo(s.table.indent, os, k)
    /\ s.row.interval.max = Hi(st, s.table.indent, os, k)

Fits(st, s, os, k) ==
  st.limit = 0 =>
    /\ Nested(st, s.table.indent, os) /\ Steps(st, s.table.indent, s.row.group)
    /\ s.row.element \in st.root => Lo(s.table.indent, os, k) = 0
    /\ Known(st, s, os, k)

Placed(st, s, os, k) ==
  /\ Fits(st, s, os, k)
  /\ st.limit = 0 =>
       /\ Lo(s.table.indent, os, k) <= s.table.indent[s.row.element]
       /\ s.table.indent[s.row.element] <= Hi(st, s.table.indent, os, k)

AlikeOn(os, ind, new) == \A i \in 1..Len(os) : os[i] \in Row /\ new[os[i]] = ind[os[i]]

(* The bounds of a place depend on the rows that do not move only.         *)
LEMMA OthersSame ==
  ASSUME NEW st, NEW os, NEW ind, NEW new, AlikeOn(os, ind, new)
  PROVE  /\ \A k : Lo(new, os, k) = Lo(ind, os, k) /\ Hi(st, new, os, k) = Hi(st, ind, os, k)
         /\ Nested(st, ind, os) => Nested(st, new, os)
<1>1. Top \notin Row
  BY RowsAssumption
<1>2. ASSUME NEW k PROVE Lo(new, os, k) = Lo(ind, os, k)
  BY <1>1 DEF Lo, DepthOf, At, AlikeOn
<1>3. ASSUME NEW k PROVE RoomAfter(st, new, At(os, k)) = RoomAfter(st, ind, At(os, k))
  <2>1. CASE k \in 1..Len(os)
    BY <2>1 DEF RoomAfter, At, AlikeOn
  <2>2. CASE k \notin 1..Len(os)
    BY <1>1, <2>2 DEF RoomAfter, At, AlikeOn
  <2> QED
    BY <2>1, <2>2
<1>4. ASSUME NEW k PROVE Hi(st, new, os, k) = Hi(st, ind, os, k)
  BY <1>3 DEF Hi
<1>5. ASSUME Nested(st, ind, os) PROVE Nested(st, new, os)
  BY <1>3, <1>5 DEF Nested, AlikeOn
<1> QED
  BY <1>2, <1>4, <1>5

(* There is always a depth between two neighbours.                         *)
LEMMA LoBelowHi ==
  ASSUME NEW st, NEW os, NEW ind \in [Row -> Int], Allowed(st, ind), Nested(st, ind, os),
         Len(os) \in Nat, \A i \in 1..Len(os) : os[i] \in Row, NEW k \in 0..Len(os)
  PROVE  /\ Lo(ind, os, k) \in Nat /\ Hi(st, ind, os, k) \in Nat
         /\ Lo(ind, os, k) <= Hi(st, ind, os, k)
<1>1. Top \notin Row
  BY RowsAssumption
<1>2. \A q \in Row : ind[q] \in Nat
  BY DEF Allowed
<1>3. Hi(st, ind, os, k) \in Nat
  BY <1>2 DEF Hi, RoomAfter
<1>4. CASE k = Len(os)
  <2>1. At(os, k + 1) = Top
    BY <1>4 DEF At
  <2>2. Lo(ind, os, k) = 0
    BY <2>1 DEF Lo, DepthOf
  <2> QED
    BY <1>3, <2>2
<1>5. CASE k < Len(os)
  <2>1. k + 1 \in 1..Len(os) /\ (k + 1) - 1 = k
    BY <1>5
  <2>2. At(os, k + 1) = os[k + 1] /\ os[k + 1] \in Row
    BY <2>1 DEF At
  <2>3. Lo(ind, os, k) = ind[os[k + 1]]
    BY <1>1, <2>2 DEF Lo, DepthOf
  <2>4. ind[os[k + 1]] <= RoomAfter(st, ind, At(os, k))
    BY <2>1 DEF Nested
  <2> QED
    BY <1>2, <1>3, <2>2, <2>3, <2>4 DEF Hi
<1> QED
  BY <1>4, <1>5

(* The steps within a group do not change when it is indented.             *)
LEMMA StepsShift ==
  ASSUME NEW st, NEW ind \in [Row -> Int], NEW g, Len(g) \in Nat,
         \A j \in 1..Len(g) : g[j] \in Row /\ g[j] \notin st.fixed,
         NEW d \in Int, NEW new, ShiftedBy(ind, g, d, new), Steps(st, ind, g)
  PROVE  Steps(st, new, g)
<1> SUFFICES ASSUME NEW j \in 2..Len(g)
             PROVE  new[g[j]] <= RoomAfter(st, new, g[j - 1])
  BY DEF Steps
<1>1. PICK a : a = g[j]
  OBVIOUS
<1>2. PICK b : b = g[j - 1]
  OBVIOUS
<1>3. j \in 1..Len(g) /\ j - 1 \in 1..Len(g)
  OBVIOUS
<1>4. a \in Row /\ b \in Row /\ b \notin st.fixed
  BY <1>1, <1>2, <1>3
<1>5. new[a] = ind[a] + d /\ new[b] = ind[b] + d
  BY <1>1, <1>2, <1>3 DEF ShiftedBy
<1>6. ind[a] \in Int /\ ind[b] \in Int
  BY <1>4
<1>7. ind[a] <= RoomAfter(st, ind, b)
  BY <1>1, <1>2 DEF Steps
<1>8. new[a] <= RoomAfter(st, new, b)
  BY <1>4, <1>5, <1>6, <1>7 DEF RoomAfter
<1> QED
  BY <1>1, <1>2, <1>8

(* Without a limit the interval is the one between the two neighbours.     *)
LEMMA KnowsBetween ==
  ASSUME settings \in Tables, NEW s, NEW os, NEW k, MoveOK(settings, s, os, k),
         Fits(settings, s, os, k), settings.limit = 0, s.row.element \notin settings.root,
         NEW iv, KnowsOK(settings, s, iv)
  PROVE  /\ iv.min = Lo(s.table.indent, os, k)
         /\ iv.max = Hi(settings, s.table.indent, os, k)
<1>1. CASE s.row.isKnown
  BY <1>1 DEF Fits, Known, KnowsOK, IntervalIs, IntervalOf
<1>2. CASE ~s.row.isKnown
  <2>1. iv = IntervalHere(s)
    BY <1>2 DEF KnowsOK, IntervalIs, IntervalOf
  <2>2. IsValid(settings, s.table, s.row, At(os, k), At(os, k + 1), iv)
    BY <2>1, HereIs
  <2> QED
    BY <2>2 DEF IsValid, Lo, Hi
<1> QED
  BY <1>1, <1>2

(* Indenting puts a group that fits between its neighbours.                *)
LEMMA IndentPlaces ==
  ASSUME settings \in Tables, NEW s, NEW os, NEW k, MoveOK(settings, s, os, k),
         Fits(settings, s, os, k), NEW diff \in Int, NEW w, w = Indent(s, diff)
  PROVE  MoveOK(settings, w, os, k) /\ Placed(settings, w, os, k) /\ SameRow(s.row, w.row)
<1>1. PICK iv : KnowsOK(settings, s, iv)
  BY IntervalFound
<1>2. MoveOK(settings, w, os, k) /\ \E d \in Int : IndentsBy(s, w, iv, diff, d)
  BY <1>1, IndentKeeps
<1>3. PICK d \in Int : IndentsBy(s, w, iv, diff, d)
  BY <1>2
<1>4. SameRow(s.row, w.row) /\ w.row.interval = iv /\ w.row.isKnown = TRUE
  BY <1>3 DEF IndentsBy
<1>5. PICK st : st = settings
  OBVIOUS
<1>6. PICK g : g = s.row.group
  OBVIOUS
<1>7. PICK ind : ind = s.table.indent
  OBVIOUS
<1>8. PICK new : new = w.table.indent
  OBVIOUS
<1>9. PICK from : from = ind[s.row.element]
  OBVIOUS
<1>10. w.row.group = g /\ w.row.element = s.row.element
  BY <1>4, <1>6 DEF SameRow
<1>11. Stands(s, os, k) /\ ind \in [Row -> Int] /\ Allowed(st, ind)
       /\ \A j \in 1..Len(g) : g[j] \notin st.fixed
  BY <1>5, <1>6, <1>7 DEF MoveOK, Stands, IsMove, IsTable, Deeper
<1>12. GroupOf(s, os, g)
  BY <1>6, <1>11, GroupRows
<1>13. ShiftedBy(ind, g, d, new) /\ d = Clamp(from + diff, iv) - from
  BY <1>3, <1>6, <1>7, <1>8, <1>9 DEF IndentsBy
<1>14. /\ Len(os) \in Nat /\ k \in 0..Len(os)
       /\ \A i \in 1..Len(os) : os[i] \in Row /\ os[i] \notin ToSet(g)
  <2>1. HasRows(s.table, os, s.row.group, k)
    BY <1>11, HoldsRows DEF Stands
  <2> QED
    BY <1>12, <2>1 DEF HasRows, GroupOf
<1>15. AlikeOn(os, ind, new)
  BY <1>13, <1>14 DEF ShiftedBy, AlikeOn
<1>16. /\ Lo(new, os, k) = Lo(ind, os, k) /\ Hi(st, new, os, k) = Hi(st, ind, os, k)
       /\ Nested(st, ind, os) => Nested(st, new, os)
  BY <1>15, OthersSame
<1>17. PICK to : to = Clamp(from + diff, iv)
  OBVIOUS
<1>18. /\ iv.min \in Nat /\ iv.max \in Nat /\ (s.row.element \in st.root => iv.max = 0)
  BY <1>1, <1>5 DEF KnowsOK, IntervalOK
<1>19. from \in Nat
  BY <1>9, <1>11, <1>12 DEF GroupOf, Allowed
<1>20. to \in Nat /\ to <= iv.max /\ (iv.min <= iv.max => iv.min <= to)
  <2>1. from + diff \in Int
    BY <1>19
  <2> QED
    BY <1>17, <1>18, <2>1, ClampIs
<1>21. new[s.row.element] = to
  <2>1. 1 \in 1..Len(g) /\ g[1] = s.row.element
    BY <1>12 DEF GroupOf
  <2>2. new[s.row.element] = from + d /\ d = to - from
    BY <1>9, <1>13, <1>17, <2>1 DEF ShiftedBy
  <2> QED
    BY <1>19, <1>20, <2>2
<1>22. ASSUME st.limit = 0
       PROVE  /\ Nested(st, new, os) /\ Steps(st, new, g)
              /\ s.row.element \in st.root => Lo(new, os, k) = 0
              /\ s.row.element \notin st.root =>
                   iv.min = Lo(new, os, k) /\ iv.max = Hi(st, new, os, k)
              /\ Lo(new, os, k) <= to /\ to <= Hi(st, new, os, k)
  <2>1. /\ Nested(st, ind, os) /\ Steps(st, ind, g)
        /\ s.row.element \in st.root => Lo(ind, os, k) = 0
    BY <1>5, <1>6, <1>7, <1>22 DEF Fits
  <2>2. Steps(st, new, g)
    <3>1. Len(g) \in Nat /\ \A j \in 1..Len(g) : g[j] \in Row /\ g[j] \notin st.fixed
      BY <1>11, <1>12 DEF GroupOf
    <3> QED
      BY <1>11, <1>13, <2>1, <3>1, StepsShift
  <2>3. /\ Lo(ind, os, k) \in Nat /\ Hi(st, ind, os, k) \in Nat
        /\ Lo(ind, os, k) <= Hi(st, ind, os, k)
    BY <1>11, <1>14, <2>1, LoBelowHi
  <2>4. s.row.element \notin st.root =>
          iv.min = Lo(ind, os, k) /\ iv.max = Hi(st, ind, os, k)
    BY <1>1, <1>5, <1>7, <1>22, KnowsBetween
  <2>5. CASE s.row.element \in st.root
    BY <1>16, <1>18, <1>20, <2>1, <2>2, <2>3, <2>5
  <2>6. CASE s.row.element \notin st.root
    BY <1>16, <1>20, <2>1, <2>2, <2>3, <2>4, <2>6
  <2> QED
    BY <2>5, <2>6
<1>23. Placed(settings, w, os, k)
  BY <1>4, <1>5, <1>8, <1>10, <1>21, <1>22 DEF Placed, Fits, Known
<1> QED
  BY <1>2, <1>4, <1>23

-----------------------------------------------------------------------------
(* From s to w the same rows move, all of them indented by as much; and a  *)
(* row that is not noted as changed has gone nowhere.                      *)

LEMMA SameRowTwice ==
  ASSUME NEW u, NEW v, NEW w, SameRow(u, v), SameRow(v, w)
  PROVE  SameRow(u, w)
BY DEF SameRow

Carried(s, w) ==
  /\ SameRow(s.row, w.row)
  /\ \E d \in Int : w.table.indent = Shift(s.table.indent, s.row.group, d)
  /\ ~w.row.changed => ~s.row.changed /\ w.table = s.table

LEMMA ShiftNone ==
  ASSUME NEW ind \in [Row -> Int], NEW g
  PROVE  Shift(ind, g, 0) = ind
<1>1. ASSUME NEW q \in Row
      PROVE  (IF q \in ToSet(g) THEN ind[q] + 0 ELSE ind[q]) = ind[q]
  <2>1. ind[q] \in Int
    OBVIOUS
  <2> QED
    BY <2>1
<1> QED
  BY <1>1 DEF Shift

(* Going to another place carries the rows there, ...                      *)
LEMMA GoesCarried ==
  ASSUME NEW s, IsMove(s), NEW w, SameRow(s.row, w.row), w.table.indent = s.table.indent,
         \/ w.row.changed = TRUE
         \/ w.row.changed = s.row.changed /\ w.table = s.table
  PROVE  Carried(s, w)
<1>1. w.table.indent = Shift(s.table.indent, s.row.group, 0)
  <2>1. s.table.indent \in [Row -> Int]
    BY DEF IsMove, IsTable
  <2> QED
    BY <2>1, ShiftNone
<1>2. ~w.row.changed => ~s.row.changed /\ w.table = s.table
  OBVIOUS
<1> QED
  BY <1>1, <1>2 DEF Carried

(* ... so does one step after another, ...                                 *)
LEMMA CarriedTwice ==
  ASSUME NEW u, IsMove(u), NEW v, NEW w, Carried(u, v), Carried(v, w)
  PROVE  Carried(u, w)
<1>1. SameRow(u.row, w.row) /\ v.row.group = u.row.group
  BY SameRowTwice DEF Carried, SameRow
<1>2. PICK g, ind : g = u.row.group /\ ind = u.table.indent
  OBVIOUS
<1>3. PICK c \in Int : v.table.indent = Shift(ind, g, c)
  BY <1>2 DEF Carried
<1>4. PICK d \in Int : w.table.indent = Shift(v.table.indent, g, d)
  BY <1>1, <1>2 DEF Carried
<1>5. ind \in [Row -> Int]
  BY <1>2 DEF IsMove, IsTable
<1>6. Shift(Shift(ind, g, c), g, d) = Shift(ind, g, c + d)
  <2>1. PICK new : new = Shift(ind, g, c)
    OBVIOUS
  <2>2. \A q \in Row : new[q] = IF q \in ToSet(g) THEN ind[q] + c ELSE ind[q]
    BY <2>1 DEF Shift
  <2>3. ASSUME NEW q \in Row
        PROVE  (IF q \in ToSet(g) THEN new[q] + d ELSE new[q])
                 = (IF q \in ToSet(g) THEN ind[q] + (c + d) ELSE ind[q])
    <3>1. ind[q] \in Int
      BY <1>5
    <3>2. CASE q \in ToSet(g)
      <4>1. new[q] = ind[q] + c
        BY <2>2, <3>2
      <4>2. (ind[q] + c) + d = ind[q] + (c + d)
        BY <3>1
      <4> QED
        BY <3>2, <4>1, <4>2
    <3>3. CASE q \notin ToSet(g)
      <4>1. new[q] = ind[q]
        BY <2>2, <3>3
      <4> QED
        BY <3>3, <4>1
    <3> QED
      BY <3>2, <3>3
  <2> QED
    BY <2>1, <2>3 DEF Shift
<1>7. w.table.indent = Shift(ind, g, c + d) /\ c + d \in Int
  BY <1>3, <1>4, <1>6
<1>8. ~w.row.changed => ~u.row.changed /\ w.table = u.table
  BY DEF Carried
<1> QED
  BY <1>1, <1>2, <1>7, <1>8 DEF Carried

(* ... and so does indenting.                                              *)
LEMMA IndentCarried ==
  ASSUME settings \in Tables, NEW s, NEW os, NEW k, MoveOK(settings, s, os, k),
         NEW diff \in Int, NEW w, w = Indent(s, diff)
  PROVE  Carried(s, w)
<1>1. PICK iv : KnowsOK(settings, s, iv)
  BY IntervalFound
<1>2. IntervalIs(s, iv) /\ iv.min \in Int /\ iv.max \in Int
  BY <1>1 DEF KnowsOK, IntervalIs
<1>3. Stands(s, os, k) /\ IsMove(s) /\ IsTable(s.table)
  BY DEF MoveOK, Stands, IsMove
<1>4. s.row.element \in Row
  <2>1. GroupOf(s, os, s.row.group)
    BY <1>3, GroupRows
  <2> QED
    BY <2>1 DEF GroupOf
<1>5. Indented(s, w, iv, diff)
  BY <1>2, <1>3, <1>4, IndentIs
<1>6. PICK from : from = s.table.indent[s.row.element]
  OBVIOUS
<1>7. PICK to : to = Clamp(from + diff, iv)
  OBVIOUS
<1>8. from \in Int /\ to \in Int
  <2>1. from \in Int
    BY <1>3, <1>4, <1>6 DEF IsTable
  <2>2. PICK x : x = from + diff
    OBVIOUS
  <2>3. x \in Int
    BY <2>1, <2>2
  <2> QED
    BY <1>2, <1>7, <2>1, <2>2, <2>3 DEF Clamp
<1>9. /\ SameRow(s.row, w.row) /\ IsMove(w) /\ w.table.order = s.table.order
      /\ w.table.indent = Shift(s.table.indent, s.row.group, to - from)
      /\ ~w.row.changed => ~s.row.changed /\ to = from
  BY <1>5, <1>6, <1>7 DEF Indented
<1>10. ASSUME ~w.row.changed PROVE ~s.row.changed /\ w.table = s.table
  <2>1. ~s.row.changed /\ to - from = 0
    BY <1>8, <1>9, <1>10
  <2>2. w.table.indent = s.table.indent
    BY <1>3, <1>9, <2>1, ShiftNone DEF IsTable
  <2> QED
    BY <1>3, <1>9, <2>1, <2>2 DEF IsMove, IsTable
<1>11. to - from \in Int
  BY <1>8
<1> QED
  BY <1>9, <1>10, <1>11 DEF Carried

-----------------------------------------------------------------------------
(* Keys.                                                                   *)

Forget(s) == [s EXCEPT !.row.isKnown = FALSE]

Forgets(s, w) ==
  /\ IsMove(w) /\ w.table = s.table /\ SameRow(s.row, w.row) /\ w.row.isKnown = FALSE
  /\ w.row.changed = s.row.changed

(* Forgetting the interval changes nothing else.                           *)
LEMMA ForgetIs ==
  ASSUME NEW s, IsMove(s), NEW w, w = Forget(s)
  PROVE  Forgets(s, w)
<1>1. PICK t : t = s.table
  OBVIOUS
<1>2. PICK v : v = s.row
  OBVIOUS
<1>3. s = [table |-> t, row |-> v] /\ IsTable(t) /\ IsRowObject(v)
  BY <1>1, <1>2 DEF IsMove
<1>4. PICK x : x = [v EXCEPT !.isKnown = FALSE]
  OBVIOUS
<1>5. w = [table |-> t, row |-> x]
  BY <1>3, <1>4 DEF Forget
<1>6. x = [element |-> v.element, group |-> v.group, keyboard |-> v.keyboard,
           changed |-> v.changed, height |-> v.height, interval |-> v.interval,
           isKnown |-> FALSE]
  BY <1>3, <1>4 DEF IsRowObject
<1>7. /\ x.element = v.element /\ x.group = v.group /\ x.keyboard = v.keyboard
      /\ x.changed = v.changed /\ x.height = v.height /\ x.interval = v.interval
      /\ x.isKnown = FALSE
  BY <1>6
<1>8. IsRowObject(x) /\ SameRow(v, x)
  BY <1>3, <1>6, <1>7 DEF IsRowObject, SameRow
<1>9. w.table = t /\ w.row = x /\ IsMove(w)
  BY <1>3, <1>5, <1>8 DEF IsMove
<1> QED
  BY <1>1, <1>2, <1>7, <1>8, <1>9 DEF Forgets

(* From s to w the group may have moved, but it and its neighbours fit.    *)
Moves(s, w, os, k, h) ==
  /\ h \in 0..Len(os) /\ MoveOK(settings, w, os, h) /\ Carried(s, w)

(* A swap by a key other than for a root row: the interval is found anew.  *)
LEMMA KeySwap ==
  ASSUME settings \in Tables, NEW s, NEW os, NEW k, MoveOK(settings, s, os, k),
         NEW i, NEW position, NEW h, NEW u, SwapAt(s, u, os, i, position, h),
         NEW w, w = Indent(Forget(u), 0)
  PROVE  /\ Moves(s, w, os, k, h)
         /\ Fits(settings, s, os, k) /\ s.row.element \notin settings.root =>
              Placed(settings, w, os, h)
<1>2. PICK v : v = Forget(u)
  OBVIOUS
<1>3. h \in 0..Len(os) /\ GoesTo(s, u, os, h) /\ MoveOK(settings, u, os, h)
  BY SwapKeeps
<1>4. Forgets(u, v)
  BY <1>2, <1>3, ForgetIs DEF MoveOK, Stands
<1>5. v.table = u.table /\ SameRow(u.row, v.row) /\ v.row.isKnown = FALSE /\ IsMove(v)
  BY <1>4 DEF Forgets
<1>6. Stands(v, os, h)
  BY <1>3, <1>5 DEF MoveOK, Stands, SameRow
<1>7. MoveOK(settings, v, os, h)
  BY <1>3, <1>5, <1>6, StaysOK
<1>8. w = Indent(v, 0) /\ 0 \in Int
  BY <1>2
<1>9. MoveOK(settings, w, os, h) /\ SameRow(v.row, w.row)
  <2>1. PICK iv : KnowsOK(settings, v, iv)
    BY <1>7, IntervalFound
  <2>2. MoveOK(settings, w, os, h) /\ \E d \in Int : IndentsBy(v, w, iv, 0, d)
    BY <1>7, <1>8, <2>1, IndentKeeps
  <2> QED
    BY <2>2 DEF IndentsBy
<1>10. SameRow(s.row, v.row)
  BY <1>3, <1>5, SameRowTwice DEF GoesTo
<1>11. Moves(s, w, os, k, h)
  <2>1. IsMove(s)
    BY DEF MoveOK, Stands
  <2>2. Carried(s, v)
    <3>1. v.row.changed = TRUE /\ v.table.indent = s.table.indent
      BY <1>3, <1>4, <1>5 DEF Forgets, GoesTo
    <3> QED
      BY <1>10, <2>1, <3>1, GoesCarried
  <2>3. Carried(v, w)
    BY <1>7, <1>8, IndentCarried
  <2> QED
    BY <1>3, <1>9, <2>1, <2>2, <2>3, CarriedTwice DEF Moves
<1>12. ASSUME Fits(settings, s, os, k), s.row.element \notin settings.root
       PROVE  Placed(settings, w, os, h)
  <2>1. /\ v.table.indent = s.table.indent /\ v.row.group = s.row.group
        /\ v.row.element = s.row.element
    BY <1>3, <1>5, <1>10 DEF GoesTo, SameRow
  <2>2. Fits(settings, v, os, h)
    BY <1>5, <1>12, <2>1 DEF Fits, Known
  <2> QED
    BY <1>7, <1>8, <2>2, IndentPlaces
<1> QED
  BY <1>11, <1>12

(* A swap of a root row: it goes to where the next row is at the root.     *)
LEMMA RootSwap ==
  ASSUME settings \in Tables, NEW s, NEW os, NEW k, MoveOK(settings, s, os, k),
         NEW i, NEW position, NEW h, NEW w, SwapAt(s, w, os, i, position, h)
  PROVE  /\ Moves(s, w, os, k, h)
         /\ /\ Fits(settings, s, os, k) /\ s.row.element \in settings.root
            /\ Lo(s.table.indent, os, h) = 0
            => Placed(settings, w, os, h)
<1>1. h \in 0..Len(os) /\ GoesTo(s, w, os, h) /\ MoveOK(settings, w, os, h)
  BY SwapKeeps
<1>2. Moves(s, w, os, k, h)
  <2>1. IsMove(s)
    BY DEF MoveOK, Stands
  <2>2. Carried(s, w)
    BY <1>1, <2>1, GoesCarried DEF GoesTo
  <2> QED
    BY <1>1, <2>2 DEF Moves
<1>3. ASSUME Fits(settings, s, os, k), s.row.element \in settings.root,
             Lo(s.table.indent, os, h) = 0
      PROVE  Placed(settings, w, os, h)
  <2>1. PICK ind : ind = s.table.indent
    OBVIOUS
  <2>2. /\ w.table.indent = ind /\ w.row.group = s.row.group
        /\ w.row.element = s.row.element
    BY <1>1, <2>1 DEF GoesTo, SameRow
  <2>3. Fits(settings, w, os, h)
    BY <1>3, <2>1, <2>2 DEF Fits, Known
  <2>4. Stands(s, os, k) /\ Allowed(settings, ind) /\ ind \in [Row -> Int]
    BY <2>1 DEF MoveOK, Stands, IsMove, IsTable
  <2>5. GroupOf(s, os, s.row.group)
    BY <2>4, GroupRows
  <2>6. ind[s.row.element] = 0
    BY <1>3, <2>4, <2>5 DEF GroupOf, Allowed
  <2>7. \A q \in Row : ind[q] \in Nat
    BY <2>4 DEF Allowed
  <2>8. Hi(settings, ind, os, h) >= 0
    BY <2>7 DEF Hi, RoomAfter
  <2> QED
    BY <1>3, <2>1, <2>2, <2>3, <2>6, <2>8 DEF Placed
<1> QED
  BY <1>2, <1>3

(* What a key or an event does to a move, calm as long as it may.          *)
Keeps(s, w, os, k, calm) ==
  \E h : /\ Moves(s, w, os, k, h)
         /\ calm /\ Placed(settings, s, os, k) => Placed(settings, w, os, h)

(* An event that does nothing.                                             *)
LEMMA NothingKeeps ==
  ASSUME NEW s, NEW os, NEW k, MoveOK(settings, s, os, k), NEW calm
  PROVE  Keeps(s, s, os, k, calm)
<1>1. k \in 0..Len(os)
  BY DEF MoveOK, Stands, Holds
<1>2. Moves(s, s, os, k, k)
  <2>1. IsMove(s) /\ SameRow(s.row, s.row)
    BY DEF MoveOK, Stands, SameRow
  <2>2. Carried(s, s)
    BY <2>1, GoesCarried
  <2> QED
    BY <1>1, <2>2 DEF Moves
<1> QED
  BY <1>2 DEF Keeps

(* An event that only indents.                                             *)
LEMMA IndentAlone ==
  ASSUME settings \in Tables, NEW s, NEW os, NEW k, MoveOK(settings, s, os, k),
         NEW diff \in Int, NEW w, w = Indent(s, diff), NEW calm
  PROVE  Keeps(s, w, os, k, calm)
<1>1. k \in 0..Len(os)
  BY DEF MoveOK, Stands, Holds
<1>2. PICK iv : KnowsOK(settings, s, iv)
  BY IntervalFound
<1>3. MoveOK(settings, w, os, k)
  BY <1>2, IndentKeeps
<1>4. Moves(s, w, os, k, k)
  BY <1>1, <1>3, IndentCarried DEF Moves
<1>5. Placed(settings, s, os, k) => Placed(settings, w, os, k)
  BY IndentPlaces DEF Placed
<1> QED
  BY <1>4, <1>5 DEF Keeps

(* The arrow up.                                                           *)
LEMMA KeyUpKeeps ==
  ASSUME settings \in Tables, NEW s, NEW os, NEW k, MoveOK(settings, s, os, k),
         NEW item, NEW w, w = KeyUp(s, item)
  PROVE  Keeps(s, w, os, k, item = s.row.element)
<1>1. PICK t : t = s.table
  OBVIOUS
<1>2. PICK g : g = s.row.group
  OBVIOUS
<1>3. Stands(s, os, k) /\ Holds(t, os, g, k) /\ s.row.element = g[1] /\ IsMove(s)
  BY <1>1, <1>2 DEF MoveOK, Stands
<1>4. HasRows(t, os, g, k)
  BY <1>3, HoldsRows
<1>5. Above(t, s.row.element) = At(os, k) /\ Place(t, s.row.element) = k + 1
  <2>1. 1 \in 1..Len(g)
    BY <1>4 DEF HasRows
  <2> QED
    BY <1>3, <2>1, GroupNeighbours, PlaceOfGroup
<1>6. Top \notin Row
  BY RowsAssumption
<1>7. CASE At(os, k) = Top
  <2>1. w = s
    BY <1>1, <1>5, <1>7 DEF KeyUp
  <2> QED
    BY <2>1, NothingKeeps
<1>8. CASE At(os, k) # Top /\ item \in settings.root
  <2>1. PICK roots : roots = {i \in Places : i < k + 1 /\ t.indent[t.order[i]] = 0}
    OBVIOUS
  <2>2. w = IF roots = {} THEN s ELSE Swap(s, "before", t.order[Max(roots)])
    BY <1>1, <1>5, <1>8, <2>1 DEF KeyUp
  <2>3. CASE roots = {}
    <3>1. w = s
      BY <2>2, <2>3
    <3> QED
      BY <3>1, NothingKeeps
  <2>4. CASE roots # {}
    <3>1. PICK p : p = Max(roots)
      OBVIOUS
    <3>2. roots \subseteq 0..Len(Rows) /\ Len(Rows) \in Nat
      BY <1>4, <2>1 DEF HasRows, Places
    <3>3. p \in roots
      BY <2>4, <3>1, <3>2, MaxIs
    <3>4. p \in 1..k /\ t.indent[t.order[p]] = 0
      BY <1>4, <2>1, <3>3 DEF HasRows, Places
    <3>5. t.order[p] = os[p] /\ p \in 1..Len(os)
      BY <1>4, <3>4 DEF HasRows
    <3>6. PICK h : h = p - 1
      OBVIOUS
    <3>7. w = Swap(s, "before", os[p])
      BY <2>2, <2>4, <3>1, <3>5
    <3>8. SwapAt(s, w, os, p, "before", h)
      BY <3>5, <3>6, <3>7 DEF SwapAt
    <3>9. Lo(s.table.indent, os, h) = 0
      <4>1. h + 1 = p
        BY <3>4, <3>6, <1>4 DEF HasRows
      <4>2. At(os, h + 1) = os[p] /\ os[p] \in Row
        BY <1>4, <3>5, <4>1 DEF At, HasRows
      <4> QED
        BY <1>1, <1>6, <3>4, <3>5, <4>2 DEF Lo, DepthOf
    <3>10. /\ Moves(s, w, os, k, h)
           /\ /\ Fits(settings, s, os, k) /\ s.row.element \in settings.root
              /\ Lo(s.table.indent, os, h) = 0
              => Placed(settings, w, os, h)
      BY <3>8, RootSwap
    <3> QED
      BY <1>8, <3>9, <3>10 DEF Keeps, Placed
  <2> QED
    BY <2>3, <2>4
<1>9. CASE At(os, k) # Top /\ item \notin settings.root
  <2>1. CASE At(os, k) = t.order[1] /\ At(os, k) \notin Draggable
    <3>1. w = s
      BY <1>1, <1>5, <1>9, <2>1 DEF KeyUp
    <3> QED
      BY <3>1, NothingKeeps
  <2>2. CASE ~ (At(os, k) = t.order[1] /\ At(os, k) \notin Draggable)
    <3>1. k \in 1..Len(os) /\ At(os, k) = os[k]
      BY <1>9 DEF At
    <3>2. PICK u : u = Swap(s, "before", os[k])
      OBVIOUS
    <3>3. w = Indent(Forget(u), 0)
      BY <1>1, <1>5, <1>9, <2>2, <3>1, <3>2 DEF KeyUp, Forget
    <3>4. PICK h : h = k - 1
      OBVIOUS
    <3>5. SwapAt(s, u, os, k, "before", h)
      BY <3>1, <3>2, <3>4 DEF SwapAt
    <3>6. /\ Moves(s, w, os, k, h)
          /\ Fits(settings, s, os, k) /\ s.row.element \notin settings.root =>
               Placed(settings, w, os, h)
      BY <3>3, <3>5, KeySwap
    <3> QED
      BY <1>9, <3>6 DEF Keeps, Placed
  <2> QED
    BY <2>1, <2>2
<1> QED
  BY <1>7, <1>8, <1>9

(* The last row that goes with another row, if that comes after the group, *)
(* is one of the other rows, and what follows it is no deeper.             *)
EndsAt(t, os, k, i) ==
  /\ i \in (k + 1)..Len(os)
  /\ Last(Group(t, os[k + 1])) = os[i]
  /\ i < Len(os) => \/ os[i + 1] \notin Draggable
                    \/ t.indent[os[i + 1]] <= t.indent[os[k + 1]]

(* The group after the one that moves.                                     *)
LEMMA NextGroup ==
  ASSUME NEW t, t.indent \in [Row -> Int], NEW os, NEW g, NEW k, Holds(t, os, g, k),
         k < Len(os)
  PROVE  \E i : EndsAt(t, os, k, i)
<1>1. HasRows(t, os, g, k) /\ IsOrder(t.order)
  BY HoldsRows
<1>2. PICK r : r = os[k + 1]
  OBVIOUS
<1>3. k + 1 \in 1..Len(os) /\ r \in Row /\ Len(os) \in Nat /\ Len(g) \in Nat /\ k \in Nat
  BY <1>1, <1>2 DEF HasRows
<1>4. Place(t, r) = Len(g) + (k + 1)
  <2>1. PICK c : c = k + 1
    OBVIOUS
  <2>2. c \in 1..Len(os) /\ r = os[c] /\ ~ (c <= k)
    BY <1>2, <1>3, <2>1
  <2>3. Place(t, os[c]) = PlaceAmong(k, Len(g), c)
    BY <2>2, PlaceOfOther
  <2> QED
    BY <2>1, <2>2, <2>3 DEF PlaceAmong
<1>5. PICK e : EndOf(t, r, e)
  BY <1>1, <1>3, GroupEnds
<1>6. PICK a : a = Len(g) + (k + 1)
  OBVIOUS
<1>7. e \in (a + 1)..(Len(Rows) + 1) /\ Len(Rows) = Len(os) + Len(g) /\ a \in Nat /\ a >= 1
  BY <1>1, <1>3, <1>4, <1>5, <1>6 DEF EndOf, HasRows
<1>8. PICK b : b = e - 1
  OBVIOUS
<1>9. b \in a..Len(Rows) /\ b \in Int /\ a \in Int /\ e = b + 1
  BY <1>3, <1>7, <1>8
<1>10. PICK s : s = Group(t, r)
  OBVIOUS
<1>11. PICK o : o = t.order
  OBVIOUS
<1>12. s = SubSeq(o, a, b)
  BY <1>4, <1>5, <1>6, <1>8, <1>10, <1>11 DEF EndOf
<1>13. Part(o, a, b, s)
  <2>1. o \in Seq(Row) /\ Len(o) = Len(Rows)
    BY <1>1, <1>11 DEF IsOrder
  <2>2. a >= 1 /\ b <= Len(o) /\ a <= b + 1
    BY <1>3, <1>7, <1>9, <2>1
  <2> QED
    BY <1>9, <1>12, <2>1, <2>2, PartIs
<1>14. Last(s) = o[b]
  <2>1. Len(s) \in 1..(b - a + 1) /\ a + Len(s) - 1 = b
    BY <1>3, <1>7, <1>9, <1>13 DEF Part
  <2>2. s[Len(s)] = o[a + Len(s) - 1]
    BY <1>13, <2>1 DEF Part
  <2> QED
    BY <2>1, <2>2 DEF Last
<1>15. PICK i : i = b - Len(g)
  OBVIOUS
<1>16. i \in (k + 1)..Len(os) /\ b = Len(g) + i
  BY <1>3, <1>6, <1>7, <1>9, <1>15
<1>17. o[b] = os[i]
  BY <1>1, <1>11, <1>16 DEF HasRows
<1>18. ASSUME i < Len(os)
       PROVE  os[i + 1] \notin Draggable \/ t.indent[os[i + 1]] <= t.indent[r]
  <2>1. i + 1 \in (k + 1)..Len(os) /\ e = Len(g) + (i + 1) /\ e <= Len(Rows)
    BY <1>3, <1>7, <1>9, <1>16, <1>18
  <2>2. t.order[Len(g) + (i + 1)] = os[i + 1]
    BY <1>1, <2>1 DEF HasRows
  <2> QED
    BY <1>5, <2>1, <2>2 DEF EndOf
<1>19. EndsAt(t, os, k, i)
  BY <1>2, <1>10, <1>14, <1>16, <1>17, <1>18 DEF EndsAt
<1> QED
  BY <1>19

(* The arrow down.                                                         *)
LEMMA KeyDownKeeps ==
  ASSUME settings \in Tables, NEW s, NEW os, NEW k, MoveOK(settings, s, os, k),
         NEW item, NEW w, w = KeyDown(s, item)
  PROVE  Keeps(s, w, os, k, item = s.row.element)
<1>1. PICK t : t = s.table
  OBVIOUS
<1>2. PICK g : g = s.row.group
  OBVIOUS
<1>3. Stands(s, os, k) /\ Holds(t, os, g, k) /\ s.row.element = g[1] /\ IsMove(s)
      /\ t.indent \in [Row -> Int]
  BY <1>1, <1>2 DEF MoveOK, Stands, IsMove, IsTable
<1>4. HasRows(t, os, g, k)
  BY <1>3, HoldsRows
<1>5. Below(t, Last(g)) = At(os, k + 1)
  BY <1>3, GroupNeighbours
<1>6. Top \notin Row
  BY RowsAssumption
<1>7. CASE At(os, k + 1) = Top
  <2>1. w = s
    BY <1>1, <1>2, <1>5, <1>7 DEF KeyDown
  <2> QED
    BY <2>1, NothingKeeps
<1>8. ASSUME At(os, k + 1) # Top
      PROVE  k < Len(os) /\ k + 1 \in 1..Len(os) /\ At(os, k + 1) = os[k + 1]
  <2>1. k + 1 \in 1..Len(os)
    BY <1>8 DEF At
  <2>2. k < Len(os)
    BY <1>4, <2>1 DEF HasRows
  <2> QED
    BY <2>1, <2>2 DEF At
<1>9. CASE At(os, k + 1) # Top /\ item \in settings.root
  <2>1. k < Len(os) /\ k + 1 \in 1..Len(os) /\ At(os, k + 1) = os[k + 1]
    BY <1>8, <1>9
  <2>2. PICK i : EndsAt(t, os, k, i)
    BY <1>3, <2>1, NextGroup
  <2>3. i \in 1..Len(os) /\ i \in (k + 1)..Len(os)
    BY <1>4, <2>2 DEF EndsAt, HasRows
  <2>4. w = Swap(s, "after", os[i])
    BY <1>1, <1>2, <1>5, <1>9, <2>1, <2>2 DEF KeyDown, EndsAt
  <2>5. SwapAt(s, w, os, i, "after", i)
    BY <2>3, <2>4 DEF SwapAt
  <2>6. /\ Moves(s, w, os, k, i)
        /\ /\ Fits(settings, s, os, k) /\ s.row.element \in settings.root
           /\ Lo(s.table.indent, os, i) = 0
           => Placed(settings, w, os, i)
    BY <2>5, RootSwap
  <2>7. ASSUME settings.limit = 0, s.row.element \in settings.root, Fits(settings, s, os, k)
        PROVE  Lo(s.table.indent, os, i) = 0
    <3>1. CASE i = Len(os)
      <4>1. i + 1 \notin 1..Len(os)
        BY <1>4, <3>1 DEF HasRows
      <4> QED
        BY <4>1 DEF Lo, At, DepthOf
    <3>2. CASE i < Len(os)
      <4>1. i + 1 \in 1..Len(os)
        BY <1>4, <2>3, <3>2 DEF HasRows
      <4>2. os[i + 1] \in Row /\ os[k + 1] \in Row
        BY <1>4, <2>1, <4>1 DEF HasRows
      <4>3. t.indent[os[k + 1]] = 0
        BY <1>1, <1>6, <2>1, <2>7, <4>2 DEF Fits, Lo, DepthOf
      <4>4. /\ t.indent[os[i + 1]] \in Nat
            /\ os[i + 1] \notin Draggable => t.indent[os[i + 1]] = 0
        BY <1>1, <1>3, <4>2 DEF MoveOK, Allowed, Draggable
      <4>5. t.indent[os[i + 1]] = 0
        BY <2>2, <3>2, <4>3, <4>4 DEF EndsAt
      <4> QED
        BY <1>1, <1>6, <4>1, <4>2, <4>5 DEF Lo, At, DepthOf
    <3> QED
      BY <1>4, <2>3, <3>1, <3>2 DEF HasRows
  <2>8. ASSUME settings.limit # 0 PROVE Placed(settings, w, os, i)
    BY <2>8 DEF Placed, Fits
  <2> QED
    BY <1>9, <2>6, <2>7, <2>8 DEF Keeps, Placed
<1>10. CASE At(os, k + 1) # Top /\ item \notin settings.root
  <2>1. k + 1 \in 1..Len(os) /\ At(os, k + 1) = os[k + 1]
    BY <1>8, <1>10
  <2>2. PICK h : h = k + 1
    OBVIOUS
  <2>3. PICK u : u = Swap(s, "after", os[h])
    OBVIOUS
  <2>4. w = Indent(Forget(u), 0)
    BY <1>1, <1>2, <1>5, <1>10, <2>1, <2>2, <2>3 DEF KeyDown, Forget
  <2>5. SwapAt(s, u, os, h, "after", h)
    BY <2>1, <2>2, <2>3 DEF SwapAt
  <2>6. /\ Moves(s, w, os, k, h)
        /\ Fits(settings, s, os, k) /\ s.row.element \notin settings.root =>
             Placed(settings, w, os, h)
    BY <2>4, <2>5, KeySwap
  <2> QED
    BY <1>10, <2>6 DEF Keeps, Placed
<1> QED
  BY <1>7, <1>9, <1>10

(* Every key.                                                              *)
LEMMA KeyedKeeps ==
  ASSUME settings \in Tables, NEW s, NEW os, NEW k, MoveOK(settings, s, os, k),
         NEW item, NEW key \in {"left", "right", "up", "down"}, NEW w, w = Keyed(s, item, key)
  PROVE  Keeps(s, w, os, k, item = s.row.element)
<1>1. CASE key = "left"
  <2>1. w = Indent(s, -1) /\ -1 \in Int
    BY <1>1 DEF Keyed
  <2> QED
    BY <2>1, IndentAlone
<1>2. CASE key = "right"
  <2>1. w = Indent(s, 1) /\ 1 \in Int
    BY <1>2 DEF Keyed
  <2> QED
    BY <2>1, IndentAlone
<1>3. CASE key = "up"
  <2>1. w = KeyUp(s, item)
    BY <1>3 DEF Keyed
  <2> QED
    BY <2>1, KeyUpKeeps
<1>4. CASE key = "down"
  <2>1. w = KeyDown(s, item)
    BY <1>4 DEF Keyed
  <2> QED
    BY <2>1, KeyDownKeeps
<1> QED
  BY <1>1, <1>2, <1>3, <1>4

-----------------------------------------------------------------------------
(* A pointer over another row.                                             *)

(* The pointer is over the i-th of the other rows.  The interval is that   *)
(* of the place behind or before it, and the group goes there or stays.    *)
Over(s, w, os, k, i, direction, iv, h) ==
  /\ IF direction = "down"
     THEN IsValid(settings, s.table, s.row, os[i], Below(s.table, os[i]), iv)
     ELSE IsValid(settings, s.table, s.row, Above(s.table, os[i]), os[i], iv)
  /\ h = IF iv.min > iv.max \/ (os[i] = s.table.order[1] /\ os[i] \notin Draggable) THEN k
         ELSE IF direction = "down" THEN i ELSE i - 1
  /\ Moves(s, w, os, k, h)
  /\ w.table.indent = s.table.indent /\ w.row.interval = iv /\ w.row.isKnown = TRUE

(* What DragOver() does over a row that does not move.                     *)
LEMMA OverIs ==
  ASSUME settings \in Tables, NEW s, NEW os, NEW k, MoveOK(settings, s, os, k),
         NEW i \in 1..Len(os), NEW direction, NEW w, w = DragOver(s, direction, os[i])
  PROVE  \E iv, h : Over(s, w, os, k, i, direction, iv, h)
<1>1. PICK t : t = s.table
  OBVIOUS
<1>2. PICK g : g = s.row.group
  OBVIOUS
<1>3. Stands(s, os, k) /\ Holds(t, os, g, k) /\ IsMove(s) /\ k \in 0..Len(os)
  BY <1>1, <1>2 DEF MoveOK, Stands, Holds
<1>4. HasRows(t, os, g, k) /\ GroupOf(s, os, g)
  BY <1>2, <1>3, HoldsRows, GroupRows
<1>5. Above(t, os[i]) \in Row \cup {Top} /\ Below(t, os[i]) \in Row \cup {Top}
  <2>1. At(os, i - 1) \in Row \cup {Top} /\ At(os, i + 1) \in Row \cup {Top}
    BY <1>3, AtIsRow
  <2>2. g[1] \in Row /\ g[Len(g)] \in Row
    BY <1>4 DEF HasRows
  <2>3. /\ Above(t, os[i]) = IF i = k + 1 THEN g[Len(g)] ELSE At(os, i - 1)
        /\ Below(t, os[i]) = IF i = k THEN g[1] ELSE At(os, i + 1)
    BY <1>3, OtherNeighbours
  <2> QED
    BY <2>1, <2>2, <2>3
<1>6. os[i] \in Row /\ os[i] \notin ToSet(g) /\ Top \notin Row
  BY <1>4, RowsAssumption DEF GroupOf
<1>7. PICK iv : iv = IntervalAt(s, direction, os[i])
  OBVIOUS
<1>8. Allowed(settings, t.indent) /\ HeightOK(settings, s)
  BY <1>1 DEF MoveOK
<1>9. IF direction = "down"
      THEN IsValid(settings, t, s.row, os[i], Below(t, os[i]), iv)
      ELSE IsValid(settings, t, s.row, Above(t, os[i]), os[i], iv)
  <2>1. CASE direction = "down"
    <3>1. PICK next : next = Below(t, os[i])
      OBVIOUS
    <3>2. iv = ValidIndentInterval(s.table, s.row, os[i], next)
      BY <1>1, <1>7, <2>1, <3>1 DEF IntervalAt
    <3>3. IsValid(settings, s.table, s.row, os[i], next, iv)
      BY <1>1, <1>3, <1>5, <1>8, <3>1, <3>2, ValidIs
    <3> QED
      BY <1>1, <2>1, <3>1, <3>3
  <2>2. CASE direction # "down"
    <3>1. PICK prev : prev = Above(t, os[i])
      OBVIOUS
    <3>2. iv = ValidIndentInterval(s.table, s.row, prev, os[i])
      BY <1>1, <1>7, <2>2, <3>1 DEF IntervalAt
    <3>3. IsValid(settings, s.table, s.row, prev, os[i], iv)
      BY <1>1, <1>3, <1>6, <1>8, <3>1, <3>2, ValidIs
    <3> QED
      BY <1>1, <2>2, <3>1, <3>3
  <2> QED
    BY <2>1, <2>2
<1>10. IntervalOK(settings, s.row, iv)
  BY <1>9 DEF IsValid
<1>11. iv.min \in Int /\ iv.max \in Int
  BY <1>10 DEF IntervalOK
<1>12. PICK v : v = With(s, iv)
  OBVIOUS
<1>13. HasInterval(s, v, iv)
  BY <1>3, <1>11, <1>12, WithIs
<1>14. MoveOK(settings, v, os, k)
  <2>1. IsMove(v) /\ v.table = s.table /\ SameRow(s.row, v.row) /\ v.row.interval = iv
    BY <1>13 DEF HasInterval
  <2>2. Stands(v, os, k)
    BY <1>3, <2>1 DEF Stands, SameRow
  <2> QED
    BY <1>10, <2>1, <2>2, StaysOK
<1>15. v.table.indent = s.table.indent /\ v.row.interval = iv /\ v.row.isKnown = TRUE
       /\ SameRow(s.row, v.row)
  BY <1>13 DEF HasInterval
<1>16. PICK refused : refused = (iv.min > iv.max \/ (os[i] = t.order[1] /\ os[i] \notin Draggable))
  OBVIOUS
<1>17. CASE refused
  <2>1. w = v
    BY <1>1, <1>2, <1>6, <1>7, <1>12, <1>16, <1>17 DEF DragOver
  <2>2. Moves(s, w, os, k, k)
    <3>1. Carried(s, v)
      BY <1>3, <1>13, <1>15, GoesCarried DEF HasInterval
    <3> QED
      BY <1>3, <1>14, <2>1, <3>1 DEF Moves
  <2>3. Over(s, w, os, k, i, direction, iv, k)
    BY <1>1, <1>9, <1>15, <1>16, <1>17, <2>1, <2>2 DEF Over
  <2> QED
    BY <2>3
<1>18. CASE ~refused
  <2>1. PICK position : position = IF direction = "down" THEN "after" ELSE "before"
    OBVIOUS
  <2>2. PICK h : h = IF position = "after" THEN i ELSE i - 1
    OBVIOUS
  <2>3. w = Swap(v, position, os[i])
    BY <1>1, <1>2, <1>6, <1>7, <1>12, <1>16, <1>18, <2>1 DEF DragOver
  <2>4. SwapAt(v, w, os, i, position, h)
    BY <2>2, <2>3 DEF SwapAt
  <2>5. h \in 0..Len(os) /\ GoesTo(v, w, os, h) /\ MoveOK(settings, w, os, h)
    BY <1>14, <2>4, SwapKeeps
  <2>6. /\ w.table.indent = s.table.indent /\ w.row.interval = iv /\ w.row.isKnown = TRUE
        /\ SameRow(s.row, w.row)
    BY <1>15, <2>5, SameRowTwice DEF GoesTo, SameInterval
  <2>7. h = IF direction = "down" THEN i ELSE i - 1
    BY <2>1, <2>2
  <2>8. Moves(s, w, os, k, h)
    <3>1. Carried(s, w)
      BY <1>3, <2>5, <2>6, GoesCarried DEF GoesTo
    <3> QED
      BY <2>5, <3>1 DEF Moves
  <2>9. Over(s, w, os, k, i, direction, iv, h)
    BY <1>1, <1>9, <1>16, <1>18, <2>6, <2>7, <2>8 DEF Over
  <2> QED
    BY <2>9
<1> QED
  BY <1>17, <1>18

(* Where a pointer is that drags a group of m rows, as long as it passes   *)
(* one row at a time: over the group, off the table next to it, or above   *)
(* it where a first row that is not draggable keeps it from going.         *)
Near(st, os, m, k, at) ==
  \/ at \in (k + 1)..(k + m)
  \/ at = 0 /\ k = 0
  \/ at = Len(os) + m + 1 /\ k = Len(os)
  \/ at \in {0, 1} /\ k = 1 /\ os[1] \in st.fixed

NextTo(at, to, direction) ==
  /\ to - at \in {-1, 0, 1}
  /\ to > at => direction = "down"
  /\ to < at => direction = "up"

(* It goes from place at to the i-th of the other rows.                    *)
Comes(st, os, m, k, i, at, to, direction) ==
  /\ at \in Int /\ to \in Int /\ to = PlaceAmong(k, m, i)
  /\ Near(st, os, m, k, at) /\ NextTo(at, to, direction)

Meets(st, os, m, k, i, to, direction) ==
  \/ i = k /\ to = k /\ direction # "down"
  \/ i = k + 1 /\ to = k + m + 1 /\ direction = "down"
  \/ i = 1 /\ k = 1 /\ to = 1 /\ os[1] \in st.fixed

(* The other rows a pointer can come to are neighbours of the group.       *)
LEMMA NearOther ==
  ASSUME NEW st, NEW os, Len(os) \in Nat, NEW k \in 0..Len(os), NEW m \in Nat, m >= 1,
         NEW i \in 1..Len(os), NEW at, NEW to, NEW direction,
         Comes(st, os, m, k, i, at, to, direction)
  PROVE  Meets(st, os, m, k, i, to, direction)
<1>1. CASE i <= k
  BY <1>1 DEF Comes, Meets, Near, NextTo, PlaceAmong
<1>2. CASE i > k
  BY <1>2 DEF Comes, Meets, Near, NextTo, PlaceAmong
<1> QED
  BY <1>1, <1>2

(* Over its own group or off the table, it still is near.                  *)
LEMMA NearNone ==
  ASSUME NEW st, NEW os, NEW k, NEW m, NEW at \in Int, NEW to, NEW direction,
         Len(os) \in Nat, m \in Nat, m >= 1, k \in 0..Len(os),
         Near(st, os, m, k, at), NextTo(at, to, direction),
         to \in 0..(Len(os) + m + 1),
         to \notin 1..(Len(os) + m) \/ to \in (k + 1)..(k + m)
  PROVE  Near(st, os, m, k, to)
BY DEF Near, NextTo

(* A root row goes only to where the next row is at the root level.        *)
LEMMA RootOver ==
  ASSUME settings \in Tables, settings.limit = 0,
         NEW s, NEW os, NEW k, MoveOK(settings, s, os, k), Fits(settings, s, os, k),
         s.row.element \in settings.root, NEW i \in 1..Len(os), NEW direction,
         NEW w, NEW iv, NEW h, Over(s, w, os, k, i, direction, iv, h)
  PROVE  Fits(settings, w, os, h)
<1>1. PICK ind : ind = s.table.indent
  OBVIOUS
<1>2. Stands(s, os, k) /\ Holds(s.table, os, s.row.group, k)
  BY DEF MoveOK, Stands
<1>3. HasRows(s.table, os, s.row.group, k)
  BY <1>2, HoldsRows
<1>4. Moves(s, w, os, k, h) /\ w.table.indent = ind
  BY <1>1 DEF Over
<1>5. w.row.group = s.row.group /\ w.row.element = s.row.element
  BY <1>4 DEF Moves, Carried, SameRow
<1>6. Lo(ind, os, k) = 0
  BY <1>1 DEF Fits
<1>7. iv.max = 0 /\ iv.min \in Nat
  BY DEF Over, IsValid, IntervalOK
<1>8. Top \notin Row /\ os[i] \in Row
  BY <1>3, RowsAssumption DEF HasRows
<1>9. Lo(ind, os, h) = 0
  <2>1. CASE h = k
    BY <1>6, <2>1
  <2>2. CASE h # k /\ direction = "down"
    <3>1. h = i /\ iv.min <= 0
      BY <1>7, <2>2 DEF Over
    <3>2. i # k
      BY <2>2, <3>1
    <3>3. Below(s.table, os[i]) = At(os, i + 1)
      BY <1>2, <3>2, OtherNeighbours
    <3>4. iv.min = DepthOf(ind, At(os, i + 1))
      BY <1>1, <2>2, <3>3 DEF Over, IsValid
    <3> QED
      BY <1>7, <3>1, <3>4 DEF Lo
  <2>3. CASE h # k /\ direction # "down"
    <3>1. h = i - 1 /\ iv.min <= 0
      BY <1>7, <2>3 DEF Over
    <3>2. iv.min = DepthOf(ind, os[i])
      BY <1>1, <2>3 DEF Over, IsValid
    <3>3. h + 1 = i
      BY <3>1
    <3>4. At(os, h + 1) = os[i]
      BY <3>3 DEF At
    <3> QED
      BY <1>7, <3>1, <3>2, <3>4 DEF Lo
  <2> QED
    BY <2>1, <2>2, <2>3
<1> QED
  BY <1>1, <1>4, <1>5, <1>9 DEF Fits, Known

(* Of another row a pointer reaches a neighbour of the group only, and the *)
(* interval of the place behind or before it is that between the rows the  *)
(* group then has for neighbours.                                          *)
Between(st, s, iv, os, k) ==
  /\ iv.min = Lo(s.table.indent, os, k)
  /\ iv.max = Hi(st, s.table.indent, os, k)

(* So a pointer finds the bounds of the place it sends the group to.       *)
LEMMA NearOver ==
  ASSUME settings \in Tables, settings.limit = 0,
         NEW s, NEW os, NEW k, MoveOK(settings, s, os, k), Placed(settings, s, os, k),
         s.row.element \notin settings.root, NEW i \in 1..Len(os), NEW direction,
         NEW w, NEW iv, NEW h, Over(s, w, os, k, i, direction, iv, h),
         NEW m \in Nat, m >= 1, m + Len(os) = Len(Rows), NEW at, NEW to,
         Comes(settings, os, m, k, i, at, to, direction)
  PROVE  Between(settings, s, iv, os, h) /\ Near(settings, os, m, h, to)
<1>1. PICK ind : ind = s.table.indent
  OBVIOUS
<1>2. PICK t : t = s.table
  OBVIOUS
<1>3. PICK g : g = s.row.group
  OBVIOUS
<1>4. /\ Stands(s, os, k) /\ Holds(t, os, g, k) /\ Allowed(settings, ind)
      /\ ind \in [Row -> Int] /\ s.row.element = g[1]
  BY <1>1, <1>2, <1>3 DEF MoveOK, Stands, IsMove, IsTable
<1>5. HasRows(t, os, g, k)
  BY <1>4, HoldsRows
<1>6. /\ Len(os) \in Nat /\ m \in Nat /\ m >= 1 /\ k \in 0..Len(os) /\ Len(g) = m
      /\ \A j \in 1..Len(os) : os[j] \in Row
  BY <1>5 DEF HasRows
<1>7. Meets(settings, os, m, k, i, to, direction)
  BY <1>6, NearOther
<1>8. Nested(settings, ind, os)
  BY <1>1 DEF Placed, Fits
<1>9. ASSUME NEW c \in 0..Len(os)
      PROVE  /\ Lo(ind, os, c) \in Nat /\ Hi(settings, ind, os, c) \in Nat
             /\ Lo(ind, os, c) <= Hi(settings, ind, os, c)
  BY <1>4, <1>6, <1>8, LoBelowHi
<1>10. Top \notin Row
  BY RowsAssumption
<1>11. CASE i = 1 /\ k = 1 /\ to = 1 /\ os[1] \in settings.fixed
  <2>1. t.order[1] = os[1] /\ os[1] \notin Draggable /\ 1 \in 1..Len(os)
    BY <1>5, <1>6, <1>11 DEF HasRows, Draggable
  <2>2. h = 1
    BY <1>2, <1>11, <2>1 DEF Over
  <2>3. Hi(settings, ind, os, 1) = 0 /\ At(os, 1) = os[1]
    BY <1>11, <2>1 DEF Hi, RoomAfter, At
  <2>4. Lo(ind, os, 1) = 0
    <3>1. 1 \in 0..Len(os)
      BY <1>6, <1>11
    <3> QED
      BY <1>9, <2>3, <3>1
  <2>5. Near(settings, os, m, h, to)
    BY <1>11, <2>2 DEF Near
  <2>6. CASE direction = "down"
    <3>1. Below(t, os[1]) = g[1]
      BY <1>4, <1>11, <2>1, OtherNeighbours
    <3>2. iv.min = DepthOf(ind, g[1]) /\ iv.max = RoomAfter(settings, ind, os[1])
      BY <1>1, <1>2, <1>11, <2>6, <3>1 DEF Over, IsValid
    <3>3. g[1] \in Row
      BY <1>5 DEF HasRows
    <3>4. ind[g[1]] \in Nat /\ ind[g[1]] <= 0
      BY <1>1, <1>4, <1>11, <2>3, <3>3 DEF Placed, Allowed
    <3>5. iv.min = 0
      BY <1>10, <3>2, <3>3, <3>4 DEF DepthOf
    <3>6. iv.max = 0
      BY <2>3, <3>2 DEF Hi
    <3> QED
      BY <1>1, <2>2, <2>3, <2>4, <2>5, <3>5, <3>6 DEF Between
  <2>7. CASE direction # "down"
    <3>1. Above(t, os[1]) = At(os, 1 - 1)
      BY <1>4, <1>11, <2>1, OtherNeighbours
    <3>2. At(os, 1 - 1) = Top
      BY DEF At
    <3>3. iv.min = DepthOf(ind, os[1]) /\ iv.max = RoomAfter(settings, ind, Top)
      BY <1>1, <1>2, <1>11, <2>7, <3>1, <3>2 DEF Over, IsValid
    <3>4. iv.max = 0
      BY <1>10, <3>3 DEF RoomAfter
    <3>5. iv.min = 0
      BY <1>4, <1>6, <1>10, <1>11, <2>1, <3>3 DEF DepthOf, Allowed
    <3> QED
      BY <1>1, <2>2, <2>3, <2>4, <2>5, <3>4, <3>5 DEF Between
  <2> QED
    BY <2>6, <2>7
<1>12. CASE i = k + 1 /\ to = k + m + 1 /\ direction = "down"
  <2>1. PICK c : c = k + 1
    OBVIOUS
  <2>2. c \in 1..Len(os) /\ c \in 0..Len(os) /\ c # k /\ i = c
    BY <1>6, <1>12, <2>1
  <2>3. Below(t, os[c]) = At(os, c + 1)
    BY <1>4, <2>2, OtherNeighbours
  <2>4. iv.min = DepthOf(ind, At(os, c + 1)) /\ iv.max = RoomAfter(settings, ind, os[c])
    BY <1>1, <1>2, <1>12, <2>2, <2>3 DEF Over, IsValid
  <2>5. iv.min = Lo(ind, os, c) /\ iv.max = Hi(settings, ind, os, c)
    BY <2>2, <2>4 DEF Lo, Hi, At
  <2>6. iv.min <= iv.max /\ iv.min \in Nat /\ iv.max \in Nat
    BY <1>9, <2>2, <2>5
  <2>7. os[c] # t.order[1]
    <3>1. Place(t, os[c]) = PlaceAmong(k, Len(g), c) /\ IsOrder(t.order)
      BY <1>4, <2>2, HoldsRows, PlaceOfOther
    <3>2. PlaceAmong(k, Len(g), c) # 1
      BY <1>3, <1>6, <2>1, <2>2 DEF PlaceAmong
    <3>3. 1 \in Places
      BY <1>3, <1>5, <1>6 DEF HasRows, Places
    <3>4. Place(t, t.order[1]) = 1
      BY <3>1, <3>3, OnePlace
    <3> QED
      BY <3>1, <3>2, <3>4
  <2>8. h = c
    BY <1>2, <1>12, <2>2, <2>6, <2>7 DEF Over
  <2>9. to \in (c + 1)..(c + m)
    BY <1>6, <1>12, <2>1
  <2> QED
    BY <1>1, <2>5, <2>8, <2>9 DEF Between, Near
<1>13. CASE i = k /\ to = k /\ direction # "down" /\ ~ (k = 1 /\ os[1] \in settings.fixed)
  <2>1. PICK c : c = k - 1
    OBVIOUS
  <2>2. c + 1 = k /\ k \in 1..Len(os) /\ c \in 0..Len(os) /\ k # k + 1
    BY <1>6, <1>13, <2>1
  <2>3. Above(t, os[k]) = At(os, c)
    BY <1>4, <2>1, <2>2, OtherNeighbours
  <2>4. iv.min = DepthOf(ind, os[k]) /\ iv.max = RoomAfter(settings, ind, At(os, c))
    BY <1>1, <1>2, <1>13, <2>3 DEF Over, IsValid
  <2>5. iv.min = Lo(ind, os, c) /\ iv.max = Hi(settings, ind, os, c)
    BY <2>2, <2>4 DEF Lo, Hi, At
  <2>6. iv.min <= iv.max /\ iv.min \in Nat /\ iv.max \in Nat
    BY <1>9, <2>2, <2>5
  <2>7. ~ (os[k] = t.order[1] /\ os[k] \notin Draggable)
    <3>1. SUFFICES ASSUME os[k] = t.order[1], os[k] \notin Draggable PROVE FALSE
      OBVIOUS
    <3>2. Place(t, os[k]) = PlaceAmong(k, Len(g), k) /\ IsOrder(t.order)
      BY <1>4, <2>2, HoldsRows, PlaceOfOther
    <3>3. 1 \in Places
      BY <1>3, <1>5, <1>6 DEF HasRows, Places
    <3>4. Place(t, t.order[1]) = 1
      BY <3>2, <3>3, OnePlace
    <3>5. PlaceAmong(k, Len(g), k) = k
      BY <2>2 DEF PlaceAmong
    <3>6. k = 1
      BY <3>1, <3>2, <3>4, <3>5
    <3>7. os[1] \in settings.fixed
      BY <1>6, <2>2, <3>1, <3>6 DEF Draggable
    <3> QED
      BY <1>13, <3>6, <3>7
  <2>8. h = c
    BY <1>2, <1>13, <2>1, <2>6, <2>7 DEF Over
  <2>9. to \in (c + 1)..(c + m)
    BY <1>6, <1>13, <2>2
  <2> QED
    BY <1>1, <2>5, <2>8, <2>9 DEF Between, Near
<1> QED
  BY <1>7, <1>11, <1>12, <1>13 DEF Meets

(* What the pointer does first: the group goes somewhere or stays.         *)
Drags(s, os, k, at) ==
  settings.limit = 0 /\ s.row.element \notin settings.root =>
    Near(settings, os, Len(s.row.group), k, at)

OverKeeps(s, v, os, k, at, to, direction) ==
  \E h : /\ Moves(s, v, os, k, h)
         /\ /\ Placed(settings, s, os, k) /\ Drags(s, os, k, at)
            /\ at \in Int /\ NextTo(at, to, direction)
            => Fits(settings, v, os, h) /\ Drags(v, os, h, to)

(* The pointer is over the group or off the table.                         *)
LEMMA StaysNear ==
  ASSUME settings \in Tables, NEW s, NEW os, NEW k, MoveOK(settings, s, os, k),
         NEW at, NEW to \in 0..(Len(Rows) + 1), NEW direction,
         to \notin Places \/ to \in (k + 1)..(k + Len(s.row.group)) \/ direction = "none"
  PROVE  OverKeeps(s, s, os, k, at, to, direction)
<1>1. PICK m : m = Len(s.row.group)
  OBVIOUS
<1>2. PICK st : st = settings
  OBVIOUS
<1>3. HasRows(s.table, os, s.row.group, k)
  BY HoldsRows DEF MoveOK, Stands
<1>4. Len(os) \in Nat /\ m \in Nat /\ m >= 1 /\ k \in 0..Len(os) /\ Len(Rows) = Len(os) + m
  BY <1>1, <1>3 DEF HasRows
<1>5. Moves(s, s, os, k, k)
  <2>1. IsMove(s) /\ SameRow(s.row, s.row)
    BY DEF MoveOK, Stands, SameRow
  <2>2. Carried(s, s)
    BY <2>1, GoesCarried
  <2> QED
    BY <1>4, <2>2 DEF Moves
<1>6. ASSUME at \in Int, Near(st, os, m, k, at), NextTo(at, to, direction)
      PROVE  Near(st, os, m, k, to)
  <2>1. CASE direction = "none"
    <3>1. to = at
      BY <1>4, <1>6, <2>1 DEF NextTo
    <3> QED
      BY <1>6, <3>1
  <2>2. CASE direction # "none"
    <3>1. to \in 0..(Len(os) + m + 1)
      BY <1>4
    <3>2. to \notin 1..(Len(os) + m) \/ to \in (k + 1)..(k + m)
      BY <1>1, <1>4, <2>2 DEF Places
    <3> QED
      BY <1>4, <1>6, <3>1, <3>2, NearNone
  <2> QED
    BY <2>1, <2>2
<1>7. ASSUME Drags(s, os, k, at), at \in Int, NextTo(at, to, direction)
      PROVE  Drags(s, os, k, to)
  BY <1>1, <1>2, <1>6, <1>7 DEF Drags
<1> QED
  BY <1>5, <1>7 DEF OverKeeps, Placed

(* The pointer is anywhere.                                                *)
LEMMA DragOverKeeps ==
  ASSUME settings \in Tables, NEW s, NEW os, NEW k, MoveOK(settings, s, os, k),
         NEW at, NEW to \in 0..(Len(Rows) + 1), NEW direction,
         NEW v, v = IF direction = "none" THEN s ELSE DragOver(s, direction, RowAt(s.table, to))
  PROVE  OverKeeps(s, v, os, k, at, to, direction)
<1>1. PICK m : m = Len(s.row.group)
  OBVIOUS
<1>2. Stands(s, os, k) /\ Holds(s.table, os, s.row.group, k)
  BY DEF MoveOK, Stands
<1>3. HasRows(s.table, os, s.row.group, k)
  BY <1>2, HoldsRows
<1>4. m \in Nat /\ m >= 1 /\ m + Len(os) = Len(Rows) /\ to \in Int
  BY <1>1, <1>3 DEF HasRows
<1>5. CASE direction = "none"
  BY <1>5, StaysNear
<1>6. CASE direction # "none" /\ to \notin Places /\ RowAt(s.table, to) = Top
  <2>1. v = s
    BY <1>6 DEF DragOver
  <2> QED
    BY <1>6, <2>1, StaysNear
<1>7. CASE /\ direction # "none" /\ to \in (k + 1)..(k + Len(s.row.group))
           /\ RowAt(s.table, to) \in ToSet(s.row.group)
  <2>1. v = s
    BY <1>7 DEF DragOver
  <2> QED
    BY <1>7, <2>1, StaysNear
<1>8. ASSUME direction # "none", NEW i \in 1..Len(os), to = PlaceAmong(k, Len(s.row.group), i),
             RowAt(s.table, to) = os[i]
      PROVE  OverKeeps(s, v, os, k, at, to, direction)
  <2>1. v = DragOver(s, direction, os[i])
    BY <1>8
  <2>2. PICK iv, h : Over(s, v, os, k, i, direction, iv, h)
    BY <2>1, OverIs
  <2>3. Moves(s, v, os, k, h) /\ SameRow(s.row, v.row)
        /\ v.table.indent = s.table.indent /\ v.row.interval = iv
    BY <2>2 DEF Over, Moves, Carried
  <2>4. v.row.group = s.row.group /\ v.row.element = s.row.element
    BY <2>3 DEF SameRow
  <2>5. ASSUME settings.limit = 0, Placed(settings, s, os, k), Drags(s, os, k, at),
               at \in Int, NextTo(at, to, direction)
        PROVE  Fits(settings, v, os, h) /\ Drags(v, os, h, to)
    <3>1. CASE s.row.element \in settings.root
      <4>1. Fits(settings, s, os, k)
        BY <2>5 DEF Placed
      <4>2. Fits(settings, v, os, h)
        BY <2>2, <2>5, <3>1, <4>1, RootOver
      <4> QED
        BY <2>4, <3>1, <4>2 DEF Drags
    <3>2. CASE s.row.element \notin settings.root
      <4>1. Near(settings, os, m, k, at)
        BY <1>1, <2>5, <3>2 DEF Drags
      <4>2. Comes(settings, os, m, k, i, at, to, direction)
        BY <1>1, <1>4, <1>8, <2>5, <4>1 DEF Comes
      <4>3. Between(settings, s, iv, os, h) /\ Near(settings, os, m, h, to)
        BY <1>4, <2>2, <2>5, <3>2, <4>2, NearOver
      <4>4. Drags(v, os, h, to)
        BY <1>1, <2>4, <4>3 DEF Drags
      <4>5. Fits(settings, v, os, h)
        BY <2>3, <2>4, <2>5, <3>2, <4>3 DEF Fits, Placed, Known, Between
      <4> QED
        BY <4>4, <4>5
    <3> QED
      BY <3>1, <3>2
  <2>6. ASSUME settings.limit # 0 PROVE Fits(settings, v, os, h) /\ Drags(v, os, h, to)
    BY <2>6 DEF Fits, Drags
  <2> QED
    BY <2>3, <2>5, <2>6 DEF OverKeeps
<1> QED
  <2>1. \/ to \notin Places /\ RowAt(s.table, to) = Top
        \/ to \in (k + 1)..(k + Len(s.row.group)) /\ RowAt(s.table, to) \in ToSet(s.row.group)
        \/ \E i \in 1..Len(os) : /\ to = PlaceAmong(k, Len(s.row.group), i)
                                 /\ RowAt(s.table, to) = os[i]
    BY <1>2, <1>4, AtPlace
  <2> QED
    BY <1>5, <1>6, <1>7, <1>8, <2>1

(* And then it indents the group.                                          *)
DraggedTo(s, w, os, k, at, to, direction) ==
  \E h : /\ Moves(s, w, os, k, h)
         /\ /\ Placed(settings, s, os, k) /\ Drags(s, os, k, at)
            /\ at \in Int /\ NextTo(at, to, direction)
            => Placed(settings, w, os, h) /\ Drags(w, os, h, to)

(* One event of the pointer, as a whole.                                   *)
LEMMA DraggedKeeps ==
  ASSUME settings \in Tables, NEW s, NEW os, NEW k, MoveOK(settings, s, os, k),
         NEW at, NEW to \in 0..(Len(Rows) + 1), NEW direction, NEW diff \in Int,
         NEW w, w = Indent(IF direction = "none" THEN s
                           ELSE DragOver(s, direction, RowAt(s.table, to)), diff)
  PROVE  DraggedTo(s, w, os, k, at, to, direction)
<1>1. PICK v : v = IF direction = "none" THEN s ELSE DragOver(s, direction, RowAt(s.table, to))
  OBVIOUS
<1>2. OverKeeps(s, v, os, k, at, to, direction)
  BY <1>1, DragOverKeeps
<1>3. PICK h : /\ Moves(s, v, os, k, h)
               /\ /\ Placed(settings, s, os, k) /\ Drags(s, os, k, at)
                  /\ at \in Int /\ NextTo(at, to, direction)
                  => Fits(settings, v, os, h) /\ Drags(v, os, h, to)
  BY <1>2 DEF OverKeeps
<1>4. w = Indent(v, diff)
  BY <1>1
<1>5. MoveOK(settings, v, os, h) /\ Carried(s, v) /\ h \in 0..Len(os)
  BY <1>3 DEF Moves
<1>6. PICK iv : KnowsOK(settings, v, iv)
  BY <1>5, IntervalFound
<1>7. MoveOK(settings, w, os, h) /\ \E d \in Int : IndentsBy(v, w, iv, diff, d)
  BY <1>4, <1>5, <1>6, IndentKeeps
<1>8. SameRow(v.row, w.row)
  BY <1>7 DEF IndentsBy
<1>9. Moves(s, w, os, k, h)
  <2>1. IsMove(s) /\ Carried(v, w)
    BY <1>4, <1>5, IndentCarried DEF MoveOK, Stands
  <2> QED
    BY <1>5, <1>7, <2>1, CarriedTwice DEF Moves
<1>10. ASSUME Fits(settings, v, os, h), Drags(v, os, h, to)
       PROVE  Placed(settings, w, os, h) /\ Drags(w, os, h, to)
  <2>1. Placed(settings, w, os, h)
    BY <1>4, <1>5, <1>10, IndentPlaces
  <2>2. Drags(w, os, h, to)
    BY <1>8, <1>10 DEF Drags, SameRow
  <2> QED
    BY <2>1, <2>2
<1> QED
  BY <1>3, <1>9, <1>10 DEF DraggedTo

-----------------------------------------------------------------------------
(* From the tree that is shown to the group between its neighbours, and    *)
(* back.                                                                   *)

(* A tree, by its rows instead of its places.                              *)
LEMMA TreeByRows ==
  ASSUME NEW t, IsOrder(t.order)
  PROVE  Tree(t) <=> \A r \in Row : t.indent[r] <= RoomAfter(settings, t.indent, Above(t, r))
<1>1. \A q : Room(t, q) = RoomAfter(settings, t.indent, q)
  BY DEF Room, RoomAfter, Draggable
<1>2. ASSUME Tree(t), NEW r \in Row
      PROVE  t.indent[r] <= RoomAfter(settings, t.indent, Above(t, r))
  <2>1. Place(t, r) \in Places /\ t.order[Place(t, r)] = r
    BY <1>2, PlaceIs
  <2>2. t.indent[r] <= Room(t, RowAt(t, Place(t, r) - 1))
    BY <1>2, <2>1 DEF Tree
  <2> QED
    BY <1>1, <2>2 DEF Above
<1>3. ASSUME \A r \in Row : t.indent[r] <= RoomAfter(settings, t.indent, Above(t, r)),
             NEW i \in Places
      PROVE  t.indent[t.order[i]] <= Room(t, RowAt(t, i - 1))
  <2>1. t.order[i] \in Row /\ Place(t, t.order[i]) = i
    BY OnePlace
  <2>2. t.indent[t.order[i]] <= RoomAfter(settings, t.indent, Above(t, t.order[i]))
    BY <1>3, <2>1
  <2> QED
    BY <1>1, <2>1, <2>2 DEF Above
<1> QED
  BY <1>2, <1>3 DEF Tree

(* What is before the other rows of the group.                             *)
LEMMA WithinGroup ==
  ASSUME NEW t, NEW os, NEW g, NEW k, Holds(t, os, g, k), NEW j \in 2..Len(g)
  PROVE  Above(t, g[j]) = g[j - 1]
<1>1. HasRows(t, os, g, k)
  BY HoldsRows
<1>2. j \in 1..Len(g) /\ j \in Nat /\ k \in Nat
  BY <1>1 DEF HasRows
<1>3. Place(t, g[j]) = k + j /\ k + j \in Places
  BY <1>2, PlaceOfGroup
<1>4. PICK i : i = j - 1
  OBVIOUS
<1>5. i \in 1..Len(g) /\ k + j - 1 = k + i
  BY <1>1, <1>2, <1>4 DEF HasRows
<1>6. k + i \in Places /\ t.order[k + i] = g[i]
  BY <1>1, <1>5, PlaceOfGroup DEF HasRows
<1>7. Above(t, g[j]) = RowAt(t, k + i)
  <2>1. Above(t, g[j]) = RowAt(t, Place(t, g[j]) - 1)
    BY DEF Above
  <2>2. Place(t, g[j]) - 1 = k + i
    <3>1. PICK p : p = Place(t, g[j])
      OBVIOUS
    <3>2. p = k + j
      BY <1>3, <3>1
    <3>3. p - 1 = k + i
      BY <1>2, <1>4, <3>2
    <3> QED
      BY <3>1, <3>3
  <2> QED
    BY <2>1, <2>2
<1>8. RowAt(t, k + i) = g[i]
  BY <1>6 DEF RowAt
<1> QED
  BY <1>4, <1>7, <1>8

(* A row that begins to move: its group, found in the tree, fits.          *)
FromTree(t, os, g, k) ==
  /\ Nested(settings, t.indent, os) /\ Steps(settings, t.indent, g)
  /\ g[1] \in settings.root => Lo(t.indent, os, k) = 0
  /\ Lo(t.indent, os, k) <= t.indent[g[1]] /\ t.indent[g[1]] <= Hi(settings, t.indent, os, k)

(* In a tree, a group fits between its neighbours.                         *)
LEMMA TreeParts ==
  ASSUME settings \in Tables, NEW t, t.indent \in [Row -> Int], Allowed(settings, t.indent),
         Tree(t), NEW os, NEW g, NEW k, Holds(t, os, g, k),
         Deeper(settings, t.indent, g), Ends(settings, t.indent, os, g, k)
  PROVE  FromTree(t, os, g, k)
<1>1. HasRows(t, os, g, k) /\ IsOrder(t.order)
  BY HoldsRows
<1>2. PICK ind : ind = t.indent
  OBVIOUS
<1>3. PICK st : st = settings
  OBVIOUS
<1>4. \A r \in Row : ind[r] <= RoomAfter(st, ind, Above(t, r))
  BY <1>1, <1>2, <1>3, TreeByRows
<1>5. /\ 1 \in 1..Len(g) /\ g[1] \in Row /\ k \in 0..Len(os) /\ Len(os) \in Nat
      /\ \A i \in 1..Len(os) : os[i] \in Row
      /\ \A j \in 1..Len(g) : g[j] \in Row
  BY <1>1 DEF HasRows
<1>6. \A r \in Row : ind[r] \in Nat /\ (r \in st.root \cup st.fixed => ind[r] = 0)
  BY <1>2, <1>3 DEF Allowed
<1>7. \A q : RoomAfter(st, ind, q) \in Nat
  BY <1>6 DEF RoomAfter
<1>8. ind[g[1]] <= RoomAfter(st, ind, At(os, k))
  BY <1>4, <1>5, GroupNeighbours
<1>9. Top \notin Row
  BY RowsAssumption
<1>10. Lo(ind, os, k) \in Nat /\ Lo(ind, os, k) <= ind[g[1]]
  <2>1. CASE k < Len(os)
    <3>1. k + 1 \in 1..Len(os) /\ os[k + 1] \in Row
      BY <1>5, <2>1
    <3>2. Lo(ind, os, k) = ind[os[k + 1]]
      BY <1>9, <3>1 DEF Lo, DepthOf, At
    <3>3. os[k + 1] \in st.fixed \/ ind[os[k + 1]] <= ind[g[1]]
      BY <1>2, <1>3, <2>1 DEF Ends
    <3> QED
      BY <1>5, <1>6, <3>1, <3>2, <3>3
  <2>2. CASE ~ (k < Len(os))
    <3>1. k + 1 \notin 1..Len(os)
      BY <1>5, <2>2
    <3>2. Lo(ind, os, k) = 0
      BY <3>1 DEF Lo, DepthOf, At
    <3> QED
      BY <1>5, <1>6, <3>2
  <2> QED
    BY <2>1, <2>2
<1>11. ASSUME NEW j \in 1..Len(os) PROVE ind[os[j]] <= RoomAfter(st, ind, At(os, j - 1))
  <2>1. ind[os[j]] <= RoomAfter(st, ind, Above(t, os[j]))
    BY <1>4, <1>5
  <2>2. CASE j = k + 1
    <3>1. ind[os[j]] = Lo(ind, os, k)
      BY <1>5, <1>9, <2>2 DEF Lo, DepthOf, At
    <3>2. j - 1 = k
      BY <1>5, <2>2
    <3>3. ind[os[j]] <= RoomAfter(st, ind, At(os, k))
      BY <1>5, <1>6, <1>7, <1>8, <1>10, <3>1
    <3> QED
      BY <3>2, <3>3
  <2>3. CASE j # k + 1
    <3>1. Above(t, os[j]) = At(os, j - 1)
      BY <2>3, OtherNeighbours
    <3> QED
      BY <2>1, <3>1
  <2> QED
    BY <2>2, <2>3
<1>12. ASSUME NEW j \in 2..Len(g) PROVE ind[g[j]] <= RoomAfter(st, ind, g[j - 1])
  <2>1. Above(t, g[j]) = g[j - 1]
    BY WithinGroup
  <2>2. g[j] \in Row
    BY <1>1 DEF HasRows
  <2> QED
    BY <1>4, <2>1, <2>2
<1>13. g[1] \in st.root => Lo(ind, os, k) = 0
  BY <1>5, <1>6, <1>10
<1> QED
  BY <1>2, <1>3, <1>8, <1>10, <1>11, <1>12, <1>13 DEF FromTree, Nested, Steps, Hi

(* A group that fits between its neighbours leaves a tree.                 *)
LEMMA TreeAgain ==
  ASSUME settings \in Tables, settings.limit = 0, NEW s, NEW os, NEW k,
         MoveOK(settings, s, os, k), Placed(settings, s, os, k)
  PROVE  Tree(s.table)
<1>1. PICK t : t = s.table
  OBVIOUS
<1>2. PICK g : g = s.row.group
  OBVIOUS
<1>3. PICK ind : ind = t.indent
  OBVIOUS
<1>4. PICK st : st = settings
  OBVIOUS
<1>5. /\ Holds(t, os, g, k) /\ s.row.element = g[1] /\ ind \in [Row -> Int]
      /\ Deeper(st, ind, g) /\ Allowed(st, ind)
  BY <1>1, <1>2, <1>3, <1>4 DEF MoveOK, Stands, IsMove, IsTable
<1>6. HasRows(t, os, g, k) /\ IsOrder(t.order)
  BY <1>5, HoldsRows
<1>7. /\ 1 \in 1..Len(g) /\ Len(g) \in 1..Len(g) /\ g[1] \in Row /\ k \in 0..Len(os)
      /\ Len(os) \in Nat /\ Len(g) \in Nat
      /\ \A i \in 1..Len(os) : os[i] \in Row
      /\ \A j \in 1..Len(g) : g[j] \in Row
  BY <1>6 DEF HasRows
<1>8. \A r \in Row : ind[r] \in Nat
  BY <1>5 DEF Allowed
<1>9. \A q : RoomAfter(st, ind, q) \in Nat
  BY <1>8 DEF RoomAfter
<1>10. /\ Nested(st, ind, os) /\ Steps(st, ind, g)
       /\ Lo(ind, os, k) <= ind[g[1]] /\ ind[g[1]] <= Hi(st, ind, os, k)
  BY <1>1, <1>2, <1>3, <1>4, <1>5 DEF Placed, Fits
<1>11. Top \notin Row
  BY RowsAssumption
<1>12. ASSUME NEW i \in 1..Len(os) PROVE ind[os[i]] <= RoomAfter(st, ind, Above(t, os[i]))
  <2>1. CASE i = k + 1
    <3>1. Above(t, os[i]) = g[Len(g)]
      BY <1>5, <2>1, OtherNeighbours
    <3>2. ind[os[i]] = Lo(ind, os, k)
      BY <1>7, <1>11, <2>1 DEF Lo, DepthOf, At
    <3>3. ind[g[1]] <= ind[g[Len(g)]]
      <4>1. CASE Len(g) = 1
        BY <1>7, <1>8, <4>1
      <4>2. CASE Len(g) # 1
        <5>1. Len(g) \in 2..Len(g)
          BY <1>7, <4>2
        <5> QED
          BY <1>5, <1>7, <1>8, <5>1 DEF Deeper
      <4> QED
        BY <4>1, <4>2
    <3>4. PICK last : last = g[Len(g)]
      OBVIOUS
    <3>5. last \in Row \ st.fixed /\ ind[last] \in Nat
      BY <1>5, <1>7, <1>8, <3>4 DEF Deeper
    <3>6. ind[last] <= RoomAfter(st, ind, last)
      BY <3>5 DEF RoomAfter
    <3>7. ind[g[1]] \in Nat /\ ind[os[i]] \in Nat /\ RoomAfter(st, ind, last) \in Nat
      BY <1>7, <1>8, <1>9
    <3> QED
      BY <1>10, <3>1, <3>2, <3>3, <3>4, <3>5, <3>6, <3>7
  <2>2. CASE i # k + 1
    <3>1. Above(t, os[i]) = At(os, i - 1)
      BY <1>5, <2>2, OtherNeighbours
    <3> QED
      BY <1>10, <3>1 DEF Nested
  <2> QED
    BY <2>1, <2>2
<1>13. ASSUME NEW j \in 1..Len(g) PROVE ind[g[j]] <= RoomAfter(st, ind, Above(t, g[j]))
  <2>1. CASE j = 1
    <3>1. Above(t, g[j]) = At(os, k)
      BY <1>5, <2>1, GroupNeighbours
    <3> QED
      BY <1>10, <2>1, <3>1 DEF Hi
  <2>2. CASE j # 1
    <3>1. j \in 2..Len(g)
      BY <1>7, <2>2
    <3>2. Above(t, g[j]) = g[j - 1]
      BY <1>5, <3>1, WithinGroup
    <3> QED
      BY <1>10, <3>1, <3>2 DEF Steps
  <2> QED
    BY <2>1, <2>2
<1>14. \A r \in Row : ind[r] <= RoomAfter(st, ind, Above(t, r))
  <2>1. \A r \in Row : \/ \E i \in 1..Len(os) : os[i] = r
                       \/ \E j \in 1..Len(g) : g[j] = r
    BY <1>5 DEF Holds, Parts
  <2> QED
    BY <1>12, <1>13, <2>1
<1> QED
  BY <1>1, <1>3, <1>4, <1>6, <1>14, TreeByRows

(* The rows that move are still the row and all its descendants.           *)
LEMMA GroupAgain ==
  ASSUME settings \in Tables, settings.limit = 0, NEW s, NEW os, NEW k,
         MoveOK(settings, s, os, k), Placed(settings, s, os, k)
  PROVE  Group(s.table, s.row.element) = s.row.group
<1>1. PICK t : t = s.table
  OBVIOUS
<1>2. PICK g : g = s.row.group
  OBVIOUS
<1>3. PICK ind : ind = t.indent
  OBVIOUS
<1>4. /\ Holds(t, os, g, k) /\ s.row.element = g[1] /\ ind \in [Row -> Int]
      /\ Deeper(settings, ind, g) /\ Allowed(settings, ind)
  BY <1>1, <1>2, <1>3 DEF MoveOK, Stands, IsMove, IsTable
<1>5. HasRows(t, os, g, k) /\ IsOrder(t.order)
  BY <1>4, HoldsRows
<1>6. Lo(ind, os, k) <= ind[g[1]]
  BY <1>1, <1>2, <1>3, <1>4 DEF Placed
<1>7. /\ 1 \in 1..Len(g) /\ g[1] \in Row /\ k \in 0..Len(os) /\ k \in Nat
      /\ Len(os) \in Nat /\ Len(g) \in Nat /\ Len(os) + Len(g) = Len(Rows)
  BY <1>5 DEF HasRows
<1>8. PICK r : r = g[1]
  OBVIOUS
<1>9. Place(t, r) = k + 1
  BY <1>4, <1>7, <1>8, PlaceOfGroup
<1>10. PICK e : EndOf(t, r, e)
  BY <1>3, <1>4, <1>5, <1>7, <1>8, GroupEnds
<1>11. PICK a : a = k + 1
  OBVIOUS
<1>12. PICK b : b = k + Len(g)
  OBVIOUS
<1>13. /\ e \in (a + 1)..(Len(Rows) + 1) /\ Group(t, r) = SubSeq(t.order, a, e - 1)
       /\ \A j \in (a + 1)..(e - 1) : t.order[j] \in Draggable /\ ind[t.order[j]] > ind[r]
       /\ e <= Len(Rows) => t.order[e] \notin Draggable \/ ind[t.order[e]] <= ind[r]
  BY <1>3, <1>9, <1>10, <1>11 DEF EndOf
<1>14. ASSUME e <= b PROVE FALSE
  <2>1. PICK j : j = e - k
    OBVIOUS
  <2>2. j \in 2..Len(g) /\ j \in 1..Len(g) /\ k + j = e /\ e <= Len(Rows)
    <3>1. e \in Int /\ e >= k + 2
      BY <1>7, <1>11, <1>13
    <3> QED
      BY <1>7, <1>12, <1>14, <2>1, <3>1
  <2>3. t.order[e] = g[j] /\ g[j] \in Row
    BY <1>5, <2>2 DEF HasRows
  <2>4. g[j] \notin settings.fixed /\ ind[g[j]] > ind[g[1]]
    BY <1>4, <2>2 DEF Deeper
  <2>5. ind[g[j]] \in Int /\ ind[g[1]] \in Int
    BY <1>4, <1>7, <2>3
  <2> QED
    BY <1>8, <1>13, <2>2, <2>3, <2>4, <2>5 DEF Draggable
<1>15. ASSUME e > b + 1 PROVE FALSE
  <2>1. PICK c : c = k + 1
    OBVIOUS
  <2>2. b + 1 \in (a + 1)..(e - 1) /\ b + 1 = Len(g) + c /\ c \in (k + 1)..Len(os)
        /\ c \in 1..Len(os)
    <3>1. e \in Int /\ e <= Len(Rows) + 1
      BY <1>7, <1>11, <1>13
    <3> QED
      BY <1>7, <1>11, <1>12, <1>15, <2>1, <3>1
  <2>3. t.order[Len(g) + c] = os[c] /\ os[c] \in Row
    BY <1>5, <2>2 DEF HasRows
  <2>4. ind[os[c]] > ind[g[1]]
    BY <1>8, <1>13, <2>2, <2>3
  <2>5. Lo(ind, os, k) = ind[os[c]]
    BY <2>1, <2>2, <2>3, RowsAssumption DEF Lo, DepthOf, At
  <2>6. ind[os[c]] \in Int /\ ind[g[1]] \in Int
    BY <1>4, <1>7, <2>3
  <2> QED
    BY <1>6, <2>4, <2>5, <2>6
<1>16. e - 1 = b /\ b \in Int /\ a \in Int /\ a >= 1 /\ b <= Len(Rows) /\ a <= b + 1
       /\ b - a + 1 = Len(g)
  BY <1>7, <1>11, <1>12, <1>13, <1>14, <1>15
<1>17. PICK o : o = t.order
  OBVIOUS
<1>18. PICK q : q = SubSeq(o, a, b)
  OBVIOUS
<1>19. o \in Seq(Row) /\ Len(o) = Len(Rows)
  BY <1>5, <1>17 DEF IsOrder
<1>20. Part(o, a, b, q)
  BY <1>16, <1>18, <1>19, PartIs
<1>21. q \in Seq(Row) /\ Len(q) = Len(g) /\ \A j \in 1..Len(g) : q[j] = o[a + j - 1]
  BY <1>16, <1>20 DEF Part
<1>22. g \in Seq(Row)
  BY <1>4 DEF Holds, Parts
<1>23. \A j \in 1..Len(g) : q[j] = g[j]
  <2>1. ASSUME NEW j \in 1..Len(g) PROVE o[k + j] = g[j]
    BY <1>5, <1>17 DEF HasRows
  <2>2. ASSUME NEW j \in 1..Len(g) PROVE a + j - 1 = k + j
    BY <1>7, <1>11
  <2> QED
    BY <1>21, <2>1, <2>2
<1>24. q = g
  BY <1>21, <1>22, <1>23
<1> QED
  BY <1>1, <1>2, <1>4, <1>8, <1>13, <1>16, <1>17, <1>18, <1>24

(* A row object as it is made.                                             *)
Starts(t, s, os, k, r, keyboard) ==
  /\ MoveOK(settings, s, os, k)
  /\ s.table = t /\ s.row.element = r /\ s.row.keyboard = keyboard /\ Place(t, r) = k + 1
  /\ (settings.limit = 0 => Tree(t)) => Placed(settings, s, os, k)

(* A new row object is a move; in a tree, its group fits.                  *)
LEMMA NewRowStarts ==
  ASSUME settings \in Tables, NEW t, IsTable(t), IsOrder(t.order), Allowed(settings, t.indent),
         NEW r \in Draggable, NEW keyboard \in BOOLEAN,
         NEW s, s = [table |-> t, row |-> NewRow(t, r, keyboard)]
  PROVE  \E os, k : Starts(t, s, os, k, r, keyboard)
<1>1. PICK g : g = Group(t, r)
  OBVIOUS
<1>2. PICK ind : ind = t.indent
  OBVIOUS
<1>3. PICK st : st = settings
  OBVIOUS
<1>4. ind \in [Row -> Int] /\ Allowed(st, ind) /\ r \in Row
  BY <1>2, <1>3 DEF IsTable, Draggable
<1>5. \E os : \E k \in 0..Len(os) :
        /\ Parts(os, g) /\ t.order = Insert(os, g, k) /\ g[1] = r
        /\ Deeper(settings, t.indent, g) /\ Ends(settings, t.indent, os, g, k)
  BY <1>1, <1>2, <1>4, GroupIs
<1>6. PICK os : \E k \in 0..Len(os) :
        /\ Parts(os, g) /\ t.order = Insert(os, g, k) /\ g[1] = r
        /\ Deeper(settings, t.indent, g) /\ Ends(settings, t.indent, os, g, k)
  BY <1>5
<1>7. PICK k \in 0..Len(os) :
        /\ Parts(os, g) /\ t.order = Insert(os, g, k) /\ g[1] = r
        /\ Deeper(settings, t.indent, g) /\ Ends(settings, t.indent, os, g, k)
  BY <1>6
<1>8. Holds(t, os, g, k)
  BY <1>7 DEF Holds, Deeper
<1>9. HasRows(t, os, g, k)
  BY <1>8, HoldsRows
<1>10. PICK height : height = Max({ind[q] : q \in ToSet(g)}) - ind[r]
  OBVIOUS
<1>11. PICK w : w = NewRow(t, r, keyboard)
  OBVIOUS
<1>12. w = [element |-> r, group |-> g, keyboard |-> keyboard, changed |-> FALSE,
            height |-> height, interval |-> NotKnown, isKnown |-> FALSE]
  BY <1>1, <1>2, <1>10, <1>11 DEF NewRow
<1>13. /\ w.element = r /\ w.group = g /\ w.keyboard = keyboard /\ w.changed = FALSE
       /\ w.height = height /\ w.interval = NotKnown /\ w.isKnown = FALSE
  BY <1>12
<1>14. NotKnown.min \in Int /\ NotKnown.max \in Int
  BY DEF NotKnown
<1>15. IsRowObject(w)
  BY <1>12, <1>13, <1>14 DEF IsRowObject
<1>16. s.table = t /\ s.row = w /\ IsMove(s)
  BY <1>11, <1>15 DEF IsMove
<1>17. Stands(s, os, k)
  BY <1>7, <1>8, <1>13, <1>16 DEF Stands
<1>18. ToSet(g) = {g[j] : j \in 1..Len(g)}
  <2>1. g = s.row.group
    BY <1>13, <1>16
  <2>2. GroupOf(s, os, g)
    BY <1>17, <2>1, GroupRows
  <2> QED
    BY <2>2 DEF GroupOf
<1>19. ASSUME st.limit # 0
       PROVE  /\ height \in 0..st.limit
              /\ \A j \in 1..Len(g) : ind[g[j]] <= ind[r] + height
  <2>1. PICK I : I = {ind[q] : q \in ToSet(g)}
    OBVIOUS
  <2>2. /\ 1 \in 1..Len(g) /\ g[1] \in ToSet(g)
        /\ \A j \in 1..Len(g) : g[j] \in Row /\ ind[g[j]] \in I
    BY <1>9, <1>18, <2>1 DEF HasRows
  <2>3. st.limit \in Nat
    BY <1>3, SettingsAre
  <2>4. \A q \in Row : ind[q] \in 0..st.limit
    BY <1>4, <1>19, <2>3 DEF Allowed
  <2>5. I \subseteq 0..st.limit
    BY <1>18, <2>1, <2>2, <2>4
  <2>6. I # {}
    BY <2>2
  <2>7. Max(I) \in I /\ \A j \in I : j <= Max(I)
    BY <2>3, <2>5, <2>6, MaxIs
  <2>8. PICK top : top = Max(I)
    OBVIOUS
  <2>9. top \in 0..st.limit /\ \A j \in I : j <= top
    BY <2>5, <2>7, <2>8
  <2>10. ind[r] \in I /\ ind[r] \in 0..st.limit
    BY <1>4, <1>7, <2>2, <2>4
  <2>11. height = top - ind[r]
    BY <1>10, <2>1, <2>8
  <2>12. height \in 0..st.limit /\ ind[r] + height = top
    BY <2>3, <2>9, <2>10, <2>11
  <2> QED
    BY <2>2, <2>9, <2>12
<1>20. HeightOK(settings, s)
  BY <1>2, <1>3, <1>13, <1>16, <1>19 DEF HeightOK
<1>21. MoveOK(settings, s, os, k)
  BY <1>2, <1>3, <1>4, <1>7, <1>13, <1>16, <1>17, <1>20 DEF MoveOK, KnownOK
<1>22. ASSUME settings.limit = 0, Tree(t) PROVE Placed(settings, s, os, k)
  <2>1. FromTree(t, os, g, k)
    BY <1>2, <1>4, <1>7, <1>8, <1>22, TreeParts
  <2> QED
    BY <1>7, <1>13, <1>16, <2>1 DEF FromTree, Placed, Fits, Known
<1>23. ASSUME settings.limit # 0 PROVE Placed(settings, s, os, k)
  BY <1>23 DEF Placed, Fits
<1>24. Place(t, r) = k + 1
  <2>1. 1 \in 1..Len(g)
    BY <1>9 DEF HasRows
  <2> QED
    BY <1>7, <1>8, <2>1, PlaceOfGroup
<1>25. Starts(t, s, os, k, r, keyboard)
  BY <1>13, <1>16, <1>21, <1>22, <1>23, <1>24 DEF Starts
<1> QED
  BY <1>25

-----------------------------------------------------------------------------
(* Fields.                                                                 *)

(* The rows, as they are sent in.                                          *)
LEMMA RowsAre == IsOrder(Rows) /\ IsFiniteSet(Row) /\ Len(Rows) \in Nat
<1>1. Rows \in Seq(Row) /\ IsInjective(Rows) /\ ToSet(Rows) = Row
  BY RowsAssumption DEF Row
<1>2. Len(Rows) \in Nat
  BY <1>1, LenProperties
<1>3. \A r \in Row : \E n \in 1..Len(Rows) : Rows[n] = r
  <2>1. \A r \in ToSet(Rows) : \E n \in DOMAIN Rows : Rows[n] = r
    BY DEF ToSet
  <2>2. DOMAIN Rows = 1..Len(Rows)
    BY <1>1, LenProperties
  <2> QED
    BY <1>1, <2>1, <2>2
<1>4. IsFiniteSet(Row)
  BY <1>1, <1>3 DEF IsFiniteSet
<1> QED
  BY <1>1, <1>2, <1>4 DEF IsOrder

(* A number of rows is a weight.                                           *)
LEMMA Weight ==
  ASSUME NEW S, S \subseteq Row
  PROVE  Cardinality(S) \in Nat
BY RowsAre, FS_Subset, FS_CardinalityType

(* The parent that is shown is a row or none.                              *)
LEMMA ParentIsRow ==
  ASSUME NEW t, IsOrder(t.order), NEW r \in Row
  PROVE  ShownParent(t, r) \in Row \cup {Top}
<1>1. PICK less : less = {i \in Places : i < Place(t, r) /\ t.indent[t.order[i]] < t.indent[r]}
  OBVIOUS
<1>2. ShownParent(t, r) = IF less = {} THEN Top ELSE t.order[Max(less)]
  BY <1>1 DEF ShownParent
<1>3. CASE less = {}
  BY <1>2, <1>3
<1>4. CASE less # {}
  <2>1. Len(Rows) \in Nat /\ less \subseteq Places
    BY <1>1, RowsAre
  <2>2. less \subseteq 0..Len(Rows)
    BY <2>1 DEF Places
  <2>3. Max(less) \in less
    BY <1>4, <2>1, <2>2, MaxIs
  <2>4. PICK p : p = Max(less)
    OBVIOUS
  <2>5. p \in Places
    BY <2>1, <2>3, <2>4
  <2>6. t.order[p] \in Row
    BY <2>5, OnePlace
  <2> QED
    BY <1>2, <1>4, <2>4, <2>6
<1> QED
  BY <1>3, <1>4

FieldsTyped(f) ==
  /\ f.parent \in [Row -> Row \cup {Top}]
  /\ f.depth \in [Row -> Int] /\ f.weight \in [Row -> Nat]

(* The fields, as they are sent in, have their types.                      *)
LEMMA ShownTyped ==
  ASSUME NEW t, IsOrder(t.order), t.indent \in [Row -> Int], NEW f, f = ShownFields(t)
  PROVE  FieldsTyped(f)
<1>1. PICK parent : parent = [r \in Row |-> ShownParent(t, r)]
  OBVIOUS
<1>2. PICK weight : weight = [r \in Row |-> Cardinality({q \in Row :
                                /\ ShownParent(t, q) = ShownParent(t, r)
                                /\ Place(t, q) < Place(t, r)})]
  OBVIOUS
<1>3. f = [parent |-> parent, depth |-> t.indent, weight |-> weight]
  BY <1>1, <1>2 DEF ShownFields
<1>4. parent \in [Row -> Row \cup {Top}]
  BY <1>1, ParentIsRow
<1>5. weight \in [Row -> Nat]
  <2>1. ASSUME NEW r \in Row
        PROVE  Cardinality({q \in Row : /\ ShownParent(t, q) = ShownParent(t, r)
                                        /\ Place(t, q) < Place(t, r)}) \in Nat
    BY Weight
  <2> QED
    BY <1>2, <2>1
<1> QED
  BY <1>3, <1>4, <1>5 DEF FieldsTyped

(* So do the fields after a drop: there is a row to copy the parent from.  *)
LEMMA UpdateTyped ==
  ASSUME FieldsTyped(fields), NEW t, IsOrder(t.order), t.indent \in [Row -> Int],
         NEW row, row.element \in Draggable, NEW f, f = UpdateFields(t, row)
  PROVE  FieldsTyped(f)
<1>1. PICK e : e = row.element
  OBVIOUS
<1>2. e \in Draggable /\ e \in Row
  BY <1>1 DEF Draggable
<1>3. PICK own : own = ParentField(t, row)
  OBVIOUS
<1>4. PICK sibling : sibling = RootSibling(t, row)
  OBVIOUS
<1>5. sibling \in Row
  <2>1. PICK next : next = Below(t, Last(row.group))
    OBVIOUS
  <2>2. PICK I : I = {i \in Places : t.order[i] \in Draggable}
    OBVIOUS
  <2>3. sibling = IF t.order[1] = e /\ next \in Draggable THEN next ELSE t.order[Min(I)]
    BY <1>1, <1>4, <2>1, <2>2 DEF RootSibling
  <2>4. I \subseteq Places /\ I # {}
    <3>1. Place(t, e) \in Places /\ t.order[Place(t, e)] = e
      BY <1>2, PlaceIs
    <3> QED
      BY <1>2, <2>2, <3>1
  <2>5. I \subseteq Nat
    BY <2>4, RowsAre DEF Places
  <2>6. Min(I) \in I
    BY <2>4, <2>5, MinIs
  <2>7. t.order[Min(I)] \in Draggable
    BY <2>2, <2>6
  <2> QED
    BY <2>3, <2>7 DEF Draggable
<1>6. own \in Row \cup {Top}
  <2>1. ShownParent(t, e) \in Row \cup {Top}
    BY <1>2, ParentIsRow
  <2>2. own = IF ShownParent(t, e) # Top THEN ShownParent(t, e) ELSE fields.parent[sibling]
    BY <1>1, <1>3, <1>4 DEF ParentField
  <2> QED
    BY <1>5, <2>1, <2>2 DEF FieldsTyped
<1>7. PICK parent : parent = [fields.parent EXCEPT ![e] = own]
  OBVIOUS
<1>8. PICK depth : depth = [q \in Row |-> IF q \in ToSet(row.group) THEN t.indent[q]
                                          ELSE fields.depth[q]]
  OBVIOUS
<1>9. PICK weight : weight = Weighed(t, row)
  OBVIOUS
<1>10. f = [parent |-> parent, depth |-> depth, weight |-> weight]
  BY <1>1, <1>3, <1>7, <1>8, <1>9 DEF UpdateFields
<1>11. parent \in [Row -> Row \cup {Top}]
  BY <1>6, <1>7 DEF FieldsTyped
<1>12. depth \in [Row -> Int]
  BY <1>8 DEF FieldsTyped
<1>13. weight \in [Row -> Nat]
  <2>1. PICK siblings : siblings = FindSiblings(t, row)
    OBVIOUS
  <2>2. siblings \subseteq Row
    BY <2>1 DEF FindSiblings, Draggable
  <2>3. weight = [q \in Row |-> IF q \in siblings
                    THEN Cardinality({p \in siblings : Place(t, p) < Place(t, q)})
                    ELSE fields.weight[q]]
    BY <1>9, <2>1 DEF Weighed
  <2>4. ASSUME NEW q \in Row
        PROVE  Cardinality({p \in siblings : Place(t, p) < Place(t, q)}) \in Nat
    BY <2>2, Weight
  <2> QED
    BY <2>3, <2>4 DEF FieldsTyped
<1> QED
  BY <1>10, <1>11, <1>12, <1>13 DEF FieldsTyped

-----------------------------------------------------------------------------
(* The parent that is shown.                                               *)

(* The last one before the j-th of some rows that is indented less.        *)
LastLess(ind, rows, j, y) ==
  /\ y \in 1..Len(rows) /\ y < j /\ ind[rows[y]] < ind[rows[j]]
  /\ \A x \in 1..Len(rows) : y < x /\ x < j => ind[rows[x]] >= ind[rows[j]]

NoneLess(ind, rows, j) ==
  \A x \in 1..Len(rows) : x < j => ind[rows[x]] >= ind[rows[j]]

(* There is one or there is none.                                          *)
LEMMA LessIs ==
  ASSUME NEW ind \in [Row -> Int], NEW rows, Len(rows) \in Nat,
         \A x \in 1..Len(rows) : rows[x] \in Row, NEW j \in 1..Len(rows)
  PROVE  NoneLess(ind, rows, j) \/ \E y : LastLess(ind, rows, j, y)
<1>1. PICK less : less = {x \in 1..Len(rows) : x < j /\ ind[rows[x]] < ind[rows[j]]}
  OBVIOUS
<1>2. \A x \in 1..Len(rows) : ind[rows[x]] \in Int
  OBVIOUS
<1>3. CASE less = {}
  <2>1. ASSUME NEW x \in 1..Len(rows), x < j PROVE ind[rows[x]] >= ind[rows[j]]
    <3>1. ~ (ind[rows[x]] < ind[rows[j]])
      BY <1>1, <1>3, <2>1
    <3> QED
      BY <1>2, <3>1
  <2> QED
    BY <2>1 DEF NoneLess
<1>4. CASE less # {}
  <2>1. less \subseteq 0..Len(rows)
    BY <1>1
  <2>2. PICK y : y = Max(less)
    OBVIOUS
  <2>3. y \in less /\ \A x \in less : x <= y
    BY <1>4, <2>1, <2>2, MaxIs
  <2>4. y \in 1..Len(rows) /\ y < j /\ ind[rows[y]] < ind[rows[j]]
    BY <1>1, <2>3
  <2>5. ASSUME NEW x \in 1..Len(rows), y < x, x < j PROVE ind[rows[x]] >= ind[rows[j]]
    <3>1. x \notin less
      BY <2>3, <2>4, <2>5
    <3>2. ~ (ind[rows[x]] < ind[rows[j]])
      BY <1>1, <2>5, <3>1
    <3> QED
      BY <1>2, <3>2
  <2>6. LastLess(ind, rows, j, y)
    BY <2>4, <2>5 DEF LastLess
  <2> QED
    BY <2>6
<1> QED
  BY <1>3, <1>4

(* The parent of a row is the last of all rows before it that is indented  *)
(* less.                                                                   *)
LEMMA ShownIs ==
  ASSUME NEW t, IsOrder(t.order), t.indent \in [Row -> Int], NEW r \in Row,
         NEW p, p = Place(t, r)
  PROVE  /\ NoneLess(t.indent, t.order, p) => ShownParent(t, r) = Top
         /\ \A y : LastLess(t.indent, t.order, p, y) =>
              ShownParent(t, r) = t.order[y] /\ t.order[y] \in Row
<1>1. PICK o, ind : o = t.order /\ ind = t.indent
  OBVIOUS
<1>2. PICK less : less = {i \in Places : i < p /\ ind[o[i]] < ind[r]}
  OBVIOUS
<1>3. ShownParent(t, r) = IF less = {} THEN Top ELSE o[Max(less)]
  BY <1>1, <1>2 DEF ShownParent
<1>4. Len(o) = Len(Rows) /\ Len(Rows) \in Nat /\ Places = 1..Len(o)
  BY <1>1, RowsAre DEF IsOrder, Places
<1>5. o[p] = r /\ p \in Places
  BY <1>1, PlaceIs
<1>6. \A i \in Places : o[i] \in Row /\ ind[o[i]] \in Int
  BY <1>1, OnePlace
<1>7. ASSUME NoneLess(ind, o, p) PROVE less = {}
  <2>1. ASSUME NEW i \in Places, i < p, ind[o[i]] < ind[r] PROVE FALSE
    <3>1. ind[o[i]] >= ind[o[p]]
      BY <1>4, <1>7, <2>1 DEF NoneLess
    <3> QED
      BY <1>5, <1>6, <2>1, <3>1
  <2> QED
    BY <1>2, <2>1
<1>8. ASSUME NEW y, LastLess(ind, o, p, y)
      PROVE  less # {} /\ Max(less) = y /\ y \in Places
  <2>1. y \in Places /\ y < p /\ ind[o[y]] < ind[r] /\ y \in less
    BY <1>2, <1>4, <1>5, <1>8 DEF LastLess
  <2>2. less \subseteq 0..Len(Rows)
    BY <1>2, <1>4
  <2>3. PICK m : m = Max(less)
    OBVIOUS
  <2>4. m \in less /\ y <= m
    BY <1>4, <2>1, <2>2, <2>3, MaxIs
  <2>5. m \in Places /\ m < p /\ ind[o[m]] < ind[r]
    BY <1>2, <2>4
  <2>6. ASSUME y < m PROVE FALSE
    <3>1. ind[o[m]] >= ind[o[p]]
      BY <1>4, <1>8, <2>5, <2>6 DEF LastLess
    <3> QED
      BY <1>5, <1>6, <2>5, <3>1
  <2>7. y = m
    <3>1. y \in Int /\ m \in Int
      BY <1>4, <2>1, <2>5
    <3> QED
      BY <2>4, <2>6, <3>1
  <2> QED
    BY <2>1, <2>3, <2>7
<1> QED
  BY <1>1, <1>3, <1>6, <1>7, <1>8

(* A table whose group keeps to itself: it adopts no row, nor is it below  *)
(* the next row.                                                           *)
Apart(t, os, g, k) ==
  /\ Holds(t, os, g, k) /\ t.indent \in [Row -> Int] /\ Deeper(settings, t.indent, g)
  /\ Lo(t.indent, os, k) <= t.indent[g[1]]

(* If some row before another one is indented less, one that does not move *)
(* is, and is not further away.                                            *)
LEMMA LessOther ==
  ASSUME NEW t, NEW os, NEW g, NEW k, Apart(t, os, g, k), NEW i \in 1..Len(os),
         NEW ind, ind = t.indent, NEW p \in Places, p < Place(t, os[i]),
         ind[t.order[p]] < ind[os[i]]
  PROVE  \E x \in 1..Len(os) : x < i /\ ind[os[x]] < ind[os[i]] /\ p <= Place(t, os[x])
<1>1. HasRows(t, os, g, k) /\ Holds(t, os, g, k)
  BY HoldsRows DEF Apart
<1>2. PICK m : m = Len(g)
  OBVIOUS
<1>3. /\ k \in 0..Len(os) /\ k \in Nat /\ Len(os) \in Nat /\ m \in Nat /\ m >= 1 /\ i \in Nat
      /\ Len(Rows) = Len(os) + m /\ Len(Rows) \in Nat
  BY <1>1, <1>2 DEF HasRows
<1>4. /\ \A x \in 1..Len(os) : os[x] \in Row /\ ind[os[x]] \in Int
      /\ \A j \in 1..Len(g) : g[j] \in Row /\ ind[g[j]] \in Int
  BY <1>1 DEF HasRows, Apart
<1>5. p \in Int /\ RowAt(t, p) = t.order[p]
  BY <1>3 DEF RowAt, Places
<1>6. \A x \in 1..Len(os) : Place(t, os[x]) = PlaceAmong(k, m, x)
  BY <1>1, <1>2, PlaceOfOther
<1>7. ASSUME NEW x \in 1..Len(os), p = PlaceAmong(k, m, x), RowAt(t, p) = os[x]
      PROVE  x < i /\ ind[os[x]] < ind[os[i]] /\ p <= Place(t, os[x])
  <2>1. PlaceAmong(k, m, x) < PlaceAmong(k, m, i)
    BY <1>6, <1>7
  <2>2. x < i
    BY <1>3, <2>1 DEF PlaceAmong
  <2>3. p = Place(t, os[x])
    BY <1>6, <1>7
  <2> QED
    BY <1>5, <1>7, <2>2, <2>3
<1>8. ASSUME p \in (k + 1)..(k + m)
      PROVE  \E x \in 1..Len(os) : x < i /\ ind[os[x]] < ind[os[i]] /\ p <= Place(t, os[x])
  <2>1. PICK j : j = p - k
    OBVIOUS
  <2>2. j \in 1..Len(g) /\ k + j = p
    BY <1>2, <1>3, <1>5, <1>8, <2>1
  <2>3. t.order[p] = g[j]
    BY <1>1, <2>2 DEF HasRows
  <2>4. ind[g[1]] <= ind[g[j]]
    <3>1. CASE j = 1
      BY <1>4, <2>2, <3>1
    <3>2. CASE j # 1
      <4>1. j \in 2..Len(g) /\ 1 \in 1..Len(g)
        BY <1>2, <1>3, <2>2, <3>2
      <4>2. ind[g[j]] > ind[g[1]]
        BY <4>1 DEF Apart, Deeper
      <4> QED
        BY <1>4, <2>2, <4>1, <4>2
    <3> QED
      BY <3>1, <3>2
  <2>5. i > k
    <3>1. p < PlaceAmong(k, m, i)
      BY <1>6
    <3> QED
      BY <1>3, <1>5, <1>8, <3>1 DEF PlaceAmong
  <2>6. PICK x : x = k + 1
    OBVIOUS
  <2>7. x \in 1..Len(os) /\ x <= i
    BY <1>3, <2>5, <2>6
  <2>8. ind[os[x]] <= ind[g[1]]
    <3>1. At(os, k + 1) = os[x] /\ os[x] # Top
      BY <1>4, <2>6, <2>7, RowsAssumption DEF At
    <3> QED
      BY <3>1 DEF Apart, Lo, DepthOf
  <2>9. ind[os[x]] < ind[os[i]]
    <3>1. 1 \in 1..Len(g)
      BY <1>2, <1>3
    <3>2. PICK a, b, c, d : a = ind[os[x]] /\ b = ind[g[1]] /\ c = ind[g[j]] /\ d = ind[os[i]]
      OBVIOUS
    <3>3. a \in Int /\ b \in Int /\ c \in Int /\ d \in Int
      BY <1>4, <2>2, <2>7, <3>1, <3>2
    <3>4. a <= b /\ b <= c /\ c < d
      BY <2>3, <2>4, <2>8, <3>2
    <3> QED
      BY <3>2, <3>3, <3>4
  <2>10. x # i
    BY <1>4, <2>9
  <2>11. p <= Place(t, os[x])
    <3>1. Place(t, os[x]) = m + x
      BY <1>3, <1>6, <2>6, <2>7 DEF PlaceAmong
    <3> QED
      BY <1>3, <1>5, <1>8, <2>6, <3>1
  <2>12. x < i
    BY <1>3, <2>6, <2>7, <2>10
  <2> QED
    BY <2>7, <2>9, <2>11, <2>12
<1>9. \/ p \in (k + 1)..(k + Len(g))
      \/ \E x \in 1..Len(os) : p = PlaceAmong(k, Len(g), x) /\ RowAt(t, p) = os[x]
  BY <1>1, <1>5, AtPlace
<1> QED
  BY <1>2, <1>7, <1>8, <1>9

(* So the parent of a row that does not move is one that does not either.  *)
LEMMA ParentOfOther ==
  ASSUME NEW t, NEW os, NEW g, NEW k, Apart(t, os, g, k), NEW i \in 1..Len(os)
  PROVE  /\ NoneLess(t.indent, os, i) => ShownParent(t, os[i]) = Top
         /\ \A y : LastLess(t.indent, os, i, y) => ShownParent(t, os[i]) = os[y]
<1>1. HasRows(t, os, g, k) /\ Holds(t, os, g, k) /\ IsOrder(t.order)
  BY HoldsRows DEF Apart
<1>2. PICK o, ind : o = t.order /\ ind = t.indent
  OBVIOUS
<1>3. PICK m : m = Len(g)
  OBVIOUS
<1>4. /\ k \in 0..Len(os) /\ Len(os) \in Nat /\ m \in Nat /\ m >= 1
      /\ Len(o) = Len(Rows) /\ Len(Rows) \in Nat /\ Places = 1..Len(o)
  BY <1>1, <1>2, <1>3 DEF HasRows, IsOrder, Places
<1>5. /\ \A x \in 1..Len(os) : os[x] \in Row /\ ind[os[x]] \in Int
      /\ \A p \in Places : o[p] \in Row /\ ind[o[p]] \in Int
      /\ ind \in [Row -> Int]
  <2>1. ind \in [Row -> Int]
    BY <1>2 DEF Apart
  <2>2. \A p \in Places : o[p] \in Row
    BY <1>1, <1>2, OnePlace
  <2> QED
    BY <1>1, <2>1, <2>2 DEF HasRows
<1>6. \A x \in 1..Len(os) : /\ Place(t, os[x]) = PlaceAmong(k, m, x)
                            /\ Place(t, os[x]) \in Places /\ o[Place(t, os[x])] = os[x]
  BY <1>1, <1>2, <1>3, <1>5, PlaceOfOther, PlaceIs
<1>7. PICK q : q = Place(t, os[i])
  OBVIOUS
<1>8. ASSUME NEW p \in Places, p < q, ind[o[p]] < ind[os[i]]
      PROVE  \E x \in 1..Len(os) : x < i /\ ind[os[x]] < ind[os[i]] /\ p <= Place(t, os[x])
  BY <1>2, <1>7, <1>8, LessOther
<1>9. /\ NoneLess(ind, o, q) => ShownParent(t, os[i]) = Top
      /\ \A y : LastLess(ind, o, q, y) => ShownParent(t, os[i]) = o[y]
  BY <1>1, <1>2, <1>5, <1>7, ShownIs
<1>10. ASSUME NoneLess(ind, os, i) PROVE NoneLess(ind, o, q)
  <2>1. ASSUME NEW p \in Places, p < q PROVE ind[o[p]] >= ind[o[q]]
    <3>1. ~ (ind[o[p]] < ind[os[i]])
      <4>1. ASSUME ind[o[p]] < ind[os[i]] PROVE FALSE
        <5>1. PICK x \in 1..Len(os) : x < i /\ ind[os[x]] < ind[os[i]]
          BY <1>8, <2>1, <4>1
        <5>2. ind[os[x]] >= ind[os[i]]
          BY <1>10, <5>1 DEF NoneLess
        <5> QED
          BY <1>5, <5>1, <5>2
      <4> QED
        BY <4>1
    <3>2. o[q] = os[i]
      BY <1>6, <1>7
    <3> QED
      BY <1>5, <3>1, <3>2
  <2> QED
    BY <1>4, <2>1 DEF NoneLess
<1>11. ASSUME NEW y, LastLess(ind, os, i, y)
       PROVE  LastLess(ind, o, q, Place(t, os[y])) /\ o[Place(t, os[y])] = os[y]
  <2>1. y \in 1..Len(os) /\ y < i /\ ind[os[y]] < ind[os[i]]
    BY <1>11 DEF LastLess
  <2>2. PICK z : z = Place(t, os[y])
    OBVIOUS
  <2>3. z \in Places /\ o[z] = os[y] /\ o[q] = os[i] /\ q \in Places
    BY <1>6, <1>7, <2>1, <2>2
  <2>4. z < q
    <3>1. z = PlaceAmong(k, m, y) /\ q = PlaceAmong(k, m, i)
      BY <1>6, <1>7, <2>1, <2>2
    <3> QED
      BY <1>4, <2>1, <3>1 DEF PlaceAmong
  <2>5. ASSUME NEW p \in Places, z < p, p < q PROVE ind[o[p]] >= ind[o[q]]
    <3>1. ASSUME ind[o[p]] < ind[os[i]] PROVE FALSE
      <4>1. PICK x \in 1..Len(os) :
              x < i /\ ind[os[x]] < ind[os[i]] /\ p <= Place(t, os[x])
        BY <1>8, <2>5, <3>1
      <4>2. y < x
        <5>1. p <= PlaceAmong(k, m, x) /\ PlaceAmong(k, m, y) < p
          BY <1>6, <2>1, <2>2, <2>5, <4>1
        <5>2. p \in Int
          BY <1>4
        <5> QED
          BY <1>4, <2>1, <5>1, <5>2 DEF PlaceAmong
      <4>3. ind[os[x]] >= ind[os[i]]
        BY <1>11, <4>1, <4>2 DEF LastLess
      <4> QED
        BY <1>5, <4>1, <4>3
    <3> QED
      BY <1>5, <2>3, <3>1
  <2>6. LastLess(ind, o, q, z)
    BY <1>4, <2>1, <2>3, <2>4, <2>5 DEF LastLess
  <2> QED
    BY <2>2, <2>3, <2>6
<1> QED
  BY <1>2, <1>9, <1>10, <1>11

(* The parent of a row of the group other than the first is in the group.  *)
LEMMA ParentWithin ==
  ASSUME NEW t, NEW os, NEW g, NEW k, Apart(t, os, g, k), NEW j \in 2..Len(g), NEW y,
         LastLess(t.indent, g, j, y)
  PROVE  ShownParent(t, g[j]) = g[y]
<1>1. HasRows(t, os, g, k) /\ Holds(t, os, g, k) /\ IsOrder(t.order)
  BY HoldsRows DEF Apart
<1>2. PICK o, ind : o = t.order /\ ind = t.indent
  OBVIOUS
<1>3. /\ k \in Nat /\ Len(g) \in Nat /\ j \in 1..Len(g) /\ j \in Int
      /\ Len(o) = Len(Rows) /\ Len(Rows) \in Nat /\ Places = 1..Len(o)
  BY <1>1, <1>2 DEF HasRows, IsOrder, Places
<1>4. /\ y \in 1..Len(g) /\ y < j /\ ind[g[y]] < ind[g[j]]
      /\ \A x \in 1..Len(g) : y < x /\ x < j => ind[g[x]] >= ind[g[j]]
  BY <1>2 DEF LastLess
<1>5. /\ \A x \in 1..Len(g) : k + x \in Places /\ Place(t, g[x]) = k + x
      /\ \A x \in 1..Len(g) : o[k + x] = g[x] /\ g[x] \in Row
  BY <1>1, <1>2, PlaceOfGroup DEF HasRows
<1>6. LastLess(ind, o, k + j, k + y)
  <2>1. k + y \in 1..Len(o) /\ k + y < k + j /\ ind[o[k + y]] < ind[o[k + j]]
    BY <1>3, <1>4, <1>5
  <2>2. ASSUME NEW p \in 1..Len(o), k + y < p, p < k + j PROVE ind[o[p]] >= ind[o[k + j]]
    <3>1. PICK x : x = p - k
      OBVIOUS
    <3>2. x \in 1..Len(g) /\ y < x /\ x < j /\ k + x = p
      BY <1>3, <1>4, <2>2, <3>1
    <3>3. o[p] = g[x] /\ o[k + j] = g[j]
      BY <1>3, <1>5, <3>2
    <3> QED
      BY <1>4, <3>2, <3>3
  <2> QED
    BY <2>1, <2>2 DEF LastLess
<1>7. ind \in [Row -> Int] /\ g[j] \in Row /\ Place(t, g[j]) = k + j
  BY <1>2, <1>3, <1>5 DEF Apart
<1>8. ShownParent(t, g[j]) = o[k + y]
  BY <1>1, <1>2, <1>6, <1>7, ShownIs
<1> QED
  BY <1>4, <1>5, <1>8

(* So wherever the group goes, only its first row gets another parent.     *)
LEMMA SameParents ==
  ASSUME NEW t, NEW u, NEW os, NEW g, NEW k, NEW h, Apart(u, os, g, h), Apart(t, os, g, k),
         NEW d \in Int, t.indent = Shift(u.indent, g, d)
  PROVE  /\ \A i \in 1..Len(os) : /\ ShownParent(t, os[i]) = ShownParent(u, os[i])
                                  /\ ShownParent(t, os[i]) \notin ToSet(g)
         /\ \A j \in 2..Len(g) : /\ ShownParent(t, g[j]) = ShownParent(u, g[j])
                                 /\ ShownParent(t, g[j]) \in ToSet(g)
<1>1. HasRows(t, os, g, k) /\ Holds(t, os, g, k)
  BY HoldsRows DEF Apart
<1>2. PICK ind, new : ind = u.indent /\ new = t.indent
  OBVIOUS
<1>3. ind \in [Row -> Int] /\ new \in [Row -> Int] /\ new = Shift(ind, g, d)
  BY <1>2 DEF Apart
<1>4. /\ Len(os) \in Nat /\ Len(g) \in Nat /\ Top \notin Row
      /\ \A i \in 1..Len(os) : os[i] \in Row
      /\ \A j \in 1..Len(g) : g[j] \in Row
      /\ \A i \in 1..Len(os), j \in 1..Len(g) : os[i] # g[j]
  BY <1>1, RowsAssumption DEF HasRows, Holds, Parts
<1>5. ToSet(g) = {g[j] : j \in 1..Len(g)}
  <2>1. DOMAIN g = 1..Len(g)
    BY <1>1 DEF Holds, Parts
  <2> QED
    BY <2>1 DEF ToSet
<1>6. ASSUME NEW i \in 1..Len(os) PROVE new[os[i]] = ind[os[i]] /\ os[i] \notin ToSet(g)
  <2>1. os[i] \in Row /\ os[i] \notin ToSet(g)
    BY <1>4, <1>5
  <2> QED
    BY <1>3, <2>1 DEF Shift
<1>7. ASSUME NEW j \in 1..Len(g) PROVE new[g[j]] = ind[g[j]] + d /\ ind[g[j]] \in Int
  <2>1. g[j] \in Row /\ g[j] \in ToSet(g)
    BY <1>4, <1>5
  <2> QED
    BY <1>3, <2>1 DEF Shift
<1>8. ASSUME NEW i \in 1..Len(os)
      PROVE  /\ ShownParent(t, os[i]) = ShownParent(u, os[i])
             /\ ShownParent(t, os[i]) \notin ToSet(g)
  <2>1. CASE NoneLess(ind, os, i)
    <3>1. NoneLess(new, os, i)
      BY <1>6, <2>1 DEF NoneLess
    <3>2. ShownParent(t, os[i]) = Top /\ ShownParent(u, os[i]) = Top
      BY <1>2, <2>1, <3>1, ParentOfOther
    <3> QED
      BY <1>4, <1>5, <3>2
  <2>2. ASSUME NEW y, LastLess(ind, os, i, y)
        PROVE  /\ ShownParent(t, os[i]) = ShownParent(u, os[i])
               /\ ShownParent(t, os[i]) \notin ToSet(g)
    <3>1. LastLess(new, os, i, y) /\ y \in 1..Len(os)
      BY <1>6, <2>2 DEF LastLess
    <3>2. ShownParent(t, os[i]) = os[y] /\ ShownParent(u, os[i]) = os[y]
      BY <1>2, <2>2, <3>1, ParentOfOther
    <3> QED
      BY <1>6, <3>1, <3>2
  <2>3. NoneLess(ind, os, i) \/ \E y : LastLess(ind, os, i, y)
    BY <1>3, <1>4, LessIs
  <2> QED
    BY <2>1, <2>2, <2>3
<1>9. ASSUME NEW j \in 2..Len(g)
      PROVE  /\ ShownParent(t, g[j]) = ShownParent(u, g[j])
             /\ ShownParent(t, g[j]) \in ToSet(g)
  <2>1. j \in 1..Len(g) /\ 1 \in 1..Len(g) /\ 1 < j
    BY <1>4
  <2>2. ~NoneLess(ind, g, j)
    <3>1. ind[g[j]] > ind[g[1]]
      BY <1>2 DEF Apart, Deeper
    <3>2. ind[g[1]] \in Int /\ ind[g[j]] \in Int
      BY <1>7, <2>1
    <3> QED
      BY <2>1, <3>1, <3>2 DEF NoneLess
  <2>3. NoneLess(ind, g, j) \/ \E y : LastLess(ind, g, j, y)
    BY <1>3, <1>4, <2>1, LessIs
  <2>4. PICK y : LastLess(ind, g, j, y)
    BY <2>2, <2>3
  <2>5. /\ y \in 1..Len(g) /\ y < j /\ ind[g[y]] < ind[g[j]]
        /\ \A x \in 1..Len(g) : y < x /\ x < j => ind[g[x]] >= ind[g[j]]
    BY <2>4 DEF LastLess
  <2>6. LastLess(new, g, j, y)
    <3>1. new[g[y]] < new[g[j]]
      BY <1>7, <2>1, <2>5
    <3>2. ASSUME NEW x \in 1..Len(g), y < x, x < j PROVE new[g[x]] >= new[g[j]]
      <4>1. ind[g[x]] >= ind[g[j]]
        BY <2>5, <3>2
      <4> QED
        BY <1>7, <2>1, <4>1
    <3> QED
      BY <2>5, <3>1, <3>2 DEF LastLess
  <2>7. ShownParent(t, g[j]) = g[y] /\ ShownParent(u, g[j]) = g[y]
    BY <1>2, <2>4, <2>6, ParentWithin
  <2> QED
    BY <1>5, <2>5, <2>7
<1> QED
  BY <1>8, <1>9

-----------------------------------------------------------------------------
(* Siblings.                                                               *)

(* In a tree a row is one deeper than its parent.                          *)
OneDeeper(ind, o, p) ==
  /\ NoneLess(ind, o, p) => ind[o[p]] = 0
  /\ \A y : LastLess(ind, o, p, y) => ind[o[p]] = ind[o[y]] + 1

LEMMA ChildDepth ==
  ASSUME settings \in Tables, NEW t, IsOrder(t.order), t.indent \in [Row -> Int],
         Allowed(settings, t.indent), Tree(t), NEW ind, ind = t.indent, NEW o, o = t.order,
         NEW p \in Places
  PROVE  OneDeeper(ind, o, p)
<1>1. Len(o) = Len(Rows) /\ Len(Rows) \in Nat /\ Places = 1..Len(o)
  BY RowsAre DEF IsOrder, Places
<1>2. \A x \in Places : o[x] \in Row /\ ind[o[x]] \in Nat
  <2>1. \A x \in Places : o[x] \in Row
    BY OnePlace
  <2> QED
    BY <2>1 DEF Allowed
<1>3. \A x \in Places : ind[o[x]] <= Room(t, RowAt(t, x - 1))
  BY DEF Tree
<1>4. ASSUME NoneLess(ind, o, p) PROVE ind[o[p]] = 0
  <2>1. 1 \in Places
    BY <1>1
  <2>2. RowAt(t, 1 - 1) = Top
    BY <1>1 DEF RowAt
  <2>3. Room(t, Top) = 0
    BY RowsAssumption DEF Room, Draggable
  <2>4. ind[o[1]] <= 0
    BY <1>3, <2>1, <2>2, <2>3
  <2>5. ind[o[1]] >= ind[o[p]]
    <3>1. CASE p = 1
      BY <1>2, <3>1
    <3>2. CASE p # 1
      <4>1. 1 < p
        BY <1>1, <3>2
      <4> QED
        BY <1>1, <1>4, <2>1, <4>1 DEF NoneLess
    <3> QED
      BY <3>1, <3>2
  <2> QED
    BY <1>2, <2>1, <2>4, <2>5
<1>5. ASSUME NEW y, LastLess(ind, o, p, y) PROVE ind[o[p]] = ind[o[y]] + 1
  <2>1. /\ y \in Places /\ y < p /\ ind[o[y]] < ind[o[p]]
        /\ \A x \in Places : y < x /\ x < p => ind[o[x]] >= ind[o[p]]
    BY <1>1, <1>5 DEF LastLess
  <2>2. PICK z : z = y + 1
    OBVIOUS
  <2>3. z \in Places /\ z - 1 = y /\ z <= p /\ y < z
    BY <1>1, <2>1, <2>2
  <2>4. RowAt(t, z - 1) = o[y]
    BY <2>1, <2>3 DEF RowAt
  <2>5. Room(t, o[y]) <= ind[o[y]] + 1
    BY <1>2, <2>1 DEF Room
  <2>6. ind[o[z]] <= Room(t, o[y]) /\ Room(t, o[y]) \in Int
    <3>1. ind[o[z]] <= Room(t, o[y])
      BY <1>3, <2>3, <2>4
    <3>2. Room(t, o[y]) \in Int
      BY <1>2, <2>1 DEF Room
    <3> QED
      BY <3>1, <3>2
  <2>7. ind[o[z]] >= ind[o[p]]
    <3>1. CASE z = p
      BY <1>2, <2>3, <3>1
    <3>2. CASE z # p
      <4>1. z < p
        BY <1>1, <2>3, <3>2
      <4> QED
        BY <2>1, <2>3, <4>1
    <3> QED
      BY <3>1, <3>2
  <2>8. PICK a, b, c, m : a = ind[o[y]] /\ b = ind[o[z]] /\ c = ind[o[p]] /\ m = Room(t, o[y])
    OBVIOUS
  <2>9. /\ a \in Int /\ b \in Int /\ c \in Int /\ m \in Int
        /\ a < c /\ b <= m /\ m <= a + 1 /\ b >= c
    BY <1>2, <2>1, <2>3, <2>5, <2>6, <2>7, <2>8
  <2>10. c = a + 1
    BY <2>9
  <2> QED
    BY <2>8, <2>10
<1> QED
  BY <1>4, <1>5 DEF OneDeeper

Alike(ind, o, p, q, level) ==
  \A i \in p..q \cup q..p : ind[o[i]] >= level

(* findSiblings() finds the rows with the same parent.                     *)
LEMMA SiblingsAre ==
  ASSUME settings \in Tables, settings.fixed = {},
         NEW t, IsOrder(t.order), t.indent \in [Row -> Int],
         Allowed(settings, t.indent), Tree(t), NEW row, row.element \in Row, NEW q \in Row
  PROVE  q \in FindSiblings(t, row) <=> ShownParent(t, q) = ShownParent(t, row.element)
<1>1. PICK o, ind, e : o = t.order /\ ind = t.indent /\ e = row.element
  OBVIOUS
<1>2. PICK a, b : a = Place(t, e) /\ b = Place(t, q)
  OBVIOUS
<1>3. Len(o) = Len(Rows) /\ Len(Rows) \in Nat /\ Places = 1..Len(o)
  BY <1>1, RowsAre DEF IsOrder, Places
<1>4. \A x \in Places : o[x] \in Row /\ ind[o[x]] \in Nat
  <2>1. \A x \in Places : o[x] \in Row
    BY <1>1, OnePlace
  <2> QED
    BY <1>1, <2>1 DEF Allowed
<1>5. a \in Places /\ b \in Places /\ o[a] = e /\ o[b] = q /\ e \in Row
  BY <1>1, <1>2, PlaceIs
<1>6. PICK level : level = ind[e]
  OBVIOUS
<1>7. q \in FindSiblings(t, row) <=> ind[q] = level /\ Alike(ind, o, b, a, level)
  BY <1>1, <1>2, <1>6 DEF FindSiblings, Alike, Draggable
<1>8. \A p \in Places : NoneLess(ind, o, p) \/ \E y : LastLess(ind, o, p, y)
  BY <1>1, <1>3, <1>4, LessIs
<1>9. ASSUME NEW p \in Places
      PROVE  /\ NoneLess(ind, o, p) => ind[o[p]] = 0
             /\ \A y : LastLess(ind, o, p, y) => ind[o[p]] = ind[o[y]] + 1
  <2>1. OneDeeper(ind, o, p)
    BY <1>1, ChildDepth
  <2> QED
    BY <2>1 DEF OneDeeper
<1>10. /\ NoneLess(ind, o, a) => ShownParent(t, e) = Top
       /\ \A y : LastLess(ind, o, a, y) => ShownParent(t, e) = o[y] /\ o[y] \in Row
  BY <1>1, <1>2, <1>5, ShownIs
<1>11. /\ NoneLess(ind, o, b) => ShownParent(t, q) = Top
       /\ \A y : LastLess(ind, o, b, y) => ShownParent(t, q) = o[y] /\ o[y] \in Row
  BY <1>1, <1>2, <1>5, ShownIs
<1>12. ASSUME ShownParent(t, q) = ShownParent(t, e)
       PROVE  ind[q] = level /\ Alike(ind, o, b, a, level)
  <2>1. CASE NoneLess(ind, o, a)
    <3>1. NoneLess(ind, o, b)
      BY <1>5, <1>8, <1>10, <1>11, <1>12, <2>1, RowsAssumption
    <3>2. ind[q] = 0 /\ level = 0
      BY <1>5, <1>6, <1>9, <2>1, <3>1
    <3>3. \A i \in b..a \cup a..b : i \in Places
      BY <1>3, <1>5
    <3> QED
      BY <1>4, <3>2, <3>3 DEF Alike
  <2>2. ASSUME NEW y, LastLess(ind, o, a, y)
        PROVE  ind[q] = level /\ Alike(ind, o, b, a, level)
    <3>1. ~NoneLess(ind, o, b)
      BY <1>5, <1>10, <1>11, <1>12, <2>2, RowsAssumption
    <3>2. PICK z : LastLess(ind, o, b, z)
      BY <1>5, <1>8, <3>1
    <3>3. y \in Places /\ z \in Places
      BY <1>3, <2>2, <3>2 DEF LastLess
    <3>4. o[y] = o[z]
      BY <1>10, <1>11, <1>12, <2>2, <3>2
    <3>5. y = z
      <4>1. Place(t, o[y]) = y /\ Place(t, o[z]) = z
        BY <1>1, <3>3, OnePlace
      <4> QED
        BY <3>4, <4>1
    <3>6. ind[q] = level
      BY <1>5, <1>6, <1>9, <2>2, <3>2, <3>4
    <3>7. ASSUME NEW i \in b..a \cup a..b PROVE ind[o[i]] >= level
      <4>1. i \in Places /\ y < i
        BY <1>3, <1>5, <2>2, <3>2, <3>3, <3>5 DEF LastLess
      <4>2. CASE i < a
        BY <1>3, <1>5, <1>6, <2>2, <4>1, <4>2 DEF LastLess
      <4>3. CASE i < b
        BY <1>3, <1>5, <3>2, <3>5, <3>6, <4>1, <4>3 DEF LastLess
      <4>4. CASE i = a \/ i = b
        BY <1>4, <1>5, <1>6, <3>6, <4>4
      <4>5. i < a \/ i < b \/ i = a \/ i = b
        BY <1>3, <1>5
      <4> QED
        BY <4>2, <4>3, <4>4, <4>5
    <3> QED
      BY <3>6, <3>7 DEF Alike
  <2> QED
    BY <1>5, <1>8, <2>1, <2>2
<1>13. ASSUME ind[q] = level, Alike(ind, o, b, a, level)
       PROVE  ShownParent(t, q) = ShownParent(t, e)
  <2>1. \A i \in b..a \cup a..b : ind[o[i]] >= ind[o[a]] /\ ind[o[i]] >= ind[o[b]]
    BY <1>5, <1>6, <1>13 DEF Alike
  <2>2. ind[o[a]] = ind[o[b]]
    BY <1>5, <1>6, <1>13
  <2>3. CASE NoneLess(ind, o, a)
    <3>1. ASSUME NEW x \in 1..Len(o), x < b PROVE ind[o[x]] >= ind[o[b]]
      <4>1. CASE x < a
        BY <2>2, <2>3, <3>1, <4>1 DEF NoneLess
      <4>2. CASE ~ (x < a)
        <5>1. x \in a..b
          BY <1>3, <1>5, <3>1, <4>2
        <5> QED
          BY <2>1, <5>1
      <4> QED
        BY <4>1, <4>2
    <3>2. NoneLess(ind, o, b)
      BY <3>1 DEF NoneLess
    <3> QED
      BY <1>10, <1>11, <2>3, <3>2
  <2>4. ASSUME NEW y, LastLess(ind, o, a, y)
        PROVE  ShownParent(t, q) = ShownParent(t, e)
    <3>1. /\ y \in 1..Len(o) /\ y < a /\ ind[o[y]] < ind[o[a]]
          /\ \A x \in 1..Len(o) : y < x /\ x < a => ind[o[x]] >= ind[o[a]]
      BY <2>4 DEF LastLess
    <3>2. y < b
      <4>1. ASSUME ~ (y < b) PROVE FALSE
        <5>1. y \in b..a
          BY <1>3, <1>5, <3>1, <4>1
        <5>2. ind[o[y]] >= ind[o[a]]
          BY <2>1, <5>1
        <5> QED
          BY <1>3, <1>4, <1>5, <3>1, <5>2
      <4> QED
        BY <4>1
    <3>3. ASSUME NEW x \in 1..Len(o), y < x, x < b PROVE ind[o[x]] >= ind[o[b]]
      <4>1. CASE x < a
        BY <2>2, <3>1, <3>3, <4>1
      <4>2. CASE ~ (x < a)
        <5>1. x \in a..b
          BY <1>3, <1>5, <3>3, <4>2
        <5> QED
          BY <2>1, <5>1
      <4> QED
        BY <4>1, <4>2
    <3>4. LastLess(ind, o, b, y)
      BY <2>2, <3>1, <3>2, <3>3 DEF LastLess
    <3> QED
      BY <1>10, <1>11, <2>4, <3>4
  <2> QED
    BY <1>5, <1>8, <2>3, <2>4
<1> QED
  BY <1>1, <1>7, <1>12, <1>13

(* Counting the rows of a set that come before, weights grow.              *)
LEMMA CountsGrow ==
  ASSUME NEW t, IsOrder(t.order), NEW S, S \subseteq Row, NEW q \in S, NEW r \in S,
         Place(t, q) < Place(t, r)
  PROVE  Cardinality({p \in S : Place(t, p) < Place(t, q)})
           < Cardinality({p \in S : Place(t, p) < Place(t, r)})
<1>1. PICK A, B : /\ A = {p \in S : Place(t, p) < Place(t, q)}
                  /\ B = {p \in S : Place(t, p) < Place(t, r)}
  OBVIOUS
<1>2. \A p \in Row : Place(t, p) \in Int
  <2>1. \A p \in Row : Place(t, p) \in Places
    BY PlaceIs
  <2> QED
    BY <2>1, RowsAre DEF Places
<1>3. q \in B /\ q \notin A /\ A \subseteq B /\ A \subseteq Row /\ B \subseteq Row
  <2>1. \A p \in S : Place(t, p) \in Int
    BY <1>2
  <2>2. ASSUME NEW p \in A PROVE p \in B
    <3>1. p \in S /\ Place(t, p) < Place(t, q)
      BY <1>1, <2>2
    <3>2. Place(t, p) < Place(t, r)
      BY <2>1, <3>1
    <3> QED
      BY <1>1, <3>1, <3>2
  <2>3. q \notin A
    BY <1>1, <2>1
  <2> QED
    BY <1>1, <2>2, <2>3
<1>4. Cardinality(A) \in Nat /\ Cardinality(B) \in Nat
  BY <1>3, Weight
<1>5. IsFiniteSet(B)
  BY <1>3, RowsAre, FS_Subset
<1>6. Cardinality(A) <= Cardinality(B) /\ (Cardinality(B) = Cardinality(A) => B = A)
  BY <1>3, <1>5, FS_Subset
<1>7. Cardinality(A) < Cardinality(B)
  BY <1>3, <1>4, <1>6
<1> QED
  BY <1>1, <1>7

-----------------------------------------------------------------------------
(* Fields f say what table t shows.                                        *)

InOrder(t, weight) ==
  \A q, r \in Row :
    ShownParent(t, q) = ShownParent(t, r) /\ Place(t, q) < Place(t, r) => weight[q] < weight[r]

Matches(t, f) ==
  /\ \A r \in Row : f.parent[r] = ShownParent(t, r)
  /\ f.depth = t.indent /\ InOrder(t, f.weight)

(* The fields that a table is sent with do.                                *)
LEMMA ShownMatches ==
  ASSUME NEW t, IsOrder(t.order), NEW f, f = ShownFields(t)
  PROVE  Matches(t, f)
<1>1. PICK parent : parent = [r \in Row |-> ShownParent(t, r)]
  OBVIOUS
<1>2. PICK weight : weight = [r \in Row |-> Cardinality({q \in Row :
                                /\ ShownParent(t, q) = ShownParent(t, r)
                                /\ Place(t, q) < Place(t, r)})]
  OBVIOUS
<1>3. f = [parent |-> parent, depth |-> t.indent, weight |-> weight]
  BY <1>1, <1>2 DEF ShownFields
<1>4. ASSUME NEW q \in Row, NEW r \in Row, ShownParent(t, q) = ShownParent(t, r),
             Place(t, q) < Place(t, r)
      PROVE  weight[q] < weight[r]
  <2>1. PICK S : S = {p \in Row : ShownParent(t, p) = ShownParent(t, r)}
    OBVIOUS
  <2>2. S \subseteq Row /\ q \in S /\ r \in S
    BY <1>4, <2>1
  <2>3. Cardinality({p \in S : Place(t, p) < Place(t, q)})
          < Cardinality({p \in S : Place(t, p) < Place(t, r)})
    BY <1>4, <2>2, CountsGrow
  <2>4. /\ {p \in S : Place(t, p) < Place(t, q)}
             = {p \in Row : ShownParent(t, p) = ShownParent(t, q) /\ Place(t, p) < Place(t, q)}
        /\ {p \in S : Place(t, p) < Place(t, r)}
             = {p \in Row : ShownParent(t, p) = ShownParent(t, r) /\ Place(t, p) < Place(t, r)}
    BY <1>4, <2>1
  <2>5. /\ weight[q] = Cardinality({p \in S : Place(t, p) < Place(t, q)})
        /\ weight[r] = Cardinality({p \in S : Place(t, p) < Place(t, r)})
    BY <1>2, <2>4
  <2> QED
    BY <2>3, <2>5
<1>5. f.parent = parent /\ f.depth = t.indent /\ f.weight = weight
  BY <1>3
<1> QED
  BY <1>1, <1>4, <1>5 DEF Matches, InOrder

(* The row that updateField() takes for a sibling at the root level is at  *)
(* the root level, also where its group was before.                        *)
LEMMA RootIs ==
  ASSUME settings.fixed = {}, NEW t, NEW u, NEW os, NEW g, NEW k, NEW h,
         Apart(u, os, g, h), Apart(t, os, g, k), NEW row, row.group = g, row.element = g[1],
         NEW x, x = RootSibling(t, row)
  PROVE  x \in Row /\ ShownParent(u, x) = Top
<1>1. /\ HasRows(t, os, g, k) /\ Holds(t, os, g, k) /\ IsOrder(t.order)
      /\ HasRows(u, os, g, h) /\ Holds(u, os, g, h) /\ IsOrder(u.order)
      /\ u.indent \in [Row -> Int]
  BY HoldsRows DEF Apart
<1>2. /\ k \in 0..Len(os) /\ h \in 0..Len(os) /\ Len(os) \in Nat /\ Len(g) \in Nat
      /\ Len(g) >= 1 /\ Len(Rows) \in Nat /\ Len(Rows) = Len(os) + Len(g)
      /\ \A i \in 1..Len(os) : os[i] \in Row
      /\ \A j \in 1..Len(g) : g[j] \in Row
  BY <1>1 DEF HasRows
<1>3. Draggable = Row /\ Top \notin Row
  BY RowsAssumption DEF Draggable
<1>4. Place(t, g[1]) = k + 1 /\ t.order[k + 1] = g[1] /\ Place(u, g[1]) = h + 1
  <2>1. 1 \in 1..Len(g)
    BY <1>2
  <2> QED
    BY <1>1, <2>1, PlaceOfGroup DEF HasRows
<1>5. Below(t, Last(row.group)) = At(os, k + 1)
  BY <1>1, GroupNeighbours
<1>6. ASSUME 1 \in 1..Len(os) PROVE os[1] \in Row /\ ShownParent(u, os[1]) = Top
  <2>1. NoneLess(u.indent, os, 1)
    BY <1>2 DEF NoneLess
  <2> QED
    BY <1>2, <1>6, <2>1, ParentOfOther
<1>7. 1 \in Places /\ Places \subseteq Nat
  BY <1>2 DEF Places
<1>8. CASE t.order[1] = row.element /\ At(os, k + 1) \in Draggable
  <2>1. x = At(os, k + 1)
    BY <1>5, <1>8 DEF RootSibling
  <2>2. k = 0
    <3>1. Place(t, t.order[1]) = 1
      BY <1>1, <1>7, OnePlace
    <3> QED
      BY <1>2, <1>4, <1>8, <3>1
  <2>3. 1 \in 1..Len(os) /\ x = os[1]
    BY <1>3, <1>8, <2>1, <2>2 DEF At
  <2> QED
    BY <1>6, <2>3
<1>9. CASE ~ (t.order[1] = row.element /\ At(os, k + 1) \in Draggable)
  <2>1. PICK I : I = {i \in Places : t.order[i] \in Draggable}
    OBVIOUS
  <2>2. I = Places
    BY <1>1, <1>3, <2>1, OnePlace
  <2>3. Min(I) \in I /\ \A j \in I : Min(I) <= j
    BY <1>7, <2>2, MinIs
  <2>4. Min(I) = 1
    <3>1. PICK n : n = Min(I)
      OBVIOUS
    <3>2. n \in Places /\ n <= 1
      BY <1>7, <2>2, <2>3, <3>1
    <3>3. n = 1
      BY <1>2, <3>2 DEF Places
    <3> QED
      BY <3>1, <3>3
  <2>5. x = t.order[1]
    BY <1>5, <1>9, <2>1, <2>4 DEF RootSibling
  <2>6. CASE k # 0
    <3>1. 1 \in 1..k /\ 1 \in 1..Len(os)
      BY <1>2, <2>6
    <3>2. x = os[1]
      BY <1>1, <2>5, <3>1 DEF HasRows
    <3> QED
      BY <1>6, <3>1, <3>2
  <2>7. CASE k = 0
    <3>1. x = g[1] /\ x \in Row
      BY <1>2, <1>4, <2>5, <2>7
    <3>2. At(os, 1) \notin Row
      BY <1>3, <1>9, <2>5, <2>7, <3>1
    <3>3. Len(os) = 0
      <4>1. 1 \notin 1..Len(os)
        BY <1>2, <3>2 DEF At
      <4> QED
        BY <1>2, <4>1
    <3>4. Place(u, x) = 1
      BY <1>2, <1>4, <3>1, <3>3
    <3>5. NoneLess(u.indent, u.order, 1)
      <4>1. Len(u.order) \in Nat
        BY <1>1, <1>2 DEF IsOrder
      <4> QED
        BY <4>1 DEF NoneLess
    <3> QED
      BY <1>1, <3>1, <3>4, <3>5, ShownIs
  <2> QED
    BY <2>6, <2>7
<1> QED
  BY <1>8, <1>9

(* Rows other than the first of the group: siblings remain siblings, and   *)
(* in the same order.                                                      *)
LEMMA SiblingsKeep ==
  ASSUME NEW t, NEW u, NEW os, NEW g, NEW k, NEW h, Apart(u, os, g, h), Apart(t, os, g, k),
         NEW d \in Int, t.indent = Shift(u.indent, g, d),
         NEW q \in Row, NEW r \in Row, q # g[1], r # g[1],
         ShownParent(t, q) = ShownParent(t, r), Place(t, q) < Place(t, r)
  PROVE  ShownParent(u, q) = ShownParent(u, r) /\ Place(u, q) < Place(u, r)
<1>1. /\ HasRows(t, os, g, k) /\ Holds(t, os, g, k) /\ HasRows(u, os, g, h)
      /\ Holds(u, os, g, h)
  BY HoldsRows DEF Apart
<1>2. /\ k \in 0..Len(os) /\ h \in 0..Len(os) /\ Len(os) \in Nat /\ Len(g) \in Nat
  BY <1>1 DEF HasRows
<1>3. /\ \A i \in 1..Len(os) : /\ ShownParent(t, os[i]) = ShownParent(u, os[i])
                               /\ ShownParent(t, os[i]) \notin ToSet(g)
      /\ \A j \in 2..Len(g) : /\ ShownParent(t, g[j]) = ShownParent(u, g[j])
                              /\ ShownParent(t, g[j]) \in ToSet(g)
  BY SameParents
<1>4. ASSUME NEW a \in Row, a # g[1]
      PROVE  (\E i \in 1..Len(os) : os[i] = a) \/ (\E j \in 2..Len(g) : g[j] = a)
  <2>1. (\E i \in 1..Len(os) : os[i] = a) \/ (\E j \in 1..Len(g) : g[j] = a)
    BY <1>1 DEF Holds, Parts
  <2>2. \A j \in 1..Len(g) : j = 1 \/ j \in 2..Len(g)
    BY <1>2
  <2> QED
    BY <1>4, <2>1, <2>2
<1>5. ShownParent(u, q) = ShownParent(t, q) /\ ShownParent(u, r) = ShownParent(t, r)
  BY <1>3, <1>4
<1>6. CASE (\E i \in 1..Len(os) : os[i] = q) /\ (\E i \in 1..Len(os) : os[i] = r)
  <2>1. PICK a \in 1..Len(os), b \in 1..Len(os) : os[a] = q /\ os[b] = r
    BY <1>6
  <2>2. /\ Place(t, q) = PlaceAmong(k, Len(g), a) /\ Place(t, r) = PlaceAmong(k, Len(g), b)
        /\ Place(u, q) = PlaceAmong(h, Len(g), a) /\ Place(u, r) = PlaceAmong(h, Len(g), b)
    BY <1>1, <2>1, PlaceOfOther
  <2>3. PlaceAmong(k, Len(g), a) < PlaceAmong(k, Len(g), b)
    BY <2>2
  <2>4. PlaceAmong(h, Len(g), a) < PlaceAmong(h, Len(g), b)
    BY <1>2, <2>3 DEF PlaceAmong
  <2> QED
    BY <1>5, <2>2, <2>4
<1>7. CASE (\E j \in 2..Len(g) : g[j] = q) /\ (\E j \in 2..Len(g) : g[j] = r)
  <2>1. PICK a \in 2..Len(g), b \in 2..Len(g) : g[a] = q /\ g[b] = r
    BY <1>7
  <2>2. a \in 1..Len(g) /\ b \in 1..Len(g)
    BY <1>2
  <2>3. /\ Place(t, q) = k + a /\ Place(t, r) = k + b
        /\ Place(u, q) = h + a /\ Place(u, r) = h + b
    BY <1>1, <2>1, <2>2, PlaceOfGroup
  <2>4. h + a < h + b
    BY <1>2, <2>2, <2>3
  <2> QED
    BY <1>5, <2>3, <2>4
<1>8. ShownParent(t, q) \in ToSet(g) <=> ShownParent(t, r) \in ToSet(g)
  OBVIOUS
<1> QED
  BY <1>3, <1>4, <1>6, <1>7, <1>8

(* What a move says of its table.                                          *)
LEMMA MoveHas ==
  ASSUME NEW s, NEW os, NEW k, MoveOK(settings, s, os, k)
  PROVE  /\ IsTable(s.table) /\ IsOrder(s.table.order) /\ Allowed(settings, s.table.indent)
         /\ s.row.element \in Draggable /\ s.row # NoRow
         /\ s = [table |-> s.table, row |-> s.row]
<1>1. Stands(s, os, k) /\ IsMove(s) /\ Holds(s.table, os, s.row.group, k)
  BY DEF MoveOK, Stands
<1>2. HasRows(s.table, os, s.row.group, k) /\ IsOrder(s.table.order)
  BY <1>1, HoldsRows
<1>3. 1 \in 1..Len(s.row.group) /\ s.row.element = s.row.group[1]
  BY <1>1, <1>2 DEF HasRows, Stands
<1>4. s.row.element \in Row \ settings.fixed
  BY <1>2, <1>3 DEF HasRows, MoveOK, Deeper
<1>5. s.row # NoRow
  <2>1. NoRow.element = Top
    BY DEF NoRow
  <2> QED
    BY <1>4, <2>1, RowsAssumption
<1> QED
  BY <1>1, <1>2, <1>4, <1>5 DEF MoveOK, IsMove, Draggable

(* From u the group has gone to s.                                         *)
Gone(u, s, os, h, k) ==
  /\ MoveOK(settings, u, os, h) /\ Placed(settings, u, os, h)
  /\ MoveOK(settings, s, os, k) /\ Placed(settings, s, os, k)
  /\ Carried(u, s) /\ settings.limit = 0 /\ settings.fixed = {} /\ settings \in Tables

Both(u, s, os, g, h, k) ==
  /\ Apart(u.table, os, g, h) /\ Apart(s.table, os, g, k)
  /\ s.row.group = g /\ s.row.element = g[1] /\ g[1] \in Row
  /\ \E d \in Int : s.table.indent = Shift(u.table.indent, g, d)
  /\ IsOrder(s.table.order) /\ Allowed(settings, s.table.indent) /\ Tree(s.table)
  /\ s.table.indent \in [Row -> Int]

LEMMA GoneBoth ==
  ASSUME NEW u, NEW s, NEW os, NEW h, NEW k, Gone(u, s, os, h, k), NEW g, g = s.row.group
  PROVE  Both(u, s, os, g, h, k)
<1>1. /\ MoveOK(settings, u, os, h) /\ Placed(settings, u, os, h)
      /\ MoveOK(settings, s, os, k) /\ Placed(settings, s, os, k)
      /\ Carried(u, s) /\ settings.limit = 0 /\ settings \in Tables
  BY DEF Gone
<1>2. Stands(s, os, k) /\ Stands(u, os, h) /\ IsMove(s) /\ IsMove(u)
  BY <1>1 DEF MoveOK, Stands
<1>3. u.row.group = g /\ s.row.element = g[1] /\ u.row.element = g[1]
  BY <1>1, <1>2 DEF Carried, SameRow, Stands
<1>4. Apart(u.table, os, g, h)
  BY <1>1, <1>2, <1>3 DEF Apart, MoveOK, Stands, IsMove, IsTable, Placed
<1>5. Apart(s.table, os, g, k)
  BY <1>1, <1>2, <1>3 DEF Apart, MoveOK, Stands, IsMove, IsTable, Placed
<1>6. \E d \in Int : s.table.indent = Shift(u.table.indent, g, d)
  BY <1>1, <1>3 DEF Carried
<1>7. IsTable(s.table) /\ IsOrder(s.table.order) /\ Allowed(settings, s.table.indent)
  BY <1>1, MoveHas
<1>8. Tree(s.table)
  BY <1>1, TreeAgain
<1>9. g[1] \in Row
  <2>1. HasRows(s.table, os, g, k)
    BY <1>5, HoldsRows DEF Apart
  <2>2. 1 \in 1..Len(g)
    BY <2>1 DEF HasRows
  <2> QED
    BY <2>1, <2>2 DEF HasRows
<1> QED
  BY <1>3, <1>4, <1>5, <1>6, <1>7, <1>8, <1>9 DEF Both, IsTable

(* The weights after a drop.                                               *)
LEMMA DropWeights ==
  ASSUME NEW u, NEW s, NEW os, NEW h, NEW k, Gone(u, s, os, h, k), InOrder(u.table, fields.weight)
  PROVE  InOrder(s.table, Weighed(s.table, s.row))
<1>1. PICK g : g = s.row.group
  OBVIOUS
<1>2. PICK t, v, row : t = s.table /\ v = u.table /\ row = s.row
  OBVIOUS
<1>3. Both(u, s, os, g, h, k)
  BY <1>1, GoneBoth
<1>4. /\ Apart(v, os, g, h) /\ Apart(t, os, g, k) /\ row.element = g[1] /\ row.element \in Row
      /\ IsOrder(t.order) /\ Allowed(settings, t.indent) /\ Tree(t) /\ t.indent \in [Row -> Int]
  BY <1>2, <1>3 DEF Both
<1>5. PICK d \in Int : t.indent = Shift(v.indent, g, d)
  BY <1>2, <1>3 DEF Both
<1>6. PICK S : S = FindSiblings(t, row)
  OBVIOUS
<1>7. \A q \in Row : q \in S <=> ShownParent(t, q) = ShownParent(t, row.element)
  BY <1>4, <1>6, SiblingsAre DEF Gone
<1>8. S \subseteq Row
  BY <1>6 DEF FindSiblings, Draggable
<1>9. PICK weight : weight = Weighed(t, row)
  OBVIOUS
<1>10. weight = [q \in Row |-> IF q \in S THEN Cardinality({p \in S : Place(t, p) < Place(t, q)})
                               ELSE fields.weight[q]]
  BY <1>6, <1>9 DEF Weighed
<1>11. ASSUME NEW q \in Row, NEW r \in Row, ShownParent(t, q) = ShownParent(t, r),
              Place(t, q) < Place(t, r)
       PROVE  weight[q] < weight[r]
  <2>1. q \in S <=> r \in S
    BY <1>7, <1>11
  <2>2. CASE q \in S
    <3>1. /\ weight[q] = Cardinality({p \in S : Place(t, p) < Place(t, q)})
          /\ weight[r] = Cardinality({p \in S : Place(t, p) < Place(t, r)})
      BY <1>10, <2>1, <2>2
    <3>2. Cardinality({p \in S : Place(t, p) < Place(t, q)})
            < Cardinality({p \in S : Place(t, p) < Place(t, r)})
      BY <1>4, <1>8, <1>11, <2>1, <2>2, CountsGrow
    <3> QED
      BY <3>1, <3>2
  <2>3. CASE q \notin S
    <3>1. weight[q] = fields.weight[q] /\ weight[r] = fields.weight[r]
      BY <1>10, <2>1, <2>3
    <3>2. q # g[1] /\ r # g[1]
      BY <1>4, <1>7, <2>1, <2>3
    <3>3. ShownParent(v, q) = ShownParent(v, r) /\ Place(v, q) < Place(v, r)
      BY <1>4, <1>5, <1>11, <3>2, SiblingsKeep
    <3>4. fields.weight[q] < fields.weight[r]
      BY <1>2, <3>3 DEF InOrder
    <3> QED
      BY <3>1, <3>4
  <2> QED
    BY <2>2, <2>3
<1> QED
  BY <1>2, <1>9, <1>11 DEF InOrder

(* A drop after a move makes the fields match again.                       *)
LEMMA DropMatches ==
  ASSUME NEW u, NEW s, NEW os, NEW h, NEW k, Gone(u, s, os, h, k), Matches(u.table, fields),
         FieldsTyped(fields), NEW f, f = UpdateFields(s.table, s.row)
  PROVE  Matches(s.table, f)
<1>1. PICK g : g = s.row.group
  OBVIOUS
<1>2. PICK t, v, row : t = s.table /\ v = u.table /\ row = s.row
  OBVIOUS
<1>3. Both(u, s, os, g, h, k)
  BY <1>1, GoneBoth
<1>4. /\ Apart(v, os, g, h) /\ Apart(t, os, g, k) /\ row.element = g[1] /\ row.group = g
      /\ g[1] \in Row
  BY <1>2, <1>3 DEF Both
<1>5. PICK d \in Int : t.indent = Shift(v.indent, g, d)
  BY <1>2, <1>3 DEF Both
<1>6. PICK own, parent, depth, weight :
        /\ own = ParentField(t, row) /\ parent = [fields.parent EXCEPT ![g[1]] = own]
        /\ depth = [q \in Row |-> IF q \in ToSet(g) THEN t.indent[q] ELSE fields.depth[q]]
        /\ weight = Weighed(t, row)
  OBVIOUS
<1>7. f = [parent |-> parent, depth |-> depth, weight |-> weight]
  BY <1>2, <1>4, <1>6 DEF UpdateFields
<1>8. /\ \A r \in Row : fields.parent[r] = ShownParent(v, r)
      /\ fields.depth = v.indent /\ InOrder(v, fields.weight)
  BY <1>2 DEF Matches
<1>9. own = ShownParent(t, g[1])
  <2>1. PICK x : x = RootSibling(t, row)
    OBVIOUS
  <2>2. settings.fixed = {}
    BY DEF Gone
  <2>3. x \in Row /\ ShownParent(v, x) = Top
    BY <1>4, <2>1, <2>2, RootIs
  <2>4. own = IF ShownParent(t, g[1]) # Top THEN ShownParent(t, g[1]) ELSE fields.parent[x]
    BY <1>4, <1>6, <2>1 DEF ParentField
  <2> QED
    BY <1>8, <2>3, <2>4
<1>10. ASSUME NEW r \in Row PROVE parent[r] = ShownParent(t, r)
  <2>1. fields.parent \in [Row -> Row \cup {Top}]
    BY DEF FieldsTyped
  <2>2. CASE r = g[1]
    BY <1>6, <1>9, <2>1, <2>2
  <2>3. CASE r # g[1]
    <3>1. parent[r] = ShownParent(v, r)
      BY <1>6, <1>8, <2>1, <2>3
    <3>2. (\E i \in 1..Len(os) : os[i] = r) \/ (\E j \in 1..Len(g) : g[j] = r)
      BY <1>4 DEF Apart, Holds, Parts
    <3>3. \A j \in 1..Len(g) : j = 1 \/ j \in 2..Len(g)
      <4>1. HasRows(t, os, g, k)
        BY <1>4, HoldsRows DEF Apart
      <4> QED
        BY <4>1 DEF HasRows
    <3>4. (\E i \in 1..Len(os) : os[i] = r) \/ (\E j \in 2..Len(g) : g[j] = r)
      BY <2>3, <3>2, <3>3
    <3>5. /\ \A i \in 1..Len(os) : ShownParent(t, os[i]) = ShownParent(v, os[i])
          /\ \A j \in 2..Len(g) : ShownParent(t, g[j]) = ShownParent(v, g[j])
      BY <1>4, <1>5, SameParents
    <3> QED
      BY <3>1, <3>4, <3>5
  <2> QED
    BY <2>2, <2>3
<1>11. depth = t.indent
  <2>1. t.indent \in [Row -> Int]
    BY <1>4 DEF Apart
  <2>2. ASSUME NEW q \in Row PROVE depth[q] = t.indent[q]
    <3>1. CASE q \in ToSet(g)
      BY <1>6, <3>1
    <3>2. CASE q \notin ToSet(g)
      <4>1. depth[q] = v.indent[q]
        BY <1>6, <1>8, <3>2
      <4>2. t.indent[q] = v.indent[q]
        BY <1>5, <3>2 DEF Shift
      <4> QED
        BY <4>1, <4>2
    <3> QED
      BY <3>1, <3>2
  <2>3. depth = [q \in Row |-> depth[q]] /\ t.indent = [q \in Row |-> t.indent[q]]
    BY <1>6, <2>1
  <2> QED
    BY <2>2, <2>3
<1>12. InOrder(t, weight)
  BY <1>2, <1>6, <1>8, DropWeights
<1>13. f.parent = parent /\ f.depth = depth /\ f.weight = weight
  BY <1>7
<1> QED
  BY <1>2, <1>10, <1>11, <1>12, <1>13 DEF Matches

-----------------------------------------------------------------------------
(* The inductive invariant.                                                *)

(* A pointer does not pass rows unseen, and keys are not pressed meanwhile.*)
Calm == ~Fast /\ ~BothAtOnce

(* A table without a limit whose rows are all draggable.                   *)
Plain == settings.limit = 0 /\ settings.fixed = {}

TableInv ==
  /\ settings \in Tables
  /\ IsTable(table) /\ IsOrder(table.order) /\ Allowed(settings, table.indent)

PointerInv ==
  dragObject # NoPointer =>
    dragObject.at \in 0..(Len(Rows) + 1) /\ dragObject.moved \in BOOLEAN /\ rowObject # NoRow

(* A move began with what the fields f still say.                          *)
BeganAt(u, h, s, os, f) ==
  /\ MoveOK(settings, u, os, h) /\ Placed(settings, u, os, h)
  /\ Carried(u, s) /\ Matches(u.table, f)

Began(s, os, f) == \E u, h : BeganAt(u, h, s, os, f)

(* A move with pointer p and fields f.                                     *)
Sits(s, os, k, p, f) ==
  /\ MoveOK(settings, s, os, k)
  /\ Calm => /\ Placed(settings, s, os, k)
             /\ p # NoPointer => ~s.row.keyboard /\ Drags(s, os, k, p.at)
             /\ Plain => Began(s, os, f)

Moving(s, p, f) == \E os, k : Sits(s, os, k, p, f)

MoverInv ==
  rowObject # NoRow => Moving([table |-> table, row |-> rowObject], dragObject, fields)

TreeInv == Calm /\ settings.limit = 0 /\ rowObject = NoRow => Tree(table)

FieldsInv == Calm /\ Plain /\ rowObject = NoRow => Matches(table, fields)

Inv == TableInv /\ FieldsTyped(fields) /\ PointerInv /\ MoverInv /\ TreeInv /\ FieldsInv

(* A move that goes on began as before.                                    *)
LEMMA StillBegan ==
  ASSUME NEW s, NEW w, NEW os, NEW k, NEW h, NEW f, Began(s, os, f), Moves(s, w, os, k, h)
  PROVE  Began(w, os, f)
<1>1. PICK u, i : BeganAt(u, i, s, os, f)
  BY DEF Began
<1>2. IsMove(u) /\ Carried(u, s) /\ Carried(s, w)
  BY <1>1 DEF BeganAt, MoveOK, Stands, Moves
<1>3. Carried(u, w)
  BY <1>2, CarriedTwice
<1>4. BeganAt(u, i, w, os, f)
  BY <1>1, <1>3 DEF BeganAt
<1> QED
  BY <1>4 DEF Began

(* A move that begins now.                                                 *)
LEMMA BeginsNow ==
  ASSUME NEW s, NEW os, NEW k, NEW f, MoveOK(settings, s, os, k), Placed(settings, s, os, k),
         Matches(s.table, f)
  PROVE  Began(s, os, f)
<1>1. IsMove(s) /\ SameRow(s.row, s.row)
  BY DEF MoveOK, Stands, SameRow
<1>2. Carried(s, s)
  BY <1>1, GoesCarried
<1>3. BeganAt(s, k, s, os, f)
  BY <1>2 DEF BeganAt
<1> QED
  BY <1>3 DEF Began

(* The invariant says that a tree is shown, also during a move.            *)
LEMMA TreeNow ==
  ASSUME Inv, Calm, settings.limit = 0
  PROVE  Tree(table)
<1>1. CASE rowObject = NoRow
  BY <1>1 DEF Inv, TreeInv
<1>2. CASE rowObject # NoRow
  <2>1. PICK s : s = [table |-> table, row |-> rowObject]
    OBVIOUS
  <2>2. PICK os, k : Sits(s, os, k, dragObject, fields)
    BY <1>2, <2>1 DEF Inv, MoverInv, Moving
  <2>3. MoveOK(settings, s, os, k) /\ Placed(settings, s, os, k) /\ settings \in Tables
    BY <2>2 DEF Sits, Inv, TableInv
  <2>4. Tree(s.table)
    BY <2>3, TreeAgain
  <2> QED
    BY <2>1, <2>4
<1> QED
  BY <1>1, <1>2

(* Dropping keeps the types of the fields.                                 *)
LEMMA DroppedTyped ==
  ASSUME Inv
  PROVE  FieldsTyped(Dropped)
<1>1. CASE rowObject # NoRow /\ rowObject.changed
  <2>1. PICK s : s = [table |-> table, row |-> rowObject]
    OBVIOUS
  <2>2. PICK os, k : Sits(s, os, k, dragObject, fields)
    BY <1>1, <2>1 DEF Inv, MoverInv, Moving
  <2>3. s.row.element \in Draggable
    BY <2>2, MoveHas DEF Sits
  <2>4. rowObject.element \in Draggable
    BY <2>1, <2>3
  <2>5. FieldsTyped(fields) /\ IsOrder(table.order) /\ table.indent \in [Row -> Int]
    BY DEF Inv, TableInv, IsTable
  <2>6. FieldsTyped(UpdateFields(table, rowObject))
    BY <2>4, <2>5, UpdateTyped
  <2> QED
    BY <1>1, <2>6 DEF Dropped
<1>2. CASE ~ (rowObject # NoRow /\ rowObject.changed)
  BY <1>2 DEF Dropped, Inv
<1> QED
  BY <1>1, <1>2

(* ... and makes them match what is shown.                                 *)
LEMMA DroppedMatches ==
  ASSUME Inv, Calm, Plain
  PROVE  Matches(table, Dropped)
<1>1. CASE rowObject = NoRow
  <2>1. Dropped = fields
    BY <1>1 DEF Dropped
  <2> QED
    BY <1>1, <2>1 DEF Inv, FieldsInv
<1>2. CASE rowObject # NoRow
  <2>1. PICK s : s = [table |-> table, row |-> rowObject]
    OBVIOUS
  <2>2. s.table = table /\ s.row = rowObject
    BY <2>1
  <2>3. PICK os, k : Sits(s, os, k, dragObject, fields)
    BY <1>2, <2>1 DEF Inv, MoverInv, Moving
  <2>4. MoveOK(settings, s, os, k) /\ Placed(settings, s, os, k) /\ Began(s, os, fields)
    BY <2>3 DEF Sits
  <2>5. PICK u, h : BeganAt(u, h, s, os, fields)
    BY <2>4 DEF Began
  <2>6. CASE rowObject.changed
    <3>1. settings \in Tables /\ FieldsTyped(fields) /\ settings.limit = 0
          /\ settings.fixed = {}
      BY DEF Inv, TableInv, Plain
    <3>2. Gone(u, s, os, h, k) /\ Matches(u.table, fields)
      BY <2>4, <2>5, <3>1 DEF Gone, BeganAt
    <3>3. PICK f : f = UpdateFields(s.table, s.row)
      OBVIOUS
    <3>4. Matches(s.table, f)
      BY <3>1, <3>2, <3>3, DropMatches
    <3>5. Dropped = f
      BY <1>2, <2>2, <2>6, <3>3 DEF Dropped
    <3> QED
      BY <2>2, <3>4, <3>5
  <2>7. CASE ~rowObject.changed
    <3>1. table = u.table /\ Matches(u.table, fields)
      BY <2>2, <2>5, <2>7 DEF BeganAt, Carried
    <3>2. Dropped = fields
      BY <2>7 DEF Dropped
    <3> QED
      BY <3>1, <3>2
  <2> QED
    BY <2>6, <2>7
<1> QED
  BY <1>1, <1>2

(* The invariant holds at first, ...                                       *)
LEMMA InitInv == Init => Inv
<1> SUFFICES ASSUME Init PROVE Inv
  OBVIOUS
<1>1. PICK indent \in [Row -> 0..(Len(Rows) - 1)] : table = [order |-> Rows, indent |-> indent]
  BY DEF Init
<1>2. table.order = Rows /\ table.indent = indent
  BY <1>1
<1>3. indent \in [Row -> Int]
  BY <1>1, RowsAre
<1>4. settings \in Tables /\ DepthsAllowed(table) /\ Tree(table)
      /\ rowObject = NoRow /\ dragObject = NoPointer /\ fields = ShownFields(table)
  BY DEF Init
<1>5. Allowed(settings, table.indent)
  BY <1>4 DEF DepthsAllowed, Allowed
<1>6. TableInv
  BY <1>1, <1>2, <1>3, <1>4, <1>5, RowsAre DEF TableInv, IsTable
<1>7. FieldsTyped(fields)
  BY <1>4, <1>6, ShownTyped DEF TableInv, IsTable
<1>8. Matches(table, fields)
  BY <1>4, <1>6, ShownMatches DEF TableInv
<1> QED
  BY <1>4, <1>6, <1>7, <1>8 DEF Inv, PointerInv, MoverInv, TreeInv, FieldsInv

(* An action that leaves a move behind keeps the invariant.                *)
LEMMA MoveMade ==
  ASSUME settings \in Tables, settings' = settings, FieldsTyped(fields'),
         NEW w, Moving(w, dragObject', fields'), table' = w.table, rowObject' = w.row,
         dragObject' # NoPointer =>
           dragObject'.at \in 0..(Len(Rows) + 1) /\ dragObject'.moved \in BOOLEAN
  PROVE  Inv'
<1>1. PICK os, k : Sits(w, os, k, dragObject', fields')
  BY DEF Moving
<1>2. /\ IsTable(w.table) /\ IsOrder(w.table.order) /\ Allowed(settings, w.table.indent)
      /\ w.row # NoRow /\ w = [table |-> w.table, row |-> w.row]
  BY <1>1, MoveHas DEF Sits
<1>3. TableInv'
  BY <1>2 DEF TableInv
<1>4. w = [table |-> table', row |-> rowObject']
  BY <1>2
<1>5. MoverInv'
  BY <1>1, <1>4 DEF MoverInv, Moving, Sits, Drags, Calm, Plain, Began, BeganAt
<1> QED
  BY <1>2, <1>3, <1>5 DEF Inv, PointerInv, TreeInv, FieldsInv

(* ... when a row is pressed,                                              *)
LEMMA DragStartInv ==
  ASSUME Inv, NEW r \in Row, DragStart(r)
  PROVE  Inv'
<1>1. /\ r \in Draggable /\ dragObject = NoPointer /\ fields' = Dropped
      /\ dragObject' = (IF rowObject = NoRow THEN [at |-> Place(table, r), moved |-> FALSE]
                        ELSE NoPointer)
      /\ rowObject' = NewRow(table, r, FALSE) /\ table' = table /\ settings' = settings
  BY DEF DragStart
<1>2. /\ settings \in Tables /\ IsTable(table) /\ IsOrder(table.order)
      /\ Allowed(settings, table.indent)
  BY DEF Inv, TableInv
<1>3. PICK w : w = [table |-> table, row |-> NewRow(table, r, FALSE)]
  OBVIOUS
<1>4. \E os, k : Starts(table, w, os, k, r, FALSE)
  BY <1>1, <1>2, <1>3, NewRowStarts
<1>5. PICK os, k : Starts(table, w, os, k, r, FALSE)
  BY <1>4
<1>6. /\ MoveOK(settings, w, os, k) /\ w.row.element = r /\ w.row.keyboard = FALSE
      /\ Place(table, r) = k + 1
      /\ (settings.limit = 0 => Tree(table)) => Placed(settings, w, os, k)
  BY <1>5 DEF Starts
<1>7. PICK p : p = dragObject'
  OBVIOUS
<1>8. p # NoPointer => p.at = k + 1 /\ p.moved = FALSE
  BY <1>1, <1>6, <1>7
<1>9. HasRows(w.table, os, w.row.group, k)
  BY <1>6, HoldsRows DEF MoveOK, Stands
<1>10. ASSUME p # NoPointer PROVE Drags(w, os, k, p.at) /\ p.at \in 0..(Len(Rows) + 1)
  <2>1. PICK m : m = Len(w.row.group)
    OBVIOUS
  <2>2. m \in Nat /\ m >= 1 /\ k \in Nat /\ Len(os) \in Nat /\ Len(Rows) = Len(os) + m
        /\ k <= Len(os)
    BY <1>9, <2>1 DEF HasRows
  <2>3. k + 1 \in (k + 1)..(k + m) /\ k + 1 \in 0..(Len(Rows) + 1)
    BY <2>2
  <2> QED
    BY <1>8, <1>10, <2>1, <2>3 DEF Drags, Near
<1>11. Calm => Placed(settings, w, os, k)
  BY <1>6, TreeNow
<1>12. Moving(w, p, fields')
  <2>1. ASSUME Calm, Plain PROVE Began(w, os, fields')
    <3>1. Matches(table, fields')
      BY <1>1, <2>1, DroppedMatches
    <3>2. w.table = table
      BY <1>3
    <3> QED
      BY <1>6, <1>11, <2>1, <3>1, <3>2, BeginsNow
  <2> QED
    BY <1>6, <1>10, <1>11, <2>1 DEF Moving, Sits
<1>13. FieldsTyped(fields')
  BY <1>1, DroppedTyped
<1>14. table' = w.table /\ rowObject' = w.row
  BY <1>1, <1>3
<1>15. p # NoPointer => p.at \in 0..(Len(Rows) + 1) /\ p.moved \in BOOLEAN
  BY <1>8, <1>10
<1> QED
  BY <1>1, <1>2, <1>7, <1>12, <1>13, <1>14, <1>15, MoveMade

(* ... when the pointer moves,                                             *)
LEMMA DragRowInv ==
  ASSUME Inv, NEW to \in 0..(Len(Rows) + 1), NEW direction \in {"none", "up", "down"},
         NEW diff \in {-1, 0, 1}, DragRow(to, direction, diff)
  PROVE  Inv'
<1>1. PICK s : s = [table |-> table, row |-> rowObject]
  OBVIOUS
<1>2. PICK w : w = Indent(IF direction = "none" THEN s
                          ELSE DragOver(s, direction, RowAt(s.table, to)), diff)
  OBVIOUS
<1>3. s.table = table
  BY <1>1
<1>4. /\ dragObject # NoPointer
      /\ Fast \/ to - dragObject.at \in IF dragObject.moved THEN {-1, 0, 1} ELSE {0}
      /\ direction \in Direction(to)
      /\ dragObject' = [at |-> to, moved |-> TRUE]
      /\ table' = w.table /\ rowObject' = w.row
      /\ fields' = fields /\ settings' = settings
  BY <1>1, <1>2, <1>3 DEF DragRow, Take
<1>5. /\ dragObject.at \in 0..(Len(Rows) + 1) /\ dragObject.moved \in BOOLEAN
      /\ rowObject # NoRow /\ settings \in Tables /\ FieldsTyped(fields)
  BY <1>4 DEF Inv, PointerInv, TableInv
<1>6. PICK os, k : Sits(s, os, k, dragObject, fields)
  BY <1>1, <1>5 DEF Inv, MoverInv, Moving
<1>7. PICK at : at = dragObject.at
  OBVIOUS
<1>8. DraggedTo(s, w, os, k, at, to, direction)
  <2>1. diff \in Int
    OBVIOUS
  <2> QED
    BY <1>2, <1>5, <1>6, <2>1, DraggedKeeps DEF Sits
<1>9. PICK h : /\ Moves(s, w, os, k, h)
               /\ /\ Placed(settings, s, os, k) /\ Drags(s, os, k, at)
                  /\ at \in Int /\ NextTo(at, to, direction)
                  => Placed(settings, w, os, h) /\ Drags(w, os, h, to)
  BY <1>8 DEF DraggedTo
<1>10. MoveOK(settings, w, os, h) /\ w.row.keyboard = s.row.keyboard
  BY <1>9 DEF Moves, Carried, SameRow
<1>11. PICK p : p = dragObject'
  OBVIOUS
<1>12. p.at = to /\ p.moved = TRUE
  BY <1>4, <1>11
<1>13. ASSUME Calm
       PROVE  Placed(settings, w, os, h) /\ ~w.row.keyboard /\ Drags(w, os, h, p.at)
  <2>1. Placed(settings, s, os, k) /\ ~s.row.keyboard /\ Drags(s, os, k, at)
    BY <1>4, <1>6, <1>7, <1>13 DEF Sits
  <2>2. at \in Int
    BY <1>5, <1>7, RowsAre
  <2>3. NextTo(at, to, direction)
    <3>1. to - at \in IF dragObject.moved THEN {-1, 0, 1} ELSE {0}
      BY <1>4, <1>7, <1>13 DEF Calm
    <3>2. to \in Int
      BY RowsAre
    <3>3. CASE ~dragObject.moved
      <4>1. to = at
        BY <2>2, <3>1, <3>2, <3>3
      <4> QED
        BY <2>2, <4>1 DEF NextTo
    <3>4. CASE dragObject.moved
      <4>1. to - at \in {-1, 0, 1}
        BY <3>1, <3>4
      <4>2. to > at => direction = "down"
        <5>1. ASSUME to > at PROVE Direction(to) = {"down"}
          <6>1. ~ (to < at)
            BY <2>2, <3>2, <5>1
          <6> QED
            BY <1>7, <3>4, <5>1, <6>1 DEF Direction
        <5> QED
          BY <1>4, <5>1
      <4>3. to < at => direction = "up"
        <5>1. ASSUME to < at PROVE Direction(to) = {"up"}
          <6>1. ~ (to > at)
            BY <2>2, <3>2, <5>1
          <6> QED
            BY <1>7, <3>4, <5>1, <6>1 DEF Direction
        <5> QED
          BY <1>4, <5>1
      <4> QED
        BY <4>1, <4>2, <4>3 DEF NextTo
    <3> QED
      BY <3>3, <3>4
  <2> QED
    BY <1>9, <1>10, <1>12, <2>1, <2>2, <2>3
<1>14. Moving(w, p, fields)
  <2>1. ASSUME Calm, Plain PROVE Began(w, os, fields)
    BY <1>6, <1>9, <2>1, StillBegan DEF Sits
  <2> QED
    BY <1>10, <1>13, <2>1 DEF Moving, Sits
<1>15. p.at \in 0..(Len(Rows) + 1) /\ p.moved \in BOOLEAN
  BY <1>12
<1> QED
  BY <1>4, <1>5, <1>11, <1>14, <1>15, MoveMade

(* ... when the row is dropped,                                            *)
LEMMA DropRowInv ==
  ASSUME Inv, DropRow
  PROVE  Inv'
<1>1. /\ rowObject # NoRow /\ fields' = Dropped /\ rowObject' = NoRow
      /\ dragObject' = NoPointer /\ table' = table /\ settings' = settings
  BY DEF DropRow
<1>2. FieldsTyped(fields')
  BY <1>1, DroppedTyped
<1>3. TableInv'
  BY <1>1 DEF Inv, TableInv
<1>4. TreeInv'
  <2>1. ASSUME Calm, settings.limit = 0 PROVE Tree(table)
    BY <2>1, TreeNow
  <2>2. Tree(table) => Tree(table)'
    BY <1>1 DEF Tree, Room, Draggable, RowAt, Places
  <2> QED
    BY <1>1, <2>1, <2>2 DEF TreeInv, Calm
<1>5. FieldsInv'
  <2>1. ASSUME Calm, Plain PROVE Matches(table, fields')
    BY <1>1, <2>1, DroppedMatches
  <2> QED
    BY <1>1, <2>1 DEF FieldsInv, Calm, Plain
<1> QED
  BY <1>1, <1>2, <1>3, <1>4, <1>5 DEF Inv, PointerInv, MoverInv

(* ... and when a key is pressed.                                          *)
LEMMA KeyInv ==
  ASSUME Inv, NEW item \in Row, NEW key \in {"left", "right", "up", "down"}, Key(item, key)
  PROVE  Inv'
<1>1. PICK row : row = IF rowObject = NoRow THEN NewRow(table, item, TRUE) ELSE rowObject
  OBVIOUS
<1>2. PICK s : s = [table |-> table, row |-> row]
  OBVIOUS
<1>3. PICK w : w = Keyed(s, item, key)
  OBVIOUS
<1>4. /\ item \in Draggable
      /\ rowObject # NoRow => \/ rowObject.keyboard /\ item = rowObject.element
                              \/ ~rowObject.keyboard /\ BothAtOnce
      /\ table' = w.table /\ rowObject' = w.row
      /\ fields' = fields /\ dragObject' = dragObject /\ settings' = settings
  BY <1>1, <1>2, <1>3 DEF Key, Take
<1>5. /\ settings \in Tables /\ IsTable(table) /\ IsOrder(table.order)
      /\ Allowed(settings, table.indent) /\ FieldsTyped(fields)
      /\ dragObject # NoPointer =>
           /\ dragObject.at \in 0..(Len(Rows) + 1) /\ dragObject.moved \in BOOLEAN
           /\ rowObject # NoRow
  BY DEF Inv, TableInv, PointerInv
<1>6. \E os, k : /\ MoveOK(settings, s, os, k)
                 /\ Calm => /\ Placed(settings, s, os, k) /\ item = s.row.element
                            /\ dragObject = NoPointer
                            /\ Plain => Began(s, os, fields)
  <2>1. CASE rowObject = NoRow
    <3>1. s = [table |-> table, row |-> NewRow(table, item, TRUE)]
      BY <1>1, <1>2, <2>1
    <3>2. \E os, k : Starts(table, s, os, k, item, TRUE)
      BY <1>4, <1>5, <3>1, NewRowStarts
    <3>3. Calm /\ settings.limit = 0 => Tree(table)
      BY TreeNow
    <3>4. PICK os, k : Starts(table, s, os, k, item, TRUE)
      BY <3>2
    <3>5. /\ MoveOK(settings, s, os, k) /\ s.table = table /\ item = s.row.element
          /\ Calm => Placed(settings, s, os, k)
      BY <3>3, <3>4 DEF Starts
    <3>6. ASSUME Calm, Plain PROVE Began(s, os, fields)
      <4>1. Matches(table, fields)
        BY <2>1, <3>6 DEF Inv, FieldsInv
      <4> QED
        BY <3>5, <3>6, <4>1, BeginsNow
    <3> QED
      BY <1>5, <2>1, <3>5, <3>6
  <2>2. CASE rowObject # NoRow
    <3>1. s = [table |-> table, row |-> rowObject] /\ s.row = rowObject
      BY <1>1, <1>2, <2>2
    <3>2. PICK os, k : Sits(s, os, k, dragObject, fields)
      BY <2>2, <3>1 DEF Inv, MoverInv, Moving
    <3>3. Calm => rowObject.keyboard /\ item = rowObject.element
      BY <1>4, <2>2 DEF Calm
    <3>4. Calm => dragObject = NoPointer
      BY <3>1, <3>2, <3>3 DEF Sits
    <3> QED
      BY <3>1, <3>2, <3>3, <3>4 DEF Sits
  <2> QED
    BY <2>1, <2>2
<1>7. PICK os, k : /\ MoveOK(settings, s, os, k)
                   /\ Calm => /\ Placed(settings, s, os, k) /\ item = s.row.element
                              /\ dragObject = NoPointer
                              /\ Plain => Began(s, os, fields)
  BY <1>6
<1>8. Keeps(s, w, os, k, item = s.row.element)
  BY <1>3, <1>5, <1>7, KeyedKeeps
<1>9. PICK h : /\ Moves(s, w, os, k, h)
               /\ item = s.row.element /\ Placed(settings, s, os, k) =>
                    Placed(settings, w, os, h)
  BY <1>8 DEF Keeps
<1>10. Sits(w, os, h, dragObject, fields)
  <2>1. ASSUME Calm, Plain PROVE Began(w, os, fields)
    BY <1>7, <1>9, <2>1, StillBegan
  <2> QED
    BY <1>7, <1>9, <2>1 DEF Sits, Moves
<1>11. Moving(w, dragObject', fields')
  BY <1>4, <1>10 DEF Moving
<1> QED
  BY <1>4, <1>5, <1>11, MoveMade

LEMMA NextInv == Inv /\ [Next]_vars => Inv'
<1> SUFFICES ASSUME Inv, [Next]_vars PROVE Inv'
  OBVIOUS
<1>1. CASE \E r \in Row : DragStart(r)
  BY <1>1, DragStartInv
<1>2. CASE \E to \in 0..(Len(Rows) + 1), direction \in {"none", "up", "down"},
              diff \in {-1, 0, 1} : DragRow(to, direction, diff)
  BY <1>2, DragRowInv
<1>3. CASE DropRow
  BY <1>3, DropRowInv
<1>4. CASE \E item \in Row, key \in {"left", "right", "up", "down"} : Key(item, key)
  BY <1>4, KeyInv
<1>5. CASE UNCHANGED vars
  <2>1. /\ table' = table /\ fields' = fields /\ rowObject' = rowObject
        /\ dragObject' = dragObject /\ settings' = settings
    BY <1>5 DEF vars
  <2> QED
    BY <2>1 DEF Inv, TableInv, PointerInv, MoverInv, Moving, Sits, Drags, TreeInv, FieldsInv,
                Calm, Plain, Began, BeganAt, Tree, Room, Draggable, RowAt, Places
<1> QED
  BY <1>1, <1>2, <1>3, <1>4, <1>5 DEF Next

LEMMA Invariance == Spec => []Inv
<1>1. Init => Inv
  BY InitInv
<1>2. Inv /\ [Next]_vars => Inv'
  BY NextInv
<1> QED
  BY <1>1, <1>2, PTL DEF Spec

-----------------------------------------------------------------------------
(* No row is lost or doubled, and every variable has its type, whatever    *)
(* the pointer and the keys do.                                            *)
THEOREM TypeCorrect == Spec => []TypeOK
<1>1. Inv => TypeOK
  <2> SUFFICES ASSUME Inv PROVE TypeOK
    OBVIOUS
  <2>1. /\ IsInjective(table.order) /\ ToSet(table.order) = Row
        /\ table.indent \in [Row -> Int] /\ settings \in Tables
    BY DEF Inv, TableInv, IsTable, IsOrder
  <2>2. /\ fields.parent \in [Row -> Row \cup {Top}]
        /\ fields.depth \in [Row -> Int] /\ fields.weight \in [Row -> Nat]
    BY DEF Inv, FieldsTyped
  <2>3. ASSUME rowObject # NoRow PROVE rowObject.element \in Draggable
    <3>1. PICK s : s = [table |-> table, row |-> rowObject]
      OBVIOUS
    <3>2. PICK os, k : Sits(s, os, k, dragObject, fields)
      BY <2>3, <3>1 DEF Inv, MoverInv, Moving
    <3>3. s.row.element \in Draggable
      BY <3>2, MoveHas DEF Sits
    <3> QED
      BY <3>1, <3>3
  <2>4. dragObject.at \in -1..(Len(Rows) + 1)
    <3>1. CASE dragObject = NoPointer
      BY <3>1, RowsAre DEF NoPointer
    <3>2. CASE dragObject # NoPointer
      <4>1. dragObject.at \in 0..(Len(Rows) + 1)
        BY <3>2 DEF Inv, PointerInv
      <4> QED
        BY <4>1, RowsAre
    <3> QED
      BY <3>1, <3>2
  <2> QED
    BY <2>1, <2>2, <2>3, <2>4 DEF TypeOK
<1>2. Spec => []Inv
  BY Invariance
<1> QED
  BY <1>1, <1>2, PTL

(* No depth is ever reached that the limit or the class of a row forbids,  *)
(* whatever the pointer and the keys do.                                   *)
THEOREM DepthsAlwaysAllowed == Spec => []DepthsAllowed(table)
<1>1. Inv => DepthsAllowed(table)
  BY DEF Inv, TableInv, Allowed, DepthsAllowed
<1>2. Spec => []Inv
  BY Invariance
<1> QED
  BY <1>1, <1>2, PTL

(* The table always shows a tree, and the rows that move together are the  *)
(* row and its descendants, as long as a pointer passes the rows one at a  *)
(* time and no keys are pressed meanwhile.                                 *)
THEOREM TreeAlwaysShown ==
  ASSUME ~Fast, ~BothAtOnce
  PROVE  Spec => []TreeShown
<1>1. Calm
  BY DEF Calm
<1>2. Inv => TreeShown
  <2> SUFFICES ASSUME Inv PROVE TreeShown
    OBVIOUS
  <2>1. DepthsAllowed(table)
    BY DEF Inv, TableInv, Allowed, DepthsAllowed
  <2>2. ASSUME settings.limit = 0 PROVE Tree(table)
    BY <1>1, <2>2, TreeNow
  <2>3. ASSUME settings.limit = 0, rowObject # NoRow
        PROVE  rowObject.group = Group(table, rowObject.element)
    <3>1. PICK s : s = [table |-> table, row |-> rowObject]
      OBVIOUS
    <3>2. PICK os, k : Sits(s, os, k, dragObject, fields)
      BY <2>3, <3>1 DEF Inv, MoverInv, Moving
    <3>3. MoveOK(settings, s, os, k) /\ Placed(settings, s, os, k) /\ settings \in Tables
      BY <1>1, <3>2 DEF Sits, Inv, TableInv
    <3>4. Group(s.table, s.row.element) = s.row.group
      BY <2>3, <3>3, GroupAgain
    <3> QED
      BY <3>1, <3>4
  <2> QED
    BY <2>1, <2>2, <2>3 DEF TreeShown
<1>3. Spec => []Inv
  BY Invariance
<1> QED
  BY <1>2, <1>3, PTL

(* What would be submitted is what is shown, under the same conditions: a  *)
(* drop, which writes few of the fields, leaves none that is out of date.  *)
THEOREM FieldsAlwaysMatch ==
  ASSUME ~Fast, ~BothAtOnce
  PROVE  Spec => []FieldsMatch
<1>1. Calm
  BY DEF Calm
<1>2. Inv => FieldsMatch
  <2> SUFFICES ASSUME Inv, settings.limit = 0, settings.fixed = {}, rowObject = NoRow
               PROVE  /\ fields.parent = ShownFields(table).parent
                      /\ fields.depth = table.indent
                      /\ InOrder(table, fields.weight)
    BY DEF FieldsMatch, InOrder
  <2>1. Matches(table, fields)
    BY <1>1 DEF Inv, FieldsInv, Plain
  <2>2. fields.parent = [r \in Row |-> ShownParent(table, r)]
    <3>1. fields.parent \in [Row -> Row \cup {Top}]
      BY DEF Inv, FieldsTyped
    <3> QED
      BY <2>1, <3>1 DEF Matches
  <2>3. ShownFields(table).parent = [r \in Row |-> ShownParent(table, r)]
    BY DEF ShownFields
  <2> QED
    BY <2>1, <2>2, <2>3 DEF Matches
<1>3. Spec => []Inv
  BY Invariance
<1> QED
  BY <1>2, <1>3, PTL
=============================================================================

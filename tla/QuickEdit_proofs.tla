-------------------------- MODULE QuickEdit_proofs --------------------------
(***************************************************************************)
(* Proofs about QuickEdit, for every page: any entities, fields, editors,  *)
(* view modes and troubles, and whatever the bounds on the user.           *)
(*                                                                         *)
(* A handler is an operator from a page to a page, so the inductive        *)
(* invariant is a set of pages, Good, and each operator of QuickEditModels *)
(* has a lemma that says when it leads from Good to Good.                  *)
(*                                                                         *)
(* The second half is about a page with one entity, where callbacks and    *)
(* answers come in an order that can be stated (Orderly), again with one   *)
(* lemma for each operator, each user's step, each callback and answer.    *)
(***************************************************************************)
EXTENDS QuickEdit, SequenceTheorems, FiniteSetTheorems, WellFoundedInduction, TLAPS

-----------------------------------------------------------------------------
(* Folds over a sequence.                                                  *)

LEMMA NaturalInduction ==
  ASSUME NEW X, 0 \in X, \A n \in Nat : n \in X => n + 1 \in X
  PROVE  \A n \in Nat : n \in X
<1> SUFFICES ASSUME Nat \ X # {} PROVE FALSE
  OBVIOUS
<1>1. PICK m \in Nat \ X : \A n \in Nat \ X : ~ (<<n, m>> \in OpToRel(<, Nat))
  BY NatLessThanWellFounded, WFMin
<1>2. \A n \in Nat \ X : ~ (n < m)
  BY <1>1, Zenon DEF OpToRel
<1>3. m # 0 /\ m - 1 \in Nat /\ m - 1 < m /\ (m - 1) + 1 = m
  OBVIOUS
<1>4. m - 1 \in X
  BY <1>2, <1>3
<1> QED
  BY <1>3, <1>4

LEMMA MaxIs ==
  ASSUME NEW n \in Nat, NEW I, I \subseteq 1..n, I # {}
  PROVE  Max(I) \in I /\ \A j \in I : j <= Max(I)
<1> DEFINE D == {k \in Nat : n - k \in I}
<1>1. D # {} /\ D \subseteq Nat
  <2>1. PICK i \in I : TRUE
    OBVIOUS
  <2>2. n - i \in D
    BY <2>1
  <2> QED
    BY <2>2
<1>2. PICK k \in D : \A j \in D : ~ (<<j, k>> \in OpToRel(<, Nat))
  BY <1>1, NatLessThanWellFounded, WFMin
<1>3. \A j \in D : ~ (j < k)
  BY <1>2, Zenon DEF OpToRel
<1>4. \A j \in I : n - j \in D /\ j <= n - k
  <2>1. \A j \in I : n - j \in D
    OBVIOUS
  <2> QED
    BY <1>3, <2>1
<1>5. \E i \in I : \A j \in I : i >= j
  BY <1>4
<1> QED
  BY <1>5 DEF Max

(* The set that is left when a fold has used its last element.             *)
Less(I) == I \ {Max(I)}

LEMMA LessIs ==
  ASSUME NEW n \in Nat, NEW I, I \subseteq 1..(n + 1), I # {}
  PROVE  Max(I) \in 1..(n + 1) /\ Less(I) \subseteq 1..n
<1>1. n + 1 \in Nat
  OBVIOUS
<1>2. Max(I) \in I /\ \A j \in I : j <= Max(I)
  BY <1>1, MaxIs
<1>3. PICK m : m = Max(I)
  OBVIOUS
<1>4. m \in 1..(n + 1) /\ \A j \in I : j <= m
  BY <1>2, <1>3
<1>5. \A j \in I : j # m => j \in 1..n
  BY <1>4
<1> QED
  BY <1>3, <1>4, <1>5 DEF Less

(* What is true of no element, and of a set when it is true of what is     *)
(* left of it, is true of all sets a fold meets.                           *)
LEMMA FoldInduction ==
  ASSUME NEW n \in Nat, NEW X, {} \in X,
         \A I \in SUBSET (1..n) : I # {} /\ Less(I) \in X => I \in X
  PROVE  1..n \in X
<1> DEFINE Y == {k \in Nat : k <= n => SUBSET (1..k) \subseteq X}
<1>1. 0 \in Y
  <2>1. SUBSET (1..0) = {{}}
    OBVIOUS
  <2> QED
    BY <2>1
<1>2. ASSUME NEW k \in Nat, k \in Y PROVE k + 1 \in Y
  <2> SUFFICES ASSUME k + 1 <= n, NEW I \in SUBSET (1..(k + 1)) PROVE I \in X
    OBVIOUS
  <2>1. SUBSET (1..k) \subseteq X
    BY <1>2
  <2>2. I \in SUBSET (1..n)
    OBVIOUS
  <2>3. CASE I # {}
    BY <2>1, <2>2, <2>3, LessIs
  <2> QED
    BY <2>3
<1>3. n \in Y
  <2> HIDE DEF Y
  <2> QED
    BY <1>1, <1>2, NaturalInduction
<1> QED
  BY <1>3

(* f[I] is what comes of b and the elements of s at the places of I.       *)
IsFold(f, g, b, s, n) ==
  f = [I \in SUBSET (1..n) |-> IF I = {} THEN b ELSE g[<<f[Less(I)], s[Max(I)]>>]]

Folds(S, g, b, s, n) == {f \in [SUBSET (1..n) -> S] : IsFold(f, g, b, s, n)}

LEMMA FoldExists ==
  ASSUME NEW S, NEW F, NEW s \in Seq(F), NEW b \in S, NEW g \in [S \X F -> S]
  PROVE  \E f \in [SUBSET (1..Len(s)) -> S] : IsFold(f, g, b, s, Len(s))
<1> DEFINE Y == {n \in Nat : n <= Len(s) => Folds(S, g, b, s, n) # {}}
<1>1. 0 \in Y
  <2> DEFINE f == [I \in SUBSET (1..0) |-> b]
  <2>1. SUBSET (1..0) = {{}}
    OBVIOUS
  <2>2. IsFold(f, g, b, s, 0)
    BY <2>1 DEF IsFold
  <2>3. f \in Folds(S, g, b, s, 0)
    BY <2>2 DEF Folds
  <2> QED
    BY <2>3
<1>2. ASSUME NEW n \in Nat, n \in Y PROVE n + 1 \in Y
  <2> SUFFICES ASSUME n + 1 <= Len(s) PROVE Folds(S, g, b, s, n + 1) # {}
    OBVIOUS
  <2>1. PICK f \in Folds(S, g, b, s, n) : TRUE
    BY <1>2
  <2>2. f \in [SUBSET (1..n) -> S] /\ IsFold(f, g, b, s, n)
    BY <2>1 DEF Folds
  <2> DEFINE h == [I \in SUBSET (1..(n + 1)) |->
                     IF I = {} THEN b ELSE g[<<f[Less(I)], s[Max(I)]>>]]
  <2>3. \A I \in SUBSET (1..(n + 1)) : I # {} =>
          s[Max(I)] \in F /\ Less(I) \in SUBSET (1..n) /\ Less(I) \in SUBSET (1..(n + 1))
    <3> SUFFICES ASSUME NEW I \in SUBSET (1..(n + 1)), I # {}
                 PROVE  s[Max(I)] \in F /\ Less(I) \in SUBSET (1..n)
      OBVIOUS
    <3>1. Max(I) \in 1..(n + 1) /\ Less(I) \subseteq 1..n
      BY LessIs
    <3> QED
      BY <3>1
  <2>4. h \in [SUBSET (1..(n + 1)) -> S]
    BY <2>2, <2>3
  <2>5. \A I \in SUBSET (1..n) : h[I] = f[I]
    <3> SUFFICES ASSUME NEW I \in SUBSET (1..n) PROVE h[I] = f[I]
      OBVIOUS
    <3>1. I \in SUBSET (1..(n + 1))
      OBVIOUS
    <3>2. f[I] = IF I = {} THEN b ELSE g[<<f[Less(I)], s[Max(I)]>>]
      BY <2>2 DEF IsFold
    <3> QED
      BY <3>1, <3>2
  <2>6. \A I \in SUBSET (1..(n + 1)) :
          h[I] = IF I = {} THEN b ELSE g[<<h[Less(I)], s[Max(I)]>>]
    <3> SUFFICES ASSUME NEW I \in SUBSET (1..(n + 1)), I # {}
                 PROVE  h[I] = g[<<h[Less(I)], s[Max(I)]>>]
      OBVIOUS
    <3>1. h[Less(I)] = f[Less(I)]
      <4> HIDE DEF h
      <4> QED
        BY <2>3, <2>5
    <3> QED
      BY <3>1
  <2>7. IsFold(h, g, b, s, n + 1)
    <3> HIDE DEF h
    <3>1. h = [I \in SUBSET (1..(n + 1)) |-> h[I]]
      BY <2>4
    <3> QED
      BY <2>6, <3>1 DEF IsFold
  <2>8. h \in Folds(S, g, b, s, n + 1)
    <3> HIDE DEF h
    <3> QED
      BY <2>4, <2>7 DEF Folds
  <2> QED
    BY <2>8
<1>3. Len(s) \in Y
  <2> HIDE DEF Y
  <2> QED
    BY <1>1, <1>2, NaturalInduction
<1>4. Len(s) \in Nat /\ Folds(S, g, b, s, Len(s)) # {}
  BY <1>3
<1> QED
  BY <1>4 DEF Folds

(* A fold of an operation that stays in S stays in S.                      *)
LEMMA FoldStays ==
  ASSUME NEW S, NEW F, NEW s \in Seq(F), NEW b \in S, NEW h, h[{}] = b,
         \A I \in SUBSET (1..Len(s)) : I # {} /\ h[Less(I)] \in S /\ s[Max(I)] \in F => h[I] \in S
  PROVE  h[DOMAIN s] \in S
<1> DEFINE X == {I \in SUBSET (1..Len(s)) : h[I] \in S}
<1>1. {} \in X
  OBVIOUS
<1>2. ASSUME NEW I \in SUBSET (1..Len(s)), I # {}, Less(I) \in X PROVE I \in X
  <2>1. Len(s) \in Nat
    OBVIOUS
  <2>2. Max(I) \in 1..Len(s)
    BY <1>2, <2>1, MaxIs
  <2> QED
    BY <1>2, <2>2
<1>3. 1..Len(s) \in X
  <2>1. Len(s) \in Nat
    OBVIOUS
  <2> HIDE DEF X
  <2> QED
    BY <1>1, <1>2, <2>1, FoldInduction
<1>4. DOMAIN s = 1..Len(s)
  BY LenProperties
<1> QED
  BY <1>3, <1>4

(* The folds of QuickEditModels, named.  Each has an operation of its own. *)
SetupAll(b, s)     == FoldLeft(SetupEditor, b, s)
TeardownAll(b, s)  == FoldLeft(TeardownEditor, b, s)
RenderAll(b, s)    == FoldLeft(RenderField, b, s)
SendAll(b, e, s)   == FoldLeft(LAMBDA q, f : SendToCandidate(q, e, f), b, s)
DeactivateAll(b, s) == FoldLeft(LAMBDA r, x : SetDeactivating(r, x, "none"), b, s)

LEMMA KeepFoldIs ==
  ASSUME NEW S, NEW F, NEW s \in Seq(F), NEW b \in S, b = <<>>, NEW T,
         \A q \in S, x \in F : (IF x \in T THEN Append(q, x) ELSE q) \in S
  PROVE  \E h :
           /\ Keep(s, T) = h[DOMAIN s] /\ h[{}] = b
           /\ \A I \in SUBSET (1..Len(s)) : I # {} =>
                h[I] = (IF s[Max(I)] \in T THEN Append(h[Less(I)], s[Max(I)]) ELSE h[Less(I)])
<1> DEFINE Fold(f) == f = [I \in SUBSET DOMAIN s |->
             IF I = {} THEN b ELSE (IF s[Max(I)] \in T THEN Append(f[I \ {Max(I)}], s[Max(I)]) ELSE f[I \ {Max(I)}])]
           g == [y \in S \X F |-> (IF y[2] \in T THEN Append(y[1], y[2]) ELSE y[1])]
<1>1. g \in [S \X F -> S]
  OBVIOUS
<1>2. PICK f \in [SUBSET (1..Len(s)) -> S] : IsFold(f, g, b, s, Len(s))
  <2> HIDE DEF g
  <2> QED
    BY <1>1, FoldExists
<1>3. \A I \in SUBSET (1..Len(s)) : I # {} =>
        /\ s[Max(I)] \in F /\ Less(I) \in SUBSET (1..Len(s))
        /\ g[<<f[Less(I)], s[Max(I)]>>] = (IF s[Max(I)] \in T THEN Append(f[Less(I)], s[Max(I)]) ELSE f[Less(I)])
  <2> SUFFICES ASSUME NEW I \in SUBSET (1..Len(s)), I # {}
               PROVE  /\ s[Max(I)] \in F /\ Less(I) \in SUBSET (1..Len(s))
                      /\ g[<<f[Less(I)], s[Max(I)]>>] = (IF s[Max(I)] \in T THEN Append(f[Less(I)], s[Max(I)]) ELSE f[Less(I)])
    OBVIOUS
  <2>1. Max(I) \in 1..Len(s)
    <3>1. Len(s) \in Nat
      OBVIOUS
    <3> QED
      BY <3>1, MaxIs
  <2>2. Less(I) \in SUBSET (1..Len(s))
    BY DEF Less
  <2>3. f[Less(I)] \in S /\ s[Max(I)] \in F
    BY <2>1, <2>2
  <2> QED
    BY <2>2, <2>3
<1>4. DOMAIN s = 1..Len(s)
  BY LenProperties
<1>5. Fold(f)
  <2> HIDE DEF g
  <2> QED
    BY <1>2, <1>3, <1>4 DEF IsFold, Less
<1>6. Keep(s, T) = (CHOOSE h : Fold(h))[DOMAIN s]
  BY DEF Keep, FoldLeft, MapThenFoldSet
<1>7. PICK h : h = (CHOOSE k : Fold(k)) /\ Fold(h)
  <2> HIDE DEF Fold
  <2> QED
    BY <1>5
<1>8. h[{}] = b /\ \A I \in SUBSET (1..Len(s)) : I # {} => h[I] = (IF s[Max(I)] \in T THEN Append(h[Less(I)], s[Max(I)]) ELSE h[Less(I)])
  BY <1>4, <1>7 DEF Less
<1> QED
  <2> HIDE DEF Fold
  <2> QED
    BY <1>6, <1>7, <1>8

LEMMA KeepFold ==
  ASSUME NEW S, NEW F, NEW s \in Seq(F), NEW b \in S, b = <<>>, NEW T,
         \A q \in S, x \in F : (IF x \in T THEN Append(q, x) ELSE q) \in S
  PROVE  Keep(s, T) \in S
<1>1. PICK h :
        /\ Keep(s, T) = h[DOMAIN s] /\ h[{}] = b
        /\ \A I \in SUBSET (1..Len(s)) : I # {} =>
             h[I] = (IF s[Max(I)] \in T THEN Append(h[Less(I)], s[Max(I)]) ELSE h[Less(I)])
  BY KeepFoldIs
<1>2. \A I \in SUBSET (1..Len(s)) :
        I # {} /\ h[Less(I)] \in S /\ s[Max(I)] \in F => h[I] \in S
  BY <1>1
<1>3. h[DOMAIN s] \in S
  BY <1>1, <1>2, FoldStays
<1> QED
  BY <1>1, <1>3

LEMMA SetupFold ==
  ASSUME NEW S, NEW F, NEW s \in Seq(F), NEW b \in S,
         \A q \in S, x \in F : SetupEditor(q, x) \in S
  PROVE  SetupAll(b, s) \in S
<1> DEFINE Fold(f) == f = [I \in SUBSET DOMAIN s |->
             IF I = {} THEN b ELSE SetupEditor(f[I \ {Max(I)}], s[Max(I)])]
           g == [y \in S \X F |-> SetupEditor(y[1], y[2])]
<1>1. g \in [S \X F -> S]
  OBVIOUS
<1>2. PICK f \in [SUBSET (1..Len(s)) -> S] : IsFold(f, g, b, s, Len(s))
  <2> HIDE DEF g
  <2> QED
    BY <1>1, FoldExists
<1>3. \A I \in SUBSET (1..Len(s)) : I # {} =>
        /\ s[Max(I)] \in F /\ Less(I) \in SUBSET (1..Len(s))
        /\ g[<<f[Less(I)], s[Max(I)]>>] = SetupEditor(f[Less(I)], s[Max(I)])
  <2> SUFFICES ASSUME NEW I \in SUBSET (1..Len(s)), I # {}
               PROVE  /\ s[Max(I)] \in F /\ Less(I) \in SUBSET (1..Len(s))
                      /\ g[<<f[Less(I)], s[Max(I)]>>] = SetupEditor(f[Less(I)], s[Max(I)])
    OBVIOUS
  <2>1. Max(I) \in 1..Len(s)
    <3>1. Len(s) \in Nat
      OBVIOUS
    <3> QED
      BY <3>1, MaxIs
  <2>2. Less(I) \in SUBSET (1..Len(s))
    BY DEF Less
  <2>3. f[Less(I)] \in S /\ s[Max(I)] \in F
    BY <2>1, <2>2
  <2> QED
    BY <2>2, <2>3
<1>4. DOMAIN s = 1..Len(s)
  BY LenProperties
<1>5. Fold(f)
  <2> HIDE DEF g
  <2> QED
    BY <1>2, <1>3, <1>4 DEF IsFold, Less
<1>6. SetupAll(b, s) = (CHOOSE h : Fold(h))[DOMAIN s]
  BY DEF SetupAll, FoldLeft, MapThenFoldSet
<1>7. PICK h : h = (CHOOSE k : Fold(k)) /\ Fold(h)
  <2> HIDE DEF Fold
  <2> QED
    BY <1>5
<1>8. h[{}] = b /\ \A I \in SUBSET (1..Len(s)) : I # {} => h[I] = SetupEditor(h[Less(I)], s[Max(I)])
  BY <1>4, <1>7 DEF Less
<1>9. h[DOMAIN s] \in S
  <2>1. \A I \in SUBSET (1..Len(s)) :
          I # {} /\ h[Less(I)] \in S /\ s[Max(I)] \in F => h[I] \in S
    BY <1>8
  <2> HIDE DEF Fold, g
  <2> QED
    BY <1>8, <2>1, FoldStays
<1> QED
  <2> HIDE DEF Fold
  <2> QED
    BY <1>6, <1>7, <1>9

LEMMA TeardownFoldIs ==
  ASSUME NEW S, NEW F, NEW s \in Seq(F), NEW b \in S,
         \A q \in S, x \in F : TeardownEditor(q, x) \in S
  PROVE  \E h :
           /\ TeardownAll(b, s) = h[DOMAIN s] /\ h[{}] = b
           /\ \A I \in SUBSET (1..Len(s)) : I # {} =>
                h[I] = TeardownEditor(h[Less(I)], s[Max(I)])
<1> DEFINE Fold(f) == f = [I \in SUBSET DOMAIN s |->
             IF I = {} THEN b ELSE TeardownEditor(f[I \ {Max(I)}], s[Max(I)])]
           g == [y \in S \X F |-> TeardownEditor(y[1], y[2])]
<1>1. g \in [S \X F -> S]
  OBVIOUS
<1>2. PICK f \in [SUBSET (1..Len(s)) -> S] : IsFold(f, g, b, s, Len(s))
  <2> HIDE DEF g
  <2> QED
    BY <1>1, FoldExists
<1>3. \A I \in SUBSET (1..Len(s)) : I # {} =>
        /\ s[Max(I)] \in F /\ Less(I) \in SUBSET (1..Len(s))
        /\ g[<<f[Less(I)], s[Max(I)]>>] = TeardownEditor(f[Less(I)], s[Max(I)])
  <2> SUFFICES ASSUME NEW I \in SUBSET (1..Len(s)), I # {}
               PROVE  /\ s[Max(I)] \in F /\ Less(I) \in SUBSET (1..Len(s))
                      /\ g[<<f[Less(I)], s[Max(I)]>>] = TeardownEditor(f[Less(I)], s[Max(I)])
    OBVIOUS
  <2>1. Max(I) \in 1..Len(s)
    <3>1. Len(s) \in Nat
      OBVIOUS
    <3> QED
      BY <3>1, MaxIs
  <2>2. Less(I) \in SUBSET (1..Len(s))
    BY DEF Less
  <2>3. f[Less(I)] \in S /\ s[Max(I)] \in F
    BY <2>1, <2>2
  <2> QED
    BY <2>2, <2>3
<1>4. DOMAIN s = 1..Len(s)
  BY LenProperties
<1>5. Fold(f)
  <2> HIDE DEF g
  <2> QED
    BY <1>2, <1>3, <1>4 DEF IsFold, Less
<1>6. TeardownAll(b, s) = (CHOOSE h : Fold(h))[DOMAIN s]
  BY DEF TeardownAll, FoldLeft, MapThenFoldSet
<1>7. PICK h : h = (CHOOSE k : Fold(k)) /\ Fold(h)
  <2> HIDE DEF Fold
  <2> QED
    BY <1>5
<1>8. h[{}] = b /\ \A I \in SUBSET (1..Len(s)) : I # {} => h[I] = TeardownEditor(h[Less(I)], s[Max(I)])
  BY <1>4, <1>7 DEF Less
<1> QED
  <2> HIDE DEF Fold
  <2> QED
    BY <1>6, <1>7, <1>8

LEMMA TeardownFold ==
  ASSUME NEW S, NEW F, NEW s \in Seq(F), NEW b \in S,
         \A q \in S, x \in F : TeardownEditor(q, x) \in S
  PROVE  TeardownAll(b, s) \in S
<1>1. PICK h :
        /\ TeardownAll(b, s) = h[DOMAIN s] /\ h[{}] = b
        /\ \A I \in SUBSET (1..Len(s)) : I # {} =>
             h[I] = TeardownEditor(h[Less(I)], s[Max(I)])
  BY TeardownFoldIs
<1>2. \A I \in SUBSET (1..Len(s)) :
        I # {} /\ h[Less(I)] \in S /\ s[Max(I)] \in F => h[I] \in S
  BY <1>1
<1>3. h[DOMAIN s] \in S
  BY <1>1, <1>2, FoldStays
<1> QED
  BY <1>1, <1>3

LEMMA SetFieldFoldIs ==
  ASSUME NEW S, NEW F, NEW s \in Seq(F), NEW b \in S, NEW to, NEW why,
         \A q \in S, x \in F : SetField(q, x, to, why) \in S
  PROVE  \E h :
           /\ SetEach(b, s, to, why) = h[DOMAIN s] /\ h[{}] = b
           /\ \A I \in SUBSET (1..Len(s)) : I # {} =>
                h[I] = SetField(h[Less(I)], s[Max(I)], to, why)
<1> DEFINE Fold(f) == f = [I \in SUBSET DOMAIN s |->
             IF I = {} THEN b ELSE SetField(f[I \ {Max(I)}], s[Max(I)], to, why)]
           g == [y \in S \X F |-> SetField(y[1], y[2], to, why)]
<1>1. g \in [S \X F -> S]
  OBVIOUS
<1>2. PICK f \in [SUBSET (1..Len(s)) -> S] : IsFold(f, g, b, s, Len(s))
  <2> HIDE DEF g
  <2> QED
    BY <1>1, FoldExists
<1>3. \A I \in SUBSET (1..Len(s)) : I # {} =>
        /\ s[Max(I)] \in F /\ Less(I) \in SUBSET (1..Len(s))
        /\ g[<<f[Less(I)], s[Max(I)]>>] = SetField(f[Less(I)], s[Max(I)], to, why)
  <2> SUFFICES ASSUME NEW I \in SUBSET (1..Len(s)), I # {}
               PROVE  /\ s[Max(I)] \in F /\ Less(I) \in SUBSET (1..Len(s))
                      /\ g[<<f[Less(I)], s[Max(I)]>>] = SetField(f[Less(I)], s[Max(I)], to, why)
    OBVIOUS
  <2>1. Max(I) \in 1..Len(s)
    <3>1. Len(s) \in Nat
      OBVIOUS
    <3> QED
      BY <3>1, MaxIs
  <2>2. Less(I) \in SUBSET (1..Len(s))
    BY DEF Less
  <2>3. f[Less(I)] \in S /\ s[Max(I)] \in F
    BY <2>1, <2>2
  <2> QED
    BY <2>2, <2>3
<1>4. DOMAIN s = 1..Len(s)
  BY LenProperties
<1>5. Fold(f)
  <2> HIDE DEF g
  <2> QED
    BY <1>2, <1>3, <1>4 DEF IsFold, Less
<1>6. SetEach(b, s, to, why) = (CHOOSE h : Fold(h))[DOMAIN s]
  BY DEF SetEach, FoldLeft, MapThenFoldSet
<1>7. PICK h : h = (CHOOSE k : Fold(k)) /\ Fold(h)
  <2> HIDE DEF Fold
  <2> QED
    BY <1>5
<1>8. h[{}] = b /\ \A I \in SUBSET (1..Len(s)) : I # {} => h[I] = SetField(h[Less(I)], s[Max(I)], to, why)
  BY <1>4, <1>7 DEF Less
<1> QED
  <2> HIDE DEF Fold
  <2> QED
    BY <1>6, <1>7, <1>8

LEMMA SetFieldFold ==
  ASSUME NEW S, NEW F, NEW s \in Seq(F), NEW b \in S, NEW to, NEW why,
         \A q \in S, x \in F : SetField(q, x, to, why) \in S
  PROVE  SetEach(b, s, to, why) \in S
<1>1. PICK h :
        /\ SetEach(b, s, to, why) = h[DOMAIN s] /\ h[{}] = b
        /\ \A I \in SUBSET (1..Len(s)) : I # {} =>
             h[I] = SetField(h[Less(I)], s[Max(I)], to, why)
  BY SetFieldFoldIs
<1>2. \A I \in SUBSET (1..Len(s)) :
        I # {} /\ h[Less(I)] \in S /\ s[Max(I)] \in F => h[I] \in S
  BY <1>1
<1>3. h[DOMAIN s] \in S
  BY <1>1, <1>2, FoldStays
<1> QED
  BY <1>1, <1>3

LEMMA SendFoldIs ==
  ASSUME NEW S, NEW F, NEW s \in Seq(F), NEW b \in S, NEW e,
         \A q \in S, x \in F : SendToCandidate(q, e, x) \in S
  PROVE  \E h :
           /\ SendAll(b, e, s) = h[DOMAIN s] /\ h[{}] = b
           /\ \A I \in SUBSET (1..Len(s)) : I # {} =>
                h[I] = SendToCandidate(h[Less(I)], e, s[Max(I)])
<1> DEFINE Fold(f) == f = [I \in SUBSET DOMAIN s |->
             IF I = {} THEN b ELSE SendToCandidate(f[I \ {Max(I)}], e, s[Max(I)])]
           g == [y \in S \X F |-> SendToCandidate(y[1], e, y[2])]
<1>1. g \in [S \X F -> S]
  OBVIOUS
<1>2. PICK f \in [SUBSET (1..Len(s)) -> S] : IsFold(f, g, b, s, Len(s))
  <2> HIDE DEF g
  <2> QED
    BY <1>1, FoldExists
<1>3. \A I \in SUBSET (1..Len(s)) : I # {} =>
        /\ s[Max(I)] \in F /\ Less(I) \in SUBSET (1..Len(s))
        /\ g[<<f[Less(I)], s[Max(I)]>>] = SendToCandidate(f[Less(I)], e, s[Max(I)])
  <2> SUFFICES ASSUME NEW I \in SUBSET (1..Len(s)), I # {}
               PROVE  /\ s[Max(I)] \in F /\ Less(I) \in SUBSET (1..Len(s))
                      /\ g[<<f[Less(I)], s[Max(I)]>>] = SendToCandidate(f[Less(I)], e, s[Max(I)])
    OBVIOUS
  <2>1. Max(I) \in 1..Len(s)
    <3>1. Len(s) \in Nat
      OBVIOUS
    <3> QED
      BY <3>1, MaxIs
  <2>2. Less(I) \in SUBSET (1..Len(s))
    BY DEF Less
  <2>3. f[Less(I)] \in S /\ s[Max(I)] \in F
    BY <2>1, <2>2
  <2> QED
    BY <2>2, <2>3
<1>4. DOMAIN s = 1..Len(s)
  BY LenProperties
<1>5. Fold(f)
  <2> HIDE DEF g
  <2> QED
    BY <1>2, <1>3, <1>4 DEF IsFold, Less
<1>6. SendAll(b, e, s) = (CHOOSE h : Fold(h))[DOMAIN s]
  BY DEF SendAll, FoldLeft, MapThenFoldSet
<1>7. PICK h : h = (CHOOSE k : Fold(k)) /\ Fold(h)
  <2> HIDE DEF Fold
  <2> QED
    BY <1>5
<1>8. h[{}] = b /\ \A I \in SUBSET (1..Len(s)) : I # {} => h[I] = SendToCandidate(h[Less(I)], e, s[Max(I)])
  BY <1>4, <1>7 DEF Less
<1> QED
  <2> HIDE DEF Fold
  <2> QED
    BY <1>6, <1>7, <1>8

LEMMA SendFold ==
  ASSUME NEW S, NEW F, NEW s \in Seq(F), NEW b \in S, NEW e,
         \A q \in S, x \in F : SendToCandidate(q, e, x) \in S
  PROVE  SendAll(b, e, s) \in S
<1>1. PICK h :
        /\ SendAll(b, e, s) = h[DOMAIN s] /\ h[{}] = b
        /\ \A I \in SUBSET (1..Len(s)) : I # {} =>
             h[I] = SendToCandidate(h[Less(I)], e, s[Max(I)])
  BY SendFoldIs
<1>2. \A I \in SUBSET (1..Len(s)) :
        I # {} /\ h[Less(I)] \in S /\ s[Max(I)] \in F => h[I] \in S
  BY <1>1
<1>3. h[DOMAIN s] \in S
  BY <1>1, <1>2, FoldStays
<1> QED
  BY <1>1, <1>3

LEMMA SetDeactivatingFold ==
  ASSUME NEW S, NEW F, NEW s \in Seq(F), NEW b \in S,
         \A q \in S, x \in F : SetDeactivating(q, x, "none") \in S
  PROVE  DeactivateAll(b, s) \in S
<1> DEFINE Fold(f) == f = [I \in SUBSET DOMAIN s |->
             IF I = {} THEN b ELSE SetDeactivating(f[I \ {Max(I)}], s[Max(I)], "none")]
           g == [y \in S \X F |-> SetDeactivating(y[1], y[2], "none")]
<1>1. g \in [S \X F -> S]
  OBVIOUS
<1>2. PICK f \in [SUBSET (1..Len(s)) -> S] : IsFold(f, g, b, s, Len(s))
  <2> HIDE DEF g
  <2> QED
    BY <1>1, FoldExists
<1>3. \A I \in SUBSET (1..Len(s)) : I # {} =>
        /\ s[Max(I)] \in F /\ Less(I) \in SUBSET (1..Len(s))
        /\ g[<<f[Less(I)], s[Max(I)]>>] = SetDeactivating(f[Less(I)], s[Max(I)], "none")
  <2> SUFFICES ASSUME NEW I \in SUBSET (1..Len(s)), I # {}
               PROVE  /\ s[Max(I)] \in F /\ Less(I) \in SUBSET (1..Len(s))
                      /\ g[<<f[Less(I)], s[Max(I)]>>] = SetDeactivating(f[Less(I)], s[Max(I)], "none")
    OBVIOUS
  <2>1. Max(I) \in 1..Len(s)
    <3>1. Len(s) \in Nat
      OBVIOUS
    <3> QED
      BY <3>1, MaxIs
  <2>2. Less(I) \in SUBSET (1..Len(s))
    BY DEF Less
  <2>3. f[Less(I)] \in S /\ s[Max(I)] \in F
    BY <2>1, <2>2
  <2> QED
    BY <2>2, <2>3
<1>4. DOMAIN s = 1..Len(s)
  BY LenProperties
<1>5. Fold(f)
  <2> HIDE DEF g
  <2> QED
    BY <1>2, <1>3, <1>4 DEF IsFold, Less
<1>6. DeactivateAll(b, s) = (CHOOSE h : Fold(h))[DOMAIN s]
  BY DEF DeactivateAll, FoldLeft, MapThenFoldSet
<1>7. PICK h : h = (CHOOSE k : Fold(k)) /\ Fold(h)
  <2> HIDE DEF Fold
  <2> QED
    BY <1>5
<1>8. h[{}] = b /\ \A I \in SUBSET (1..Len(s)) : I # {} => h[I] = SetDeactivating(h[Less(I)], s[Max(I)], "none")
  BY <1>4, <1>7 DEF Less
<1>9. h[DOMAIN s] \in S
  <2>1. \A I \in SUBSET (1..Len(s)) :
          I # {} /\ h[Less(I)] \in S /\ s[Max(I)] \in F => h[I] \in S
    BY <1>8
  <2> HIDE DEF Fold, g
  <2> QED
    BY <1>8, <2>1, FoldStays
<1> QED
  <2> HIDE DEF Fold
  <2> QED
    BY <1>6, <1>7, <1>9

LEMMA RenderFold ==
  ASSUME NEW S, NEW F, NEW s \in Seq(F), NEW b \in S,
         \A q \in S, x \in F : RenderField(q, x) \in S
  PROVE  RenderAll(b, s) \in S
<1> DEFINE Fold(f) == f = [I \in SUBSET DOMAIN s |->
             IF I = {} THEN b ELSE RenderField(f[I \ {Max(I)}], s[Max(I)])]
           g == [y \in S \X F |-> RenderField(y[1], y[2])]
<1>1. g \in [S \X F -> S]
  OBVIOUS
<1>2. PICK f \in [SUBSET (1..Len(s)) -> S] : IsFold(f, g, b, s, Len(s))
  <2> HIDE DEF g
  <2> QED
    BY <1>1, FoldExists
<1>3. \A I \in SUBSET (1..Len(s)) : I # {} =>
        /\ s[Max(I)] \in F /\ Less(I) \in SUBSET (1..Len(s))
        /\ g[<<f[Less(I)], s[Max(I)]>>] = RenderField(f[Less(I)], s[Max(I)])
  <2> SUFFICES ASSUME NEW I \in SUBSET (1..Len(s)), I # {}
               PROVE  /\ s[Max(I)] \in F /\ Less(I) \in SUBSET (1..Len(s))
                      /\ g[<<f[Less(I)], s[Max(I)]>>] = RenderField(f[Less(I)], s[Max(I)])
    OBVIOUS
  <2>1. Max(I) \in 1..Len(s)
    <3>1. Len(s) \in Nat
      OBVIOUS
    <3> QED
      BY <3>1, MaxIs
  <2>2. Less(I) \in SUBSET (1..Len(s))
    BY DEF Less
  <2>3. f[Less(I)] \in S /\ s[Max(I)] \in F
    BY <2>1, <2>2
  <2> QED
    BY <2>2, <2>3
<1>4. DOMAIN s = 1..Len(s)
  BY LenProperties
<1>5. Fold(f)
  <2> HIDE DEF g
  <2> QED
    BY <1>2, <1>3, <1>4 DEF IsFold, Less
<1>6. RenderAll(b, s) = (CHOOSE h : Fold(h))[DOMAIN s]
  BY DEF RenderAll, FoldLeft, MapThenFoldSet
<1>7. PICK h : h = (CHOOSE k : Fold(k)) /\ Fold(h)
  <2> HIDE DEF Fold
  <2> QED
    BY <1>5
<1>8. h[{}] = b /\ \A I \in SUBSET (1..Len(s)) : I # {} => h[I] = RenderField(h[Less(I)], s[Max(I)])
  BY <1>4, <1>7 DEF Less
<1>9. h[DOMAIN s] \in S
  <2>1. \A I \in SUBSET (1..Len(s)) :
          I # {} /\ h[Less(I)] \in S /\ s[Max(I)] \in F => h[I] \in S
    BY <1>8
  <2> HIDE DEF Fold, g
  <2> QED
    BY <1>8, <2>1, FoldStays
<1> QED
  <2> HIDE DEF Fold
  <2> QED
    BY <1>6, <1>7, <1>9

LEMMA KeepIs ==
  ASSUME NEW A, NEW s \in Seq(A), NEW T
  PROVE  Keep(s, T) \in Seq(A \cap T)
<1>1. PICK S : S = Seq(A \cap T)
  OBVIOUS
<1>2. <<>> \in S /\ \A q \in S, x \in A : (IF x \in T THEN Append(q, x) ELSE q) \in S
  BY <1>1
<1>3. Keep(s, T) \in S
  BY <1>2, KeepFold
<1> QED
  BY <1>1, <1>3

-----------------------------------------------------------------------------
(* Folds, element by element.                                              *)

LEMMA FoldReaches ==
  ASSUME NEW F, NEW s \in Seq(F), NEW b, NEW h, h[{}] = b, NEW V, <<0, b>> \in V,
         \A k \in 1..Len(s) : <<k - 1, h[1..(k - 1)]>> \in V => <<k, h[1..k]>> \in V
  PROVE  <<Len(s), h[DOMAIN s]>> \in V
<1> DEFINE X == {n \in Nat : n <= Len(s) => <<n, h[1..n]>> \in V}
<1>1. Len(s) \in Nat /\ DOMAIN s = 1..Len(s)
  BY LenProperties
<1>2. 0 \in X
  <2>1. 1..0 = {}
    OBVIOUS
  <2> QED
    BY <2>1
<1>3. ASSUME NEW n \in Nat, n \in X PROVE n + 1 \in X
  <2>1. n + 1 <= Len(s) => n + 1 \in 1..Len(s) /\ (n + 1) - 1 = n
    BY <1>1
  <2> QED
    BY <1>1, <1>3, <2>1
<1>4. Len(s) \in X
  <2> HIDE DEF X
  <2> QED
    BY <1>1, <1>2, <1>3, NaturalInduction
<1> QED
  BY <1>1, <1>4

LEMMA LastOf ==
  ASSUME NEW n \in Nat, NEW k \in 1..n
  PROVE  /\ 1..k \in SUBSET (1..n) /\ 1..k # {}
         /\ Max(1..k) = k /\ Less(1..k) = 1..(k - 1)
<1>1. 1..k \in SUBSET (1..n) /\ k \in 1..k
  OBVIOUS
<1>2. Max(1..k) \in 1..k /\ \A j \in 1..k : j <= Max(1..k)
  BY <1>1, MaxIs
<1>3. PICK m : m = Max(1..k)
  OBVIOUS
<1>4. m = k
  BY <1>1, <1>2, <1>3
<1> QED
  BY <1>1, <1>3, <1>4 DEF Less

LEMMA SetFieldReaches ==
  ASSUME NEW S, NEW F, NEW s \in Seq(F), NEW b \in S, NEW to, NEW why,
         \A q \in S, x \in F : SetField(q, x, to, why) \in S,
         NEW V, <<0, b>> \in V,
         \A k \in 1..Len(s), q \in S :
           <<k - 1, q>> \in V => <<k, SetField(q, s[k], to, why)>> \in V
  PROVE  <<Len(s), SetEach(b, s, to, why)>> \in V
<1>1. PICK h :
        /\ SetEach(b, s, to, why) = h[DOMAIN s] /\ h[{}] = b
        /\ \A I \in SUBSET (1..Len(s)) : I # {} =>
             h[I] = SetField(h[Less(I)], s[Max(I)], to, why)
  BY SetFieldFoldIs
<1> DEFINE W == {v \in V : v[2] \in S}
<1>2. ASSUME NEW k \in 1..Len(s), <<k - 1, h[1..(k - 1)]>> \in W
      PROVE  <<k, h[1..k]>> \in W
  <2>1. h[1..k] = SetField(h[1..(k - 1)], s[k], to, why)
    <3>1. Len(s) \in Nat
      OBVIOUS
    <3>2. /\ 1..k \in SUBSET (1..Len(s)) /\ 1..k # {}
          /\ Max(1..k) = k /\ Less(1..k) = 1..(k - 1)
      BY <3>1, LastOf
    <3> QED
      BY <1>1, <3>2
  <2>2. s[k] \in F
    OBVIOUS
  <2> QED
    BY <1>2, <2>1, <2>2
<1>3. <<0, b>> \in W
  OBVIOUS
<1>4. <<Len(s), h[DOMAIN s]>> \in W
  <2> HIDE DEF W
  <2> QED
    BY <1>1, <1>2, <1>3, FoldReaches
<1> QED
  BY <1>1, <1>4

LEMMA SendReaches ==
  ASSUME NEW S, NEW F, NEW s \in Seq(F), NEW b \in S, NEW e,
         \A q \in S, x \in F : SendToCandidate(q, e, x) \in S,
         NEW V, <<0, b>> \in V,
         \A k \in 1..Len(s), q \in S :
           <<k - 1, q>> \in V => <<k, SendToCandidate(q, e, s[k])>> \in V
  PROVE  <<Len(s), SendAll(b, e, s)>> \in V
<1>1. PICK h :
        /\ SendAll(b, e, s) = h[DOMAIN s] /\ h[{}] = b
        /\ \A I \in SUBSET (1..Len(s)) : I # {} =>
             h[I] = SendToCandidate(h[Less(I)], e, s[Max(I)])
  BY SendFoldIs
<1> DEFINE W == {v \in V : v[2] \in S}
<1>2. ASSUME NEW k \in 1..Len(s), <<k - 1, h[1..(k - 1)]>> \in W
      PROVE  <<k, h[1..k]>> \in W
  <2>1. h[1..k] = SendToCandidate(h[1..(k - 1)], e, s[k])
    <3>1. Len(s) \in Nat
      OBVIOUS
    <3>2. /\ 1..k \in SUBSET (1..Len(s)) /\ 1..k # {}
          /\ Max(1..k) = k /\ Less(1..k) = 1..(k - 1)
      BY <3>1, LastOf
    <3> QED
      BY <1>1, <3>2
  <2>2. s[k] \in F
    OBVIOUS
  <2> QED
    BY <1>2, <2>1, <2>2
<1>3. <<0, b>> \in W
  OBVIOUS
<1>4. <<Len(s), h[DOMAIN s]>> \in W
  <2> HIDE DEF W
  <2> QED
    BY <1>1, <1>2, <1>3, FoldReaches
<1> QED
  BY <1>1, <1>4

LEMMA TeardownReaches ==
  ASSUME NEW S, NEW F, NEW s \in Seq(F), NEW b \in S,
         \A q \in S, x \in F : TeardownEditor(q, x) \in S,
         NEW V, <<0, b>> \in V,
         \A k \in 1..Len(s), q \in S :
           <<k - 1, q>> \in V => <<k, TeardownEditor(q, s[k])>> \in V
  PROVE  <<Len(s), TeardownAll(b, s)>> \in V
<1>1. PICK h :
        /\ TeardownAll(b, s) = h[DOMAIN s] /\ h[{}] = b
        /\ \A I \in SUBSET (1..Len(s)) : I # {} =>
             h[I] = TeardownEditor(h[Less(I)], s[Max(I)])
  BY TeardownFoldIs
<1> DEFINE W == {v \in V : v[2] \in S}
<1>2. ASSUME NEW k \in 1..Len(s), <<k - 1, h[1..(k - 1)]>> \in W
      PROVE  <<k, h[1..k]>> \in W
  <2>1. h[1..k] = TeardownEditor(h[1..(k - 1)], s[k])
    <3>1. Len(s) \in Nat
      OBVIOUS
    <3>2. /\ 1..k \in SUBSET (1..Len(s)) /\ 1..k # {}
          /\ Max(1..k) = k /\ Less(1..k) = 1..(k - 1)
      BY <3>1, LastOf
    <3> QED
      BY <1>1, <3>2
  <2>2. s[k] \in F
    OBVIOUS
  <2> QED
    BY <1>2, <2>1, <2>2
<1>3. <<0, b>> \in W
  OBVIOUS
<1>4. <<Len(s), h[DOMAIN s]>> \in W
  <2> HIDE DEF W
  <2> QED
    BY <1>1, <1>2, <1>3, FoldReaches
<1> QED
  BY <1>1, <1>4

LEMMA KeepSteps ==
  ASSUME NEW F, NEW s \in Seq(F), NEW T
  PROVE  \E h :
           /\ Keep(s, T) = h[DOMAIN s] /\ h[{}] = <<>>
           /\ \A I \in SUBSET (1..Len(s)) : I # {} =>
                h[I] = (IF s[Max(I)] \in T THEN Append(h[Less(I)], s[Max(I)]) ELSE h[Less(I)])
<1>1. PICK S : S = Seq(F)
  OBVIOUS
<1>2. <<>> \in S /\ \A q \in S, x \in F : (IF x \in T THEN Append(q, x) ELSE q) \in S
  BY <1>1
<1>3. ASSUME NEW b \in S, b = <<>>
      PROVE  \E h :
        /\ Keep(s, T) = h[DOMAIN s] /\ h[{}] = b
        /\ \A I \in SUBSET (1..Len(s)) : I # {} =>
             h[I] = (IF s[Max(I)] \in T THEN Append(h[Less(I)], s[Max(I)]) ELSE h[Less(I)])
  <2>1. \A q \in S, x \in F : (IF x \in T THEN Append(q, x) ELSE q) \in S
    BY <1>2
  <2> QED
    BY <1>3, <2>1, KeepFoldIs
<1> QED
  BY <1>2, <1>3

(* Nothing is dropped from a sequence whose elements are all kept.         *)
LEMMA KeepAll ==
  ASSUME NEW F, NEW s \in Seq(F), NEW T, \A i \in 1..Len(s) : s[i] \in T
  PROVE  Keep(s, T) = s
<1>1. PICK h :
        /\ Keep(s, T) = h[DOMAIN s] /\ h[{}] = <<>>
        /\ \A I \in SUBSET (1..Len(s)) : I # {} =>
             h[I] = (IF s[Max(I)] \in T THEN Append(h[Less(I)], s[Max(I)]) ELSE h[Less(I)])
  BY KeepSteps
<1> DEFINE V == {<<k, SubSeq(s, 1, k)>> : k \in 0..Len(s)}
<1>2. Len(s) \in Nat /\ SubSeq(s, 1, 0) = <<>>
  OBVIOUS
<1>3. ASSUME NEW k \in 1..Len(s), <<k - 1, h[1..(k - 1)]>> \in V
      PROVE  <<k, h[1..k]>> \in V
  <2>1. /\ 1..k \in SUBSET (1..Len(s)) /\ 1..k # {}
        /\ Max(1..k) = k /\ Less(1..k) = 1..(k - 1)
    BY <1>2, LastOf
  <2>2. h[1..k] = Append(h[1..(k - 1)], s[k])
    BY <1>1, <2>1
  <2>3. h[1..(k - 1)] = SubSeq(s, 1, k - 1)
    BY <1>3
  <2>4. Append(SubSeq(s, 1, k - 1), s[k]) = SubSeq(s, 1, k)
    OBVIOUS
  <2> QED
    BY <2>2, <2>3, <2>4
<1>4. <<0, h[{}]>> \in V
  BY <1>1, <1>2
<1>5. <<Len(s), h[DOMAIN s]>> \in V
  <2> HIDE DEF V
  <2> QED
    BY <1>3, <1>4, FoldReaches
<1>6. h[DOMAIN s] = SubSeq(s, 1, Len(s))
  BY <1>2, <1>5
<1>7. SubSeq(s, 1, Len(s)) = s
  OBVIOUS
<1> QED
  BY <1>1, <1>6, <1>7

-----------------------------------------------------------------------------
(* Pages.                                                                  *)

EntityState == {"closed", "launching", "opening", "opened", "committing",
                "deactivating", "closing"}

FieldState == {"inactive", "candidate", "highlighted", "activating",
               "active", "changed", "saving", "saved", "invalid"}

LEMMA StatesAre == ToSet(EntityStates) = EntityState /\ ToSet(FieldStates) = FieldState
<1>1. ToSet(EntityStates) = EntityState
  BY DEF ToSet, EntityStates, EntityState
<1>2. ToSet(FieldStates) = FieldState
  BY DEF ToSet, FieldStates, FieldState
<1> QED
  BY <1>1, <1>2

(* What an entity is taken to by a deferred callback, and the states its   *)
(* fields must be in.                                                      *)
Ways == {<<"opening", {}>>, <<"opened", Ready>>, <<"closing", Ready>>, <<"closed", {"inactive"}>>}

EntityTasks ==
  {t \in [do : {"entity"}, e : Entity, to : EntityState, ready : SUBSET FieldState] :
     <<t.to, t.ready>> \in Ways}

Tasks == [do : {"field"}, f : Field, to : {"active"}]
           \union EntityTasks
           \union [do : {"invalid", "confirm"}, x : Entity]
           \union [do : {"html", "rerender", "replace"}, x : Field]

Queues == Seq(Tasks)

Kinds == {"load", "submit", "backstage", "text", "entity"}

Requests == [kind : Kinds, x : Field \union Entity, reset : BOOLEAN,
             of : {"current", "removed", "destroyed"}, n : Nat]

Page ==
  [entity : [Entity -> EntityState], isActive : SUBSET Entity, isDirty : SUBSET Entity,
   isCommitting : SUBSET Entity, inTempStore : SUBSET Entity, reload : SUBSET Entity,
   reloadPage : BOOLEAN, sharedKept : SUBSET Field, owns : SUBSET Entity,
   kept : [Entity -> SUBSET Field],
   field : [Field -> FieldState], editor : SUBSET Field,
   form : [Field -> {"none", "loading", "loaded"}], typed : SUBSET Field,
   highlightedField : Field \union {NoField, Destroyed},
   activeField : Field \union {NoField, Destroyed}, modal : Entity \union {NoEntity},
   deferred : Queues, requests : SUBSET Requests, thrown : SUBSET {"destroy", "no form"}]

(* A request that will end in a value of the field on the server, or in    *)
(* the entity being saved.                                                 *)
Saves(r)      == r.kind \in {"submit", "backstage"} /\ r.of # "destroyed"
SaveOf(r, e)  == r.kind = "entity" /\ r.x = e

Unsaved == {"changed", "saving", "invalid"}

(* No field has instances in other view modes.                             *)
OneMode == \A f \in Field : OtherModes[f] = <<>>

(* A form is on the page only for an editor of forms, and it is on the     *)
(* page as long as its field has a value that is not saved.                *)
FormsKept(p) == \A f \in Field : p.form[f] # "none" => f \in p.editor /\ EditorOf[f] = "form"
FormsThere(p) ==
  \A f \in Field : EditorOf[f] = "form" /\ p.field[f] \in Unsaved => p.form[f] # "none"

RequestsOK(p) ==
  /\ IsFiniteSet(p.requests)
  /\ \A r \in p.requests : /\ r.kind = "entity" => r.x \in Entity
                           /\ r.kind # "entity" => r.x \in Field
                           /\ r.kind = "load" /\ r.of = "current" => p.form[r.x] # "none"

(* A field waits for one answer to its save, and in no other state than    *)
(* saving; but for those in X, which are about to be destroyed.            *)
SavesOK(p, X) ==
  /\ \A r \in p.requests : Saves(r) /\ r.x \notin X => p.field[r.x] = "saving"
  /\ \A r, s \in p.requests : Saves(r) /\ Saves(s) /\ r.x = s.x => r = s

CommitsOK(p) ==
  /\ \A e \in p.isCommitting : \E r \in p.requests : SaveOf(r, e)
  /\ \A r \in p.requests : r.kind = "entity" => r.x \in p.isCommitting
  /\ \A r, s \in p.requests : r.kind = "entity" /\ s.kind = "entity" /\ r.x = s.x => r = s

(* What may go wrong on the page.                                          *)
Calm(p) == "no form" \notin p.thrown /\ (OneMode => p.thrown = {})

Good(X) == {p \in Page : /\ FormsKept(p) /\ FormsThere(p) /\ RequestsOK(p)
                         /\ SavesOK(p, X) /\ CommitsOK(p) /\ Calm(p)}

Fine == Good({})

(* Nothing is on its way that saves f.                                     *)
Settled(p, f) == \A r \in p.requests : Saves(r) => r.x # f

(* What most operators leave alone.                                        *)
Shown(p, q) ==
  q.field = p.field /\ q.form = p.form /\ q.editor = p.editor /\ q.thrown = p.thrown

Same(p, q) == Shown(p, q) /\ q.requests = p.requests /\ q.isCommitting = p.isCommitting

LEMMA SameGood ==
  ASSUME NEW X, NEW p \in Good(X), NEW q \in Page, Same(p, q)
  PROVE  q \in Good(X)
<1>1. /\ p.field = q.field /\ p.form = q.form /\ p.editor = q.editor /\ p.thrown = q.thrown
      /\ p.requests = q.requests /\ p.isCommitting = q.isCommitting
  BY DEF Same, Shown
<1>2. /\ FormsKept(p) /\ FormsThere(p) /\ RequestsOK(p) /\ SavesOK(p, X) /\ CommitsOK(p)
      /\ Calm(p)
  BY DEF Good
<1>3. FormsKept(q) /\ FormsThere(q)
  BY <1>1, <1>2 DEF FormsKept, FormsThere
<1>4. RequestsOK(q) /\ SavesOK(q, X)
  BY <1>1, <1>2 DEF RequestsOK, SavesOK
<1>5. CommitsOK(q)
  BY <1>1, <1>2 DEF CommitsOK
<1> QED
  BY <1>1, <1>2, <1>3, <1>4, <1>5 DEF Good, Calm

-----------------------------------------------------------------------------
(* Requests.                                                               *)

(* There is a number that no request of a finite set has.                  *)
LEMMA FreeNumber ==
  ASSUME NEW R, IsFiniteSet(R), R \subseteq Requests
  PROVE  \E i \in 1..(Cardinality(R) + 1) : \A r \in R : r.n # i
<1> DEFINE m == Cardinality(R)
           f == [r \in R |-> r.n]
           N == {f[r] : r \in R}
<1>1. m \in Nat
  BY FS_CardinalityType
<1>2. IsFiniteSet(N) /\ Cardinality(N) \in Nat /\ Cardinality(N) <= m
  <2>1. f \in Surjection(R, N)
    BY DEF Surjection
  <2> QED
    BY <2>1, FS_Surjection, FS_CardinalityType
<1>3. IsFiniteSet(1..(m + 1)) /\ Cardinality(1..(m + 1)) = m + 1
  BY <1>1, FS_Interval
<1>4. ~ (1..(m + 1) \subseteq N)
  <2> SUFFICES ASSUME 1..(m + 1) \subseteq N PROVE FALSE
    OBVIOUS
  <2> HIDE DEF N, m
  <2>1. Cardinality(1..(m + 1)) <= Cardinality(N)
    BY <1>2, FS_Subset
  <2> QED
    BY <1>1, <1>2, <1>3, <2>1
<1>5. PICK i \in 1..(m + 1) : i \notin N
  BY <1>4
<1> QED
  BY <1>5

(* A request is added, with a number of its own.                           *)
LEMMA SendIs ==
  ASSUME NEW p \in Page, IsFiniteSet(p.requests), NEW kind \in Kinds,
         NEW x \in Field \union Entity, NEW reset \in BOOLEAN
  PROVE  \E r \in Requests :
           /\ r.kind = kind /\ r.x = x /\ r.of = "current"
           /\ Send(p, kind, x, reset) = [p EXCEPT !.requests = @ \union {r}]
<1> DEFINE same == {r \in p.requests : r.kind = kind /\ r.x = x}
           n == CHOOSE i \in 1..(Cardinality(same) + 1) : \A r \in same : r.n # i
           r == [kind |-> kind, x |-> x, reset |-> reset, of |-> "current", n |-> n]
<1>1. IsFiniteSet(same) /\ same \subseteq Requests /\ Cardinality(same) \in Nat
  BY FS_Subset, FS_CardinalityType DEF Page
<1>2. \E i \in 1..(Cardinality(same) + 1) : \A q \in same : q.n # i
  <2> HIDE DEF same
  <2> QED
    BY <1>1, FreeNumber
<1>3. n \in 1..(Cardinality(same) + 1)
  <2> HIDE DEF same
  <2> QED
    BY <1>2
<1>4. n \in Nat
  <2> HIDE DEF same, n
  <2> QED
    BY <1>1, <1>3
<1>5. r \in Requests
  <2> HIDE DEF n
  <2> QED
    BY <1>4 DEF Requests
<1>6. Send(p, kind, x, reset) = [p EXCEPT !.requests = @ \union {r}]
  BY DEF Send
<1> QED
  <2> HIDE DEF n
  <2> QED
    BY <1>5, <1>6

(* With a request more: one that saves f comes when f is saving and        *)
(* settled, a form is loaded into its place.                               *)
MayAdd(p, X, r) ==
  /\ r.kind # "entity" /\ r.x \in Field /\ r.of = "current"
  /\ r.kind = "load" => p.form[r.x] # "none"
  /\ Saves(r) => p.field[r.x] = "saving" /\ Settled(p, r.x)

LEMMA AddGood ==
  ASSUME NEW X, NEW p \in Good(X), NEW r \in Requests, MayAdd(p, X, r)
  PROVE  [p EXCEPT !.requests = @ \union {r}] \in Good(X)
<1> DEFINE q == [p EXCEPT !.requests = @ \union {r}]
<1>1. p \in Page /\ p.requests \subseteq Requests
  BY DEF Good, Page
<1>2. q \in Page /\ Shown(p, q) /\ q.isCommitting = p.isCommitting
      /\ q.requests = p.requests \union {r}
  BY <1>1, ZenonT(60) DEF Page, Shown
<1> HIDE DEF q
<1>3. RequestsOK(q)
  <2>1. IsFiniteSet(q.requests)
    <3>1. IsFiniteSet(p.requests)
      BY DEF Good, RequestsOK
    <3> QED
      BY <1>2, <3>1, FS_AddElement
  <2>2. RequestsOK(p) /\ p.form = q.form
    BY <1>2 DEF Good, Shown
  <2> QED
    BY <1>2, <2>1, <2>2 DEF RequestsOK, MayAdd
<1>4. SavesOK(q, X)
  BY <1>2 DEF Good, SavesOK, Shown, MayAdd, Settled
<1>5. CommitsOK(q)
  BY <1>2 DEF Good, CommitsOK, MayAdd
<1>6. FormsKept(q) /\ FormsThere(q) /\ Calm(q)
  BY <1>2 DEF Calm, Good, FormsKept, FormsThere, Shown
<1> QED
  BY <1>2, <1>3, <1>4, <1>5, <1>6 DEF Good, q

LEMMA SendGood ==
  ASSUME NEW X, NEW p \in Good(X), NEW kind \in Kinds \ {"entity"}, NEW x \in Field,
         NEW reset \in BOOLEAN,
         kind = "load" => p.form[x] # "none",
         kind \in {"submit", "backstage"} => p.field[x] = "saving" /\ Settled(p, x)
  PROVE  Send(p, kind, x, reset) \in Good(X) /\ Shown(p, Send(p, kind, x, reset))
<1>1. p \in Page /\ IsFiniteSet(p.requests)
  BY DEF Good, RequestsOK
<1>2. PICK r \in Requests :
        /\ r.kind = kind /\ r.x = x /\ r.of = "current"
        /\ Send(p, kind, x, reset) = [p EXCEPT !.requests = @ \union {r}]
  BY <1>1, SendIs
<1>3. MayAdd(p, X, r)
  BY <1>2 DEF MayAdd, Saves
<1>4. Shown(p, [p EXCEPT !.requests = @ \union {r}])
  BY <1>1 DEF Page, Shown
<1> QED
  BY <1>2, <1>3, <1>4, AddGood

(* The image of a finite set.                                              *)
LEMMA ImageFinite ==
  ASSUME NEW R, IsFiniteSet(R), NEW g
  PROVE  IsFiniteSet({g[r] : r \in R})
<1> DEFINE f == [r \in R |-> g[r]]
<1>1. f \in Surjection(R, {g[r] : r \in R})
  BY DEF Surjection
<1> QED
  BY <1>1, FS_Surjection

(* What becomes of requests when a form or a model goes away.              *)
Relabels(R, g) ==
  \A r \in R : g[r] \in Requests /\ g[r].kind = r.kind /\ g[r].x = r.x
               /\ (Saves(g[r]) => Saves(r))

Relabelled(p, q, g, Y) ==
  /\ Relabels(p.requests, g)
  /\ q.requests = {g[r] : r \in p.requests} /\ q.isCommitting = p.isCommitting
  /\ \A r \in p.requests : g[r].kind = "load" /\ g[r].of = "current" => q.form[r.x] # "none"
  /\ \A r \in p.requests : Saves(g[r]) /\ r.x \notin Y => q.field[r.x] = "saving"

LEMMA RelabelGood ==
  ASSUME NEW X, NEW p \in Good(X), NEW g, NEW q \in Page, NEW Y, Relabelled(p, q, g, Y)
  PROVE  RequestsOK(q) /\ SavesOK(q, Y) /\ CommitsOK(q)
<1>1. RequestsOK(p) /\ SavesOK(p, X) /\ CommitsOK(p) /\ p \in Page
  BY DEF Good
<1> USE DEF Relabelled
<1>2. \A r \in p.requests : g[r].kind = r.kind /\ g[r].x = r.x /\ (Saves(g[r]) => Saves(r))
  BY DEF Relabels
<1>3. \A t \in q.requests : \E r \in p.requests : t = g[r]
  OBVIOUS
<1>4. \A r \in p.requests : g[r] \in q.requests
  OBVIOUS
<1>5. IsFiniteSet(q.requests)
  BY <1>1, ImageFinite DEF RequestsOK
<1>6. RequestsOK(q)
  BY <1>1, <1>2, <1>3, <1>5 DEF RequestsOK
<1>7. SavesOK(q, Y)
  <2>1. \A t \in q.requests : Saves(t) /\ t.x \notin Y => q.field[t.x] = "saving"
    BY <1>2, <1>3
  <2>2. \A t, u \in q.requests : Saves(t) /\ Saves(u) /\ t.x = u.x => t = u
    BY <1>1, <1>2, <1>3 DEF SavesOK
  <2> QED
    BY <2>1, <2>2 DEF SavesOK
<1>8. CommitsOK(q)
  <2>1. \A e \in q.isCommitting : \E r \in q.requests : SaveOf(r, e)
    BY <1>1, <1>2, <1>4 DEF CommitsOK, SaveOf
  <2>2. \A t \in q.requests : t.kind = "entity" => t.x \in q.isCommitting
    BY <1>1, <1>2, <1>3 DEF CommitsOK
  <2>3. \A t, u \in q.requests : t.kind = "entity" /\ u.kind = "entity" /\ t.x = u.x => t = u
    BY <1>1, <1>2, <1>3 DEF CommitsOK
  <2> QED
    BY <2>1, <2>2, <2>3 DEF CommitsOK
<1> QED
  BY <1>6, <1>7, <1>8

(* An answer takes its request away.                                       *)
LEMMA AnswerGood ==
  ASSUME NEW X, NEW p \in Good(X), NEW r \in p.requests, r.kind # "entity",
         NEW q, q = [p EXCEPT !.requests = @ \ {r}]
  PROVE  q \in Good(X) /\ Shown(p, q) /\ (Saves(r) => Settled(q, r.x))
<1>1. /\ p \in Page /\ RequestsOK(p) /\ SavesOK(p, X) /\ CommitsOK(p) /\ FormsKept(p)
      /\ FormsThere(p) /\ Calm(p)
  BY DEF Good
<1>2. q \in Page /\ Shown(p, q) /\ q.isCommitting = p.isCommitting
      /\ q.requests = p.requests \ {r}
  BY <1>1 DEF Page, Shown
<1>3. RequestsOK(q)
  <2>1. IsFiniteSet(q.requests)
    <3>1. IsFiniteSet(p.requests)
      BY <1>1 DEF RequestsOK
    <3> QED
      BY <1>2, <3>1, FS_RemoveElement
  <2> QED
    BY <1>1, <1>2, <2>1 DEF RequestsOK, Shown
<1>4. SavesOK(q, X) /\ (Saves(r) => Settled(q, r.x))
  BY <1>1, <1>2 DEF SavesOK, Shown, Settled
<1>5. CommitsOK(q)
  BY <1>1, <1>2 DEF CommitsOK, SaveOf
<1>6. FormsKept(q) /\ FormsThere(q) /\ Calm(q)
  BY <1>1, <1>2 DEF Calm, FormsKept, FormsThere, Shown
<1> QED
  BY <1>2, <1>3, <1>4, <1>5, <1>6 DEF Good

(* The answer to the save of an entity also opens the mutex.               *)
LEMMA CommittedGood ==
  ASSUME NEW X, NEW p \in Good(X), NEW r \in p.requests, r.kind = "entity",
         NEW q \in Page, Shown(p, q), q.requests = p.requests \ {r},
         q.isCommitting = p.isCommitting \ {r.x}
  PROVE  q \in Good(X)
<1>1. /\ p \in Page /\ RequestsOK(p) /\ SavesOK(p, X) /\ CommitsOK(p) /\ FormsKept(p)
      /\ FormsThere(p) /\ Calm(p)
  BY DEF Good
<1>2. RequestsOK(q)
  <2>1. IsFiniteSet(q.requests)
    <3>1. IsFiniteSet(p.requests)
      BY <1>1 DEF RequestsOK
    <3> QED
      BY <3>1, FS_RemoveElement
  <2> QED
    BY <1>1, <2>1 DEF RequestsOK, Shown
<1>3. SavesOK(q, X)
  BY <1>1 DEF SavesOK, Shown
<1>4. CommitsOK(q)
  BY <1>1 DEF CommitsOK, SaveOf
<1>5. FormsKept(q) /\ FormsThere(q) /\ Calm(q)
  BY <1>1 DEF Calm, FormsKept, FormsThere, Shown
<1> QED
  BY <1>2, <1>3, <1>4, <1>5 DEF Good

-----------------------------------------------------------------------------
(* Deferred callbacks and entities.                                        *)

LEMMA EntityOfIs ==
  ASSUME NEW f \in Field
  PROVE  EntityOf(f) \in Entity
BY DEF Field, EntityOf

LEMMA DeferGood ==
  ASSUME NEW X, NEW p \in Good(X), NEW t \in Tasks
  PROVE  Defer(p, t) \in Good(X) /\ Same(p, Defer(p, t))
<1>1. p \in Page
  BY DEF Good
<1>2. PICK d \in Queues : d = Append(p.deferred, t)
  <2>1. p.deferred \in Queues
    BY <1>1 DEF Page
  <2> QED
    BY <2>1, AppendProperties DEF Queues
<1>3. Defer(p, t) = [p EXCEPT !.deferred = d]
  BY <1>2 DEF Defer
<1>4. [p EXCEPT !.deferred = d] \in Page /\ Same(p, [p EXCEPT !.deferred = d])
  BY <1>1 DEF Page, Same, Shown
<1> QED
  BY <1>3, <1>4, SameGood

LEMMA TaskIs ==
  /\ \A f \in Field : FieldTask(f, "active") \in Tasks
  /\ \A e \in Entity : /\ EntityTask(e, "opening", {}) \in Tasks
                       /\ EntityTask(e, "opened", Ready) \in Tasks
                       /\ EntityTask(e, "closing", Ready) \in Tasks
                       /\ EntityTask(e, "closed", {"inactive"}) \in Tasks
                       /\ Task("invalid", e) \in Tasks /\ Task("confirm", e) \in Tasks
  /\ \A f \in Field : /\ Task("html", f) \in Tasks /\ Task("rerender", f) \in Tasks
                      /\ Task("replace", f) \in Tasks
<1>1. \A f \in Field : FieldTask(f, "active") \in Tasks
  BY DEF Tasks, FieldTask
<1>2. ASSUME NEW e \in Entity, NEW to \in EntityState, NEW ready \in SUBSET FieldState,
             <<to, ready>> \in Ways
      PROVE  EntityTask(e, to, ready) \in Tasks
  BY <1>2 DEF EntityTask, EntityTasks, Tasks
<1>3. /\ <<"opening", {}>> \in Ways /\ <<"opened", Ready>> \in Ways
      /\ <<"closing", Ready>> \in Ways /\ <<"closed", {"inactive"}>> \in Ways
  BY DEF Ways
<1>4. /\ {} \in SUBSET FieldState /\ Ready \in SUBSET FieldState /\ {"inactive"} \in SUBSET FieldState
      /\ {"opening", "opened", "closing", "closed"} \subseteq EntityState
  BY DEF Ready, FieldState, EntityState
<1>5. ASSUME NEW e \in Entity
      PROVE  /\ EntityTask(e, "opening", {}) \in Tasks /\ EntityTask(e, "opened", Ready) \in Tasks
             /\ EntityTask(e, "closing", Ready) \in Tasks
             /\ EntityTask(e, "closed", {"inactive"}) \in Tasks
  BY <1>2, <1>3, <1>4
<1>6. \A e \in Entity : Task("invalid", e) \in Tasks /\ Task("confirm", e) \in Tasks
  BY DEF Tasks, Task
<1>7. \A f \in Field : Task("html", f) \in Tasks /\ Task("rerender", f) \in Tasks
                       /\ Task("replace", f) \in Tasks
  BY DEF Tasks, Task
<1> QED
  BY <1>1, <1>5, <1>6, <1>7

LEMMA KeptIs ==
  ASSUME NEW p \in Page, NEW e \in Entity
  PROVE  Kept(p, e) \in SUBSET Field
BY DEF Kept, Page

LEMMA UpdateGood ==
  ASSUME NEW X, NEW p \in Good(X), NEW e \in Entity, NEW f \in Field
  PROVE  /\ UpdateInTempStoreAttributes(p, e, f) \in Good(X)
         /\ Same(p, UpdateInTempStoreAttributes(p, e, f))
<1> DEFINE pushed == IF e \in p.owns THEN [p EXCEPT !.kept[e] = @ \union {f}]
                     ELSE [p EXCEPT !.sharedKept = @ \union {f}]
           q == UpdateInTempStoreAttributes(p, e, f)
<1>1. p \in Page
  BY DEF Good
<1>2. pushed \in Page /\ Same(p, pushed)
  <2>1. [p.kept EXCEPT ![e] = @ \union {f}] \in [Entity -> SUBSET Field]
    BY <1>1 DEF Page
  <2>2. PICK k \in [Entity -> SUBSET Field] : k = [p.kept EXCEPT ![e] = @ \union {f}]
    BY <2>1
  <2>3. [p EXCEPT !.kept = k] \in Page /\ Same(p, [p EXCEPT !.kept = k])
    BY <1>1 DEF Page, Same, Shown
  <2>4. /\ [p EXCEPT !.sharedKept = @ \union {f}] \in Page
        /\ Same(p, [p EXCEPT !.sharedKept = @ \union {f}])
    BY <1>1 DEF Page, Same, Shown
  <2>5. [p EXCEPT !.kept[e] = @ \union {f}] = [p EXCEPT !.kept = k]
    BY <1>1, <2>2 DEF Page
  <2> QED
    BY <2>3, <2>4, <2>5
<1>3. q \in {p, pushed, [pushed EXCEPT !.inTempStore = @ \union {e},
                                       !.kept[e] = Kept(pushed, e), !.owns = @ \union {e}]}
  BY DEF UpdateInTempStoreAttributes
<1> HIDE DEF pushed, q
<1>4. PICK k \in SUBSET Field : k = Kept(pushed, e)
  BY <1>2, KeptIs
<1>5. /\ [pushed EXCEPT !.inTempStore = @ \union {e}, !.kept[e] = k,
                        !.owns = @ \union {e}] \in Page
      /\ Same(pushed, [pushed EXCEPT !.inTempStore = @ \union {e}, !.kept[e] = k,
                                     !.owns = @ \union {e}])
  BY <1>2 DEF Page, Same, Shown
<1>6. q \in Page /\ Same(p, q)
  BY <1>1, <1>2, <1>3, <1>4, <1>5 DEF Same, Shown
<1> QED
  BY <1>6, SameGood DEF q

(* set('isCommitting', true) and the request go together.                  *)
LEMMA TryCommitGood ==
  ASSUME NEW X, NEW p \in Good(X), NEW e \in Entity
  PROVE  TryCommit(p, e) \in Good(X) /\ Shown(p, TryCommit(p, e))
<1>1. /\ p \in Page /\ RequestsOK(p) /\ SavesOK(p, X) /\ CommitsOK(p) /\ FormsKept(p)
      /\ FormsThere(p) /\ Calm(p)
  BY DEF Good
<1>2. CASE AcceptsSet(p, e) /\ FieldsIn(p, e, Ready) = ToSet(FieldsOf[e])
  <2> DEFINE m == [p EXCEPT !.isCommitting = @ \union {e}]
  <2>1. /\ m \in Page /\ Shown(p, m) /\ m.requests = p.requests
        /\ m.isCommitting = p.isCommitting \union {e}
    BY <1>1 DEF Page, Shown
  <2>2. TryCommit(p, e) = Send(m, "entity", e, FALSE)
    BY <1>2 DEF TryCommit
  <2> HIDE DEF m
  <2>3. IsFiniteSet(m.requests)
    BY <1>1, <2>1 DEF RequestsOK
  <2>4. "entity" \in Kinds /\ e \in Field \union Entity
    BY DEF Kinds
  <2>5. PICK r \in Requests :
          /\ r.kind = "entity" /\ r.x = e /\ r.of = "current"
          /\ Send(m, "entity", e, FALSE) = [m EXCEPT !.requests = @ \union {r}]
    <3>1. ASSUME NEW no \in BOOLEAN
          PROVE  \E r \in Requests :
                   /\ r.kind = "entity" /\ r.x = e /\ r.of = "current"
                   /\ Send(m, "entity", e, no) = [m EXCEPT !.requests = @ \union {r}]
      BY <2>1, <2>3, <2>4, SendIs
    <3> QED
      BY <3>1
  <2> DEFINE q == [m EXCEPT !.requests = @ \union {r}]
  <2>6. /\ q \in Page /\ Shown(p, q) /\ q.requests = p.requests \union {r}
        /\ q.isCommitting = p.isCommitting \union {e}
    BY <2>1 DEF Page, Shown
  <2> HIDE DEF q
  <2>7. RequestsOK(q)
    <3>1. IsFiniteSet(q.requests)
      BY <2>1, <2>3, <2>6, FS_AddElement
    <3> QED
      BY <1>1, <2>5, <2>6, <3>1 DEF RequestsOK, Shown
  <2>8. SavesOK(q, X)
    BY <1>1, <2>5, <2>6 DEF SavesOK, Saves, Shown
  <2>9. CommitsOK(q)
    <3>1. \A t \in p.requests : t.kind = "entity" => t.x # e
      BY <1>1, <1>2 DEF CommitsOK, AcceptsSet
    <3> QED
      BY <1>1, <2>5, <2>6, <3>1 DEF CommitsOK, SaveOf
  <2>10. FormsKept(q) /\ FormsThere(q) /\ Calm(q)
    BY <1>1, <2>6 DEF FormsKept, FormsThere, Calm, Shown
  <2> QED
    BY <2>2, <2>5, <2>6, <2>7, <2>8, <2>9, <2>10 DEF Good, q
<1>3. CASE ~(AcceptsSet(p, e) /\ FieldsIn(p, e, Ready) = ToSet(FieldsOf[e]))
  BY <1>3 DEF TryCommit, Shown
<1> QED
  BY <1>2, <1>3

LEMMA FieldStateChangeGood ==
  ASSUME NEW X, NEW p \in Good(X), NEW e \in Entity, NEW f \in Field
  PROVE  FieldStateChange(p, e, f) \in Good(X) /\ Shown(p, FieldStateChange(p, e, f))
<1> DEFINE q == FieldStateChange(p, e, f)
<1>1. p \in Page /\ p.entity[e] \in EntityState
  BY DEF Good, Page
<1>2. CASE p.entity[e] \in {"opening", "deactivating", "closing"}
  <2>1. \E t \in Tasks : q = Defer(p, t)
    BY <1>2, TaskIs DEF FieldStateChange
  <2> QED
    BY <2>1, DeferGood DEF Same
<1>3. CASE p.entity[e] = "opened"
  <2>1. q \in {p, [p EXCEPT !.isDirty = @ \union {e}], UpdateInTempStoreAttributes(p, e, f)}
    BY <1>3 DEF FieldStateChange
  <2>2. [p EXCEPT !.isDirty = @ \union {e}] \in Page /\ Same(p, [p EXCEPT !.isDirty = @ \union {e}])
    BY <1>1 DEF Page, Same, Shown
  <2>3. [p EXCEPT !.isDirty = @ \union {e}] \in Good(X)
    BY <2>2, SameGood
  <2>4. Shown(p, p)
    BY DEF Shown
  <2> HIDE DEF q
  <2> QED
    BY <2>1, <2>2, <2>3, <2>4, UpdateGood, ZenonT(60) DEF Same, q
<1>4. CASE p.entity[e] = "committing"
  <2>1. PICK m : m = (IF p.field[f] = "invalid" THEN Defer(p, Task("invalid", e))
                      ELSE UpdateInTempStoreAttributes(p, e, f))
    OBVIOUS
  <2>2. m \in Good(X) /\ Shown(p, m)
    BY <2>1, TaskIs, DeferGood, UpdateGood DEF Same
  <2>3. q = TryCommit(m, e)
    BY <1>4, <2>1 DEF FieldStateChange
  <2>4. TryCommit(m, e) \in Good(X) /\ Shown(m, TryCommit(m, e))
    BY <2>2, TryCommitGood
  <2> HIDE DEF q
  <2> QED
    BY <2>2, <2>3, <2>4 DEF Shown, q
<1>5. CASE p.entity[e] \in {"closed", "launching"}
  BY <1>5 DEF FieldStateChange, Shown
<1> QED
  BY <1>1, <1>2, <1>3, <1>4, <1>5 DEF EntityState

-----------------------------------------------------------------------------
(* Editors.                                                                *)

(* A form is put into the page, or taken out of it: what was to be loaded  *)
(* into its place finds none.                                              *)
LEMMA FormGood ==
  ASSUME NEW X, NEW p \in Good(X), NEW f \in Field, NEW v \in {"none", "loading"},
         NEW T \in SUBSET Field,
         v = "none" => (EditorOf[f] = "form" => p.field[f] \notin Unsaved),
         v = "loading" => f \in p.editor /\ EditorOf[f] = "form"
  PROVE  [p EXCEPT !.form[f] = v, !.typed = T, !.requests = OrphanLoads(p, f)] \in Good(X)
<1>1. /\ p \in Page /\ RequestsOK(p) /\ SavesOK(p, X) /\ CommitsOK(p) /\ FormsKept(p)
      /\ FormsThere(p) /\ Calm(p)
  BY DEF Good
<1> DEFINE Orphan(r) == IF r.kind = "load" /\ r.x = f /\ r.of = "current"
                        THEN [r EXCEPT !.of = "removed"] ELSE r
<1>2. PICK g : g = [r \in p.requests |-> Orphan(r)]
  OBVIOUS
<1>3. OrphanLoads(p, f) = {g[r] : r \in p.requests}
  BY <1>2 DEF OrphanLoads
<1>4. p.requests \subseteq Requests
  BY <1>1 DEF Page
<1>5. Relabels(p.requests, g)
  BY <1>2, <1>4 DEF Relabels, Requests, Saves
<1>6. \A r \in p.requests : g[r].kind = "load" /\ g[r].of = "current" => r.x # f /\ r = g[r]
  BY <1>2, <1>4 DEF Requests
<1>7. PICK R : R = OrphanLoads(p, f)
  OBVIOUS
<1>8. R \in SUBSET Requests
  BY <1>3, <1>5, <1>7 DEF Relabels
<1> DEFINE q == [p EXCEPT !.form[f] = v, !.typed = T, !.requests = R]
<1>9. /\ q \in Page /\ q.field = p.field /\ q.editor = p.editor /\ q.thrown = p.thrown
      /\ q.requests = R /\ q.isCommitting = p.isCommitting /\ q.form = [p.form EXCEPT ![f] = v]
      /\ p.form \in [Field -> {"none", "loading", "loaded"}]
  BY <1>1, <1>8 DEF Page
<1> HIDE DEF q, Orphan
<1>10. \A r \in p.requests : g[r].kind = "load" /\ g[r].of = "current" => q.form[r.x] # "none"
  BY <1>1, <1>6, <1>9 DEF RequestsOK
<1>11. \A r \in p.requests : Saves(g[r]) /\ r.x \notin X => q.field[r.x] = "saving"
  BY <1>1, <1>5, <1>9 DEF SavesOK, Relabels
<1>12. RequestsOK(q) /\ SavesOK(q, X) /\ CommitsOK(q)
  <2>1. q.requests = {g[r] : r \in p.requests}
    BY <1>3, <1>7, <1>9
  <2> QED
    <3>1. Relabelled(p, q, g, X)
      BY <1>5, <1>9, <1>10, <1>11, <2>1 DEF Relabelled
    <3> QED
      BY <1>9, <3>1, RelabelGood
<1>13. FormsKept(q)
  BY <1>1, <1>9 DEF FormsKept
<1>14. FormsThere(q)
  BY <1>1, <1>9 DEF FormsThere
<1>15. Calm(q)
  BY <1>1, <1>9 DEF Calm
<1>16. q \in Good(X)
  BY <1>9, <1>12, <1>13, <1>14, <1>15 DEF Good
<1> QED
  BY <1>7, <1>16 DEF q

(* What stays as it is when a form is removed.                             *)
Formless(p, q, f) ==
  /\ q.field = p.field /\ q.editor = p.editor /\ q.thrown = p.thrown
  /\ q.form = [p.form EXCEPT ![f] = "none"]

LEMMA RemoveFormGood ==
  ASSUME NEW X, NEW p \in Good(X), NEW f \in Field,
         EditorOf[f] = "form" => p.field[f] \notin Unsaved
  PROVE  RemoveForm(p, f) \in Good(X) /\ Formless(p, RemoveForm(p, f), f)
<1>1. p \in Page
  BY DEF Good
<1>2. PICK T \in SUBSET Field : T = p.typed \ {f}
  BY <1>1 DEF Page
<1>3. RemoveForm(p, f) =
        [p EXCEPT !.form[f] = "none", !.typed = T, !.requests = OrphanLoads(p, f)]
  BY <1>2 DEF RemoveForm
<1>4. [p EXCEPT !.form[f] = "none", !.typed = T, !.requests = OrphanLoads(p, f)] \in Good(X)
  BY FormGood
<1>5. Formless(p, [p EXCEPT !.form[f] = "none", !.typed = T,
                            !.requests = OrphanLoads(p, f)], f)
  BY <1>1 DEF Page, Formless
<1> QED
  BY <1>3, <1>4, <1>5

LEMMA SetupGood ==
  ASSUME NEW X, NEW p \in Good(X), NEW f \in Field
  PROVE  SetupEditor(p, f) \in Good(X) /\ SetupEditor(p, f).field = p.field
<1> DEFINE q == SetupEditor(p, f)
<1>1. /\ p \in Page /\ RequestsOK(p) /\ SavesOK(p, X) /\ CommitsOK(p) /\ FormsKept(p)
      /\ FormsThere(p) /\ Calm(p)
  BY DEF Good
<1>2. /\ q \in Page /\ q.field = p.field /\ q.form = p.form /\ q.thrown = p.thrown
      /\ q.requests = p.requests /\ q.isCommitting = p.isCommitting
      /\ q.editor = p.editor \union {f}
  BY <1>1, ZenonT(60) DEF Page, SetupEditor
<1> HIDE DEF q
<1>3. FormsKept(q) /\ FormsThere(q) /\ Calm(q)
  BY <1>1, <1>2 DEF FormsKept, FormsThere, Calm
<1>4. RequestsOK(q) /\ SavesOK(q, X)
  BY <1>1, <1>2 DEF RequestsOK, SavesOK
<1>5. CommitsOK(q)
  BY <1>1, <1>2 DEF CommitsOK
<1>6. q \in Good(X)
  BY <1>2, <1>3, <1>4, <1>5 DEF Good
<1> QED
  BY <1>2, <1>6 DEF q

(* Beware: the element of a field that is rerendered goes with its form.   *)
LEMMA TeardownGood ==
  ASSUME NEW X, NEW p \in Good(X), NEW f \in Field,
         EditorOf[f] = "form" => p.field[f] \notin Unsaved
  PROVE  /\ TeardownEditor(p, f) \in Good(X)
         /\ TeardownEditor(p, f).field = p.field /\ TeardownEditor(p, f).form[f] = "none"
         /\ TeardownEditor(p, f).thrown = p.thrown
<1>1. PICK m : m = RemoveForm(p, f)
  OBVIOUS
<1>2. m \in Good(X) /\ Formless(p, m, f)
  BY <1>1, RemoveFormGood
<1>3. /\ m \in Page /\ RequestsOK(m) /\ SavesOK(m, X) /\ CommitsOK(m) /\ FormsKept(m)
      /\ FormsThere(m) /\ Calm(m) /\ p \in Page
  BY <1>2 DEF Good
<1> DEFINE q == [m EXCEPT !.editor = @ \ {f}]
<1>4. /\ q \in Page /\ q.field = m.field /\ q.form = m.form /\ q.thrown = m.thrown
      /\ q.requests = m.requests /\ q.isCommitting = m.isCommitting
      /\ q.editor = m.editor \ {f}
  BY <1>3 DEF Page
<1>5. q = TeardownEditor(p, f)
  BY <1>1 DEF TeardownEditor
<1> HIDE DEF q
<1>6. m.form[f] = "none"
  <2>1. p.form \in [Field -> {"none", "loading", "loaded"}]
    BY <1>3 DEF Page
  <2>2. m.form = [p.form EXCEPT ![f] = "none"]
    BY <1>2 DEF Formless
  <2> QED
    BY <2>1, <2>2
<1>7. FormsKept(q) /\ FormsThere(q) /\ Calm(q)
  BY <1>3, <1>4, <1>6 DEF FormsKept, FormsThere, Calm
<1>8. RequestsOK(q) /\ SavesOK(q, X)
  BY <1>3, <1>4 DEF RequestsOK, SavesOK
<1>9. CommitsOK(q)
  BY <1>3, <1>4 DEF CommitsOK
<1>10. q \in Good(X)
  BY <1>4, <1>7, <1>8, <1>9 DEF Good
<1> QED
  BY <1>2, <1>4, <1>5, <1>6, <1>10 DEF Formless

LEMMA EditorStateChangeGood ==
  ASSUME NEW X, NEW p \in Good(X), NEW f \in Field, NEW from,
         p.field[f] = "saving" => Settled(p, f)
  PROVE  /\ EditorStateChange(p, f, from) \in Good(X)
         /\ EditorStateChange(p, f, from).field = p.field
<1> DEFINE q == EditorStateChange(p, f, from)
           to == p.field[f]
<1>1. /\ p \in Page /\ FormsKept(p) /\ FormsThere(p)
  BY DEF Good
<1>2. PICK reset \in BOOLEAN : reset = Reset(p, f)
  BY DEF Reset
<1>3. CASE f \notin p.editor
  BY <1>3 DEF EditorStateChange, FormStateChange, TextStateChange
<1>4. CASE f \in p.editor /\ EditorOf[f] = "form"
  <2>1. CASE to = "candidate" /\ from # "inactive"
    <3>1. q = RemoveForm(p, f)
      BY <1>4, <2>1 DEF EditorStateChange, FormStateChange, TextStateChange
    <3>2. p.field[f] \notin Unsaved
      BY <2>1 DEF Unsaved
    <3>3. RemoveForm(p, f) \in Good(X) /\ Formless(p, RemoveForm(p, f), f)
      BY <3>2, RemoveFormGood
    <3> HIDE DEF q
    <3> QED
      BY <3>1, <3>3 DEF Formless, q
  <2>2. CASE to = "activating" /\ from # "invalid"
    <3> DEFINE m == [p EXCEPT !.form[f] = "loading", !.typed = p.typed,
                              !.requests = OrphanLoads(p, f)]
    <3>1. m \in Good(X)
      BY <1>1, <1>4, FormGood DEF Page
    <3>2. m.form[f] # "none" /\ m.field = p.field
      BY <1>1 DEF Page
    <3>3. m = [p EXCEPT !.form[f] = "loading", !.requests = OrphanLoads(p, f)]
      BY <1>1 DEF Page
    <3>4. q = Send(m, "load", f, reset)
      BY <1>2, <1>4, <2>2, <3>3 DEF EditorStateChange, FormStateChange, TextStateChange
    <3> HIDE DEF m, q
    <3>5. "load" \in Kinds \ {"entity"}
      BY DEF Kinds
    <3>6. Send(m, "load", f, reset) \in Good(X) /\ Shown(m, Send(m, "load", f, reset))
      BY <3>1, <3>2, <3>5, SendGood
    <3> QED
      BY <3>2, <3>4, <3>6 DEF Shown, q
  <2>3. CASE to = "saving"
    <3>1. p.form[f] # "none"
      BY <1>1, <1>4, <2>3 DEF FormsThere, Unsaved
    <3> DEFINE m == [p EXCEPT !.typed = @ \ {f}]
    <3>2. /\ m \in Page /\ Same(p, m)
      BY <1>1 DEF Page, Same, Shown
    <3>3. m \in Good(X)
      BY <3>2, SameGood
    <3>4. q = Send(m, "submit", f, FALSE)
      BY <1>4, <2>3, <3>1 DEF EditorStateChange, FormStateChange, TextStateChange
    <3> HIDE DEF m, q
    <3>5. "submit" \in Kinds \ {"entity"} /\ m.field[f] = "saving" /\ Settled(m, f)
      BY <2>3, <3>2 DEF Kinds, Same, Shown, Settled
    <3>6. ASSUME NEW no \in BOOLEAN
          PROVE  Send(m, "submit", f, no) \in Good(X) /\ Shown(m, Send(m, "submit", f, no))
      BY <3>3, <3>5, SendGood
    <3> QED
      BY <3>2, <3>4, <3>6 DEF Same, Shown, q
  <2>4. CASE /\ ~(to = "candidate" /\ from # "inactive")
             /\ ~(to = "activating" /\ from # "invalid") /\ to # "saving"
    BY <1>4, <2>4 DEF EditorStateChange, FormStateChange, TextStateChange
  <2> QED
    BY <2>1, <2>2, <2>3, <2>4
<1>5. CASE f \in p.editor /\ EditorOf[f] # "form"
  <2>1. CASE to = "activating" /\ EditorOf[f] = "plain"
    <3>1. q = Defer(p, FieldTask(f, "active"))
      BY <1>5, <2>1 DEF EditorStateChange, FormStateChange, TextStateChange
    <3>2. PICK t \in Tasks : t = FieldTask(f, "active")
      BY TaskIs
    <3>3. Defer(p, t) \in Good(X) /\ Same(p, Defer(p, t))
      BY DeferGood
    <3> HIDE DEF q
    <3> QED
      BY <3>1, <3>2, <3>3 DEF Same, Shown, q
  <2>2. CASE to = "activating" /\ EditorOf[f] = "filtered"
    <3>1. q = Send(p, "text", f, FALSE)
      BY <1>5, <2>2 DEF EditorStateChange, FormStateChange, TextStateChange
    <3> HIDE DEF q
    <3>2. "text" \in Kinds \ {"entity"}
      BY DEF Kinds
    <3>3. ASSUME NEW no \in BOOLEAN
          PROVE  Send(p, "text", f, no) \in Good(X) /\ Shown(p, Send(p, "text", f, no))
      BY <3>2, SendGood
    <3> QED
      BY <3>1, <3>3 DEF Shown, q
  <2>3. CASE to = "saving"
    <3>1. q = Send(p, "backstage", f, reset)
      BY <1>2, <1>5, <2>3 DEF EditorStateChange, FormStateChange, TextStateChange
    <3> HIDE DEF q
    <3>2. "backstage" \in Kinds \ {"entity"} /\ p.field[f] = "saving" /\ Settled(p, f)
      BY <2>3 DEF Kinds
    <3>3. Send(p, "backstage", f, reset) \in Good(X) /\ Shown(p, Send(p, "backstage", f, reset))
      BY <3>2, SendGood
    <3> QED
      BY <3>1, <3>3 DEF Shown, q
  <2>4. CASE /\ ~(to = "activating" /\ EditorOf[f] \in {"plain", "filtered"}) /\ to # "saving"
    BY <1>5, <2>4 DEF EditorStateChange, FormStateChange, TextStateChange
  <2> QED
    BY <2>1, <2>2, <2>3, <2>4
<1> QED
  BY <1>3, <1>4, <1>5

LEMMA TrackFieldGood ==
  ASSUME NEW X, NEW p \in Good(X), NEW f \in Field, NEW from
  PROVE  TrackField(p, f, from) \in Good(X) /\ Same(p, TrackField(p, f, from))
<1>1. p \in Page
  BY DEF Good
<1>2. \E h, a \in Field \union {NoField, Destroyed}, T \in SUBSET Field :
        TrackField(p, f, from) = [p EXCEPT !.highlightedField = h, !.activeField = a, !.typed = T]
  <2>1. PICK h \in Field \union {NoField, Destroyed} :
          h = CASE p.field[f] \in Single -> f
                [] p.highlightedField = f /\ p.field[f] = "candidate" -> NoField
                [] OTHER -> p.highlightedField
    <3>1. p.highlightedField \in Field \union {NoField, Destroyed}
      BY <1>1 DEF Page
    <3>2. p.field[f] = "candidate" => p.field[f] \notin Single
      BY DEF Single
    <3> QED
      BY <3>1, <3>2
  <2>2. CASE p.activeField = f /\ p.field[f] = "candidate"
    <3>1. PICK T \in SUBSET Field :
            T = IF from \in {"changed", "invalid"} THEN p.typed \ {f} ELSE p.typed
      BY <1>1 DEF Page
    <3>2. TrackField(p, f, from) =
            [p EXCEPT !.highlightedField = h, !.activeField = NoField, !.typed = T]
      BY <2>1, <2>2, <3>1 DEF TrackField
    <3> QED
      BY <3>2
  <2>3. CASE ~(p.activeField = f /\ p.field[f] = "candidate")
    <3>1. PICK a \in Field \union {NoField, Destroyed} :
            a = IF p.field[f] \in Active THEN f ELSE p.activeField
      BY <1>1 DEF Page
    <3>2. TrackField(p, f, from) = [p EXCEPT !.highlightedField = h, !.activeField = a]
      BY <2>1, <2>3, <3>1 DEF TrackField
    <3>3. /\ p.typed \in SUBSET Field
          /\ [p EXCEPT !.highlightedField = h, !.activeField = a] =
                 [p EXCEPT !.highlightedField = h, !.activeField = a, !.typed = p.typed]
      BY <1>1 DEF Page
    <3>4. PICK T \in SUBSET Field : T = p.typed
      BY <3>3
    <3>5. TrackField(p, f, from) =
            [p EXCEPT !.highlightedField = h, !.activeField = a, !.typed = T]
      BY <3>2, <3>3, <3>4
    <3> QED
      BY <3>5
  <2> QED
    BY <2>2, <2>3
<1>3. PICK h, a \in Field \union {NoField, Destroyed}, T \in SUBSET Field :
        TrackField(p, f, from) = [p EXCEPT !.highlightedField = h, !.activeField = a, !.typed = T]
  BY <1>2
<1> DEFINE q == [p EXCEPT !.highlightedField = h, !.activeField = a, !.typed = T]
<1>4. q \in Page /\ Same(p, q)
  BY <1>1 DEF Page, Same, Shown
<1>5. q \in Good(X)
  BY <1>4, SameGood
<1> QED
  BY <1>3, <1>4, <1>5

-----------------------------------------------------------------------------
(* Fields.                                                                 *)

(* A field may enter a state: its form is on the page if it is going to    *)
(* have a value that is not saved, and it is not waiting for an answer     *)
(* that would come in another state.                                       *)
MayEnter(p, X, f, to) ==
  /\ EditorOf[f] = "form" /\ to \in Unsaved => p.form[f] # "none"
  /\ to = "saving" => Settled(p, f)
  /\ p.field[f] # "saving" \/ f \in X \/ Settled(p, f)

LEMMA StateGood ==
  ASSUME NEW X, NEW p \in Good(X), NEW f \in Field, NEW to \in FieldState,
         MayEnter(p, X, f, to)
  PROVE  \E q \in Good(X) : /\ q = [p EXCEPT !.field[f] = to]
                            /\ q.field = [p.field EXCEPT ![f] = to] /\ q.field[f] = to
                            /\ q.requests = p.requests
<1> PICK q : q = [p EXCEPT !.field[f] = to]
  OBVIOUS
<1>1. /\ p \in Page /\ RequestsOK(p) /\ SavesOK(p, X) /\ CommitsOK(p) /\ FormsKept(p)
      /\ FormsThere(p) /\ Calm(p)
  BY DEF Good
<1>2. /\ q \in Page /\ q.form = p.form /\ q.editor = p.editor /\ q.thrown = p.thrown
      /\ q.requests = p.requests /\ q.isCommitting = p.isCommitting
      /\ q.field = [p.field EXCEPT ![f] = to] /\ p.field \in [Field -> FieldState]
  BY <1>1 DEF Page
<1>3. FormsKept(q) /\ FormsThere(q) /\ Calm(q)
  <2>1. FormsKept(q)
    BY <1>1, <1>2 DEF FormsKept
  <2>2. FormsThere(q)
    BY <1>1, <1>2 DEF FormsThere, MayEnter
  <2>3. Calm(q)
    BY <1>1, <1>2 DEF Calm
  <2> QED
    BY <2>1, <2>2, <2>3
<1>4. RequestsOK(q)
  BY <1>1, <1>2 DEF RequestsOK
<1>5. SavesOK(q, X)
  <2>1. \A r \in p.requests : Saves(r) => r.x \in Field
    BY <1>1 DEF RequestsOK, Saves
  <2>2. \A r \in p.requests : Saves(r) /\ r.x = f => f \in X
    BY <1>1 DEF MayEnter, Settled, SavesOK
  <2> QED
    BY <1>1, <1>2, <2>1, <2>2 DEF SavesOK
<1>6. CommitsOK(q)
  BY <1>1, <1>2 DEF CommitsOK
<1>7. q \in Good(X) /\ q.field[f] = to
  BY <1>2, <1>3, <1>4, <1>5, <1>6 DEF Good
<1> QED
  BY <1>2, <1>7

LEMMA EnterFieldGood ==
  ASSUME NEW X, NEW p \in Good(X), NEW f \in Field, NEW to \in FieldState,
         MayEnter(p, X, f, to)
  PROVE  /\ EnterField(p, f, to) \in Good(X)
         /\ EnterField(p, f, to).field = [p.field EXCEPT ![f] = to]
<1> DEFINE from == p.field[f]
<1>1. PICK q \in Good(X) :
        /\ q = [p EXCEPT !.field[f] = to]
        /\ q.field = [p.field EXCEPT ![f] = to] /\ q.field[f] = to
        /\ q.requests = p.requests
  BY StateGood
<1> HIDE DEF from
<1>2. PICK a : a = EditorStateChange(q, f, from)
  OBVIOUS
<1>3. a \in Good(X) /\ a.field = q.field
  <2>1. q.field[f] = "saving" => Settled(q, f)
    BY <1>1 DEF MayEnter, Settled
  <2>2. /\ EditorStateChange(q, f, from) \in Good(X)
        /\ EditorStateChange(q, f, from).field = q.field
    BY <2>1, EditorStateChangeGood
  <2> QED
    BY <1>2, <2>2
<1>4. PICK b : b = FieldStateChange(a, EntityOf(f), f)
  OBVIOUS
<1>5. b \in Good(X) /\ b.field = a.field
  BY <1>3, <1>4, EntityOfIs, FieldStateChangeGood DEF Shown
<1>6. TrackField(b, f, from) \in Good(X) /\ TrackField(b, f, from).field = b.field
  BY <1>5, TrackFieldGood DEF Same, Shown
<1>7. EnterField(p, f, to) = TrackField(b, f, from)
  BY <1>1, <1>2, <1>4 DEF EnterField, from
<1> QED
  BY <1>1, <1>3, <1>5, <1>6, <1>7

LEMMA FieldPositionIs ==
  /\ FieldPosition["inactive"] = 1 /\ FieldPosition["candidate"] = 2
  /\ FieldPosition["highlighted"] = 3 /\ FieldPosition["activating"] = 4
  /\ FieldPosition["active"] = 5 /\ FieldPosition["changed"] = 6
  /\ FieldPosition["saving"] = 7 /\ FieldPosition["saved"] = 8
  /\ FieldPosition["invalid"] = 9
<1>1. Len(FieldStates) = 9
  BY DEF FieldStates
<1>2. ASSUME NEW s \in FieldState, NEW i \in 1..9, FieldStates[i] = s,
             \A j \in 1..9 : FieldStates[j] = s => j = i
      PROVE  FieldPosition[s] = i
  <2>1. FieldPosition[s] = CHOOSE j \in 1..Len(FieldStates) : FieldStates[j] = s
    BY StatesAre DEF FieldPosition, Position
  <2> QED
    BY <1>1, <1>2, <2>1
<1>3. \A j \in 1..9 : j = 1 \/ j = 2 \/ j = 3 \/ j = 4 \/ j = 5 \/ j = 6 \/ j = 7 \/ j = 8 \/ j = 9
  OBVIOUS
<1>4. /\ FieldStates[1] = "inactive" /\ FieldStates[2] = "candidate"
      /\ FieldStates[3] = "highlighted" /\ FieldStates[4] = "activating"
      /\ FieldStates[5] = "active" /\ FieldStates[6] = "changed" /\ FieldStates[7] = "saving"
      /\ FieldStates[8] = "saved" /\ FieldStates[9] = "invalid"
  BY DEF FieldStates
<1>5. \A s \in FieldState, i, j \in 1..9 : FieldStates[i] = s /\ FieldStates[j] = s => i = j
  BY <1>3, <1>4
<1>6. \A i \in 1..9 : FieldStates[i] \in FieldState
  BY <1>3, <1>4 DEF FieldState
<1>7. \A i \in 1..9 : FieldPosition[FieldStates[i]] = i
  BY <1>2, <1>5, <1>6
<1> QED
  BY <1>4, <1>7

(* A field that is saving waits: it only becomes saved or invalid.         *)
LEMMA SavingWaits ==
  ASSUME NEW to \in FieldState, NEW why, Accepts("saving", to, why), why \notin AlwaysAccepted,
         to # "saving"
  PROVE  to \in {"saved", "invalid"}
<1>1. <<"saving", to>> \notin BackAllowed
  BY DEF BackAllowed, Active
<1>2. FieldPosition["saving"] < FieldPosition[to]
  BY <1>1 DEF Accepts
<1> QED
  BY <1>2, FieldPositionIs DEF FieldState

LEMMA SavedIsNotSavedAgain ==
  ASSUME NEW why, Accepts("saved", "saving", why)
  PROVE  why \in AlwaysAccepted
BY FieldPositionIs DEF Accepts, BackAllowed, Active

(* The active field is left behind: only its own state changes.            *)
LEMMA LeaveActiveFieldGood ==
  ASSUME NEW p \in Fine, p.activeField # NoField
  PROVE  /\ LeaveActiveField(p) \in Fine
         /\ \A f \in Field : f # p.activeField => LeaveActiveField(p).field[f] = p.field[f]
<1> DEFINE a == p.activeField
<1>1. p \in Page /\ FormsThere(p) /\ SavesOK(p, {})
  BY DEF Fine, Good
<1>2. CASE a = Destroyed
  BY <1>2 DEF LeaveActiveField
<1>3. CASE a # Destroyed
  <2>1. a \in Field /\ p.field \in [Field -> FieldState]
    BY <1>1, <1>3 DEF Page
  <2>2. ASSUME NEW to \in {"candidate", "saving"}, MayEnter(p, {}, a, to),
               LeaveActiveField(p) = EnterField(p, a, to)
        PROVE  /\ LeaveActiveField(p) \in Fine
               /\ \A f \in Field : f # a => LeaveActiveField(p).field[f] = p.field[f]
    <3>1. to \in FieldState
      BY DEF FieldState
    <3>2. /\ EnterField(p, a, to) \in Fine
          /\ EnterField(p, a, to).field = [p.field EXCEPT ![a] = to]
      BY <2>1, <2>2, <3>1, EnterFieldGood DEF Fine
    <3> HIDE DEF a
    <3> QED
      BY <2>1, <2>2, <3>2
  <2>3. CASE p.field[a] \in Active
    <3>1. MayEnter(p, {}, a, "candidate")
      BY <2>3 DEF MayEnter, Active, Unsaved
    <3>2. LeaveActiveField(p) = EnterField(p, a, "candidate")
      BY <1>3, <2>3 DEF LeaveActiveField, Active
    <3> QED
      BY <2>2, <3>1, <3>2
  <2>4. CASE p.field[a] \in {"changed", "invalid"}
    <3>1. Settled(p, a)
      BY <1>1, <2>1, <2>4 DEF SavesOK, Settled
    <3>2. MayEnter(p, {}, a, "saving")
      BY <1>1, <2>1, <2>4, <3>1 DEF MayEnter, FormsThere, Unsaved
    <3>3. LeaveActiveField(p) = EnterField(p, a, "saving")
      BY <1>3, <2>4 DEF LeaveActiveField, Active
    <3> QED
      BY <2>2, <3>2, <3>3
  <2>5. CASE p.field[a] \notin Active \union {"changed", "invalid"}
    BY <1>3, <2>5 DEF LeaveActiveField
  <2> QED
    BY <2>3, <2>4, <2>5
<1> QED
  BY <1>2, <1>3

(* What a caller of SetField() sees to.                                    *)
MaySet(p, f, to, why) ==
  /\ EditorOf[f] = "form" /\ to \in Unsaved /\ Accepts(p.field[f], to, why) => p.form[f] # "none"
  /\ p.field[f] = "saving" /\ to \in {"saved", "invalid"} => Settled(p, f)
  /\ why \in AlwaysAccepted => p.field[f] # "saving"

LEMMA SetFieldGood ==
  ASSUME NEW p \in Fine, NEW f \in Field, NEW to \in FieldState, NEW why, MaySet(p, f, to, why)
  PROVE  /\ SetField(p, f, to, why) \in Fine
         /\ to \notin Active => SetField(p, f, to, why).field \in {p.field, [p.field EXCEPT ![f] = to]}
<1>1. p \in Page /\ SavesOK(p, {}) /\ p.field \in [Field -> FieldState]
  BY DEF Fine, Good, Page
<1>2. CASE p.field[f] = to \/ ~Accepts(p.field[f], to, why)
  BY <1>2 DEF SetField
<1>3. CASE ~(p.field[f] = to \/ ~Accepts(p.field[f], to, why)) /\ ~HopsTo(p, f, to, why)
  <2>1. SetField(p, f, to, why) = EnterField(p, f, to)
    BY <1>3 DEF SetField
  <2>2. p.field[f] # "saving" => Settled(p, f)
    BY <1>1 DEF SavesOK, Settled
  <2>3. p.field[f] # "saving" \/ Settled(p, f)
    BY <1>3, SavingWaits DEF MaySet
  <2>4. MayEnter(p, {}, f, to)
    BY <1>3, <2>2, <2>3 DEF MayEnter, MaySet
  <2>5. /\ EnterField(p, f, to) \in Fine
        /\ EnterField(p, f, to).field = [p.field EXCEPT ![f] = to]
    BY <2>4, EnterFieldGood DEF Fine
  <2> QED
    BY <2>1, <2>5
<1>4. CASE ~(p.field[f] = to \/ ~Accepts(p.field[f], to, why)) /\ HopsTo(p, f, to, why)
  <2>1. to \in Active /\ p.activeField # NoField /\ f # p.activeField
        /\ p.field[f] \in Ready \union {"invalid"}
    BY <1>4 DEF HopsTo
  <2>2. PICK q : q = LeaveActiveField(p)
    OBVIOUS
  <2>3. q \in Fine /\ q.field[f] = p.field[f]
    BY <2>1, <2>2, LeaveActiveFieldGood
  <2>4. CASE p.field[f] = "invalid"
    <3>1. SetField(p, f, to, why) = [q EXCEPT !.activeField = f]
      BY <1>4, <2>2, <2>4 DEF SetField
    <3>2. q \in Page
      BY <2>3 DEF Fine, Good
    <3>3. [q EXCEPT !.activeField = f] \in Page /\ Same(q, [q EXCEPT !.activeField = f])
      BY <3>2 DEF Page, Same, Shown
    <3>4. [q EXCEPT !.activeField = f] \in Fine
      BY <2>3, <3>3, SameGood DEF Fine
    <3> QED
      BY <2>1, <3>1, <3>4
  <2>5. CASE p.field[f] # "invalid"
    <3>1. SetField(p, f, to, why) = EnterField(q, f, to)
      BY <1>4, <2>2, <2>5 DEF SetField
    <3>2. MayEnter(q, {}, f, to)
      BY <2>1, <2>3 DEF MayEnter, Active, Ready, Unsaved
    <3>3. EnterField(q, f, to) \in Fine
      BY <2>3, <3>2, EnterFieldGood DEF Fine
    <3> QED
      BY <2>1, <3>1, <3>3
  <2> QED
    BY <2>4, <2>5
<1> QED
  BY <1>2, <1>3, <1>4

(* A field that waits for an answer to its save cannot be set to candidate.*)
LEMMA SetCandidateGood ==
  ASSUME NEW p \in Fine, NEW f \in Field, NEW to \in {"candidate", "highlighted", "activating", "active"},
         NEW why, why \notin AlwaysAccepted
  PROVE  SetField(p, f, to, why) \in Fine
<1>1. MaySet(p, f, to, why) /\ to \in FieldState
  BY DEF MaySet, Unsaved, FieldState
<1> QED
  BY <1>1, SetFieldGood

LEMMA RerenderedGood ==
  ASSUME NEW p \in Fine, NEW f \in Field
  PROVE  RerenderedFieldToCandidate(p, f) \in Fine
<1>1. PICK q : q = SetupEditor(p, f)
  OBVIOUS
<1>2. q \in Fine
  BY <1>1, SetupGood DEF Fine
<1>3. SetField(q, f, "candidate", "none") \in Fine
  <2>1. "none" \notin AlwaysAccepted
    BY DEF AlwaysAccepted
  <2> QED
    BY <1>2, <2>1, SetCandidateGood
<1>4. RerenderedFieldToCandidate(p, f) \in {p, SetField(q, f, "candidate", "none")}
  BY <1>1 DEF RerenderedFieldToCandidate
<1> QED
  BY <1>3, <1>4

(* What is kept of the deferred callbacks is a queue of callbacks.         *)
LEMMA KeepQueue ==
  ASSUME NEW d \in Queues, NEW T
  PROVE  Keep(d, T) \in Queues
<1>1. d \in Seq(Tasks)
  BY DEF Queues
<1>2. Keep(d, T) \in Seq(Tasks \cap T)
  BY <1>1, KeepIs
<1>3. Seq(Tasks \cap T) \subseteq Seq(Tasks)
  OBVIOUS
<1> QED
  BY <1>2, <1>3 DEF Queues

(* A field is replaced: what was asked for on behalf of its old model has  *)
(* no effect any more, an old save included.                               *)

(* The model of f is destroyed: what is left of the page.                  *)
AboutModel(t, f) == \/ t.do = "field" /\ t.f = f
                    \/ t.do \in {"html", "rerender", "replace"} /\ t.x = f

Forgets(p, q, f) ==
  /\ q.entity = p.entity /\ q.isActive = p.isActive /\ q.modal = p.modal
  /\ q.isDirty = p.isDirty /\ q.isCommitting = p.isCommitting
  /\ q.kept = p.kept /\ q.owns = p.owns /\ q.sharedKept = p.sharedKept
  /\ q.editor = p.editor /\ q.field = p.field /\ q.form = p.form /\ q.typed = p.typed
  /\ q.activeField = IF p.activeField = f THEN Destroyed ELSE p.activeField
  /\ q.deferred = Keep(p.deferred, {t \in ToSet(p.deferred) : ~AboutModel(t, f)})
  /\ q.requests = {IF r.x = f THEN [r EXCEPT !.of = "destroyed"] ELSE r : r \in p.requests}

LEMMA RenderIs ==
  ASSUME NEW f \in Field, NEW p \in Good({f}), p.field[f] = "inactive"
  PROVE  \E q \in Fine : /\ Forgets(TeardownEditor(p, f), q, f)
                         /\ RenderField(p, f) = RerenderedFieldToCandidate(q, f)
<1>1. PICK m : m = TeardownEditor(p, f)
  OBVIOUS
<1>2. m \in Good({f}) /\ m.field = p.field
  <2>1. p.field[f] \notin Unsaved
    BY DEF Unsaved
  <2> QED
    BY <1>1, <2>1, TeardownGood
<1>3. /\ m \in Page /\ RequestsOK(m) /\ SavesOK(m, {f}) /\ CommitsOK(m) /\ FormsKept(m)
      /\ FormsThere(m) /\ Calm(m)
  BY <1>2 DEF Good
<1> DEFINE Gone(r) == IF r.x = f THEN [r EXCEPT !.of = "destroyed"] ELSE r
<1>4. PICK d : d = Keep(m.deferred, {t \in ToSet(m.deferred) : ~AboutModel(t, f)})
  OBVIOUS
<1>5. d \in Queues
  BY <1>3, <1>4, KeepQueue DEF Page
<1>6. PICK h : h = IF m.highlightedField = f THEN Destroyed ELSE m.highlightedField
  OBVIOUS
<1>7. PICK a : a = IF m.activeField = f THEN Destroyed ELSE m.activeField
  OBVIOUS
<1>8. /\ h \in Field \union {NoField, Destroyed} /\ a \in Field \union {NoField, Destroyed}
  BY <1>3, <1>6, <1>7 DEF Page
<1>9. PICK g : g = [r \in m.requests |-> Gone(r)]
  OBVIOUS
<1>10. PICK R : R = {g[r] : r \in m.requests}
  OBVIOUS
<1>11. m.requests \subseteq Requests
  BY <1>3 DEF Page
<1>12. Relabels(m.requests, g)
  BY <1>9, <1>11 DEF Relabels, Requests, Saves
<1>13. \A r \in m.requests : r.x # f => g[r] = r
  BY <1>9
<1>14. \A r \in m.requests : r.x = f => g[r].of = "destroyed"
  BY <1>9, <1>11 DEF Requests
<1>15. R \in SUBSET Requests
  BY <1>10, <1>12 DEF Relabels
<1>16. R = {Gone(r) : r \in m.requests}
  BY <1>9, <1>10
<1> DEFINE q == [m EXCEPT !.highlightedField = h, !.activeField = a, !.deferred = d,
                          !.requests = R]
<1>17. /\ q \in Page /\ q.field = m.field /\ q.form = m.form /\ q.editor = m.editor
       /\ q.thrown = m.thrown /\ q.requests = R /\ q.isCommitting = m.isCommitting
  BY <1>3, <1>5, <1>8, <1>15 DEF Page
<1>18. /\ q.entity = m.entity /\ q.isActive = m.isActive /\ q.modal = m.modal
       /\ q.isDirty = m.isDirty /\ q.kept = m.kept /\ q.owns = m.owns
       /\ q.sharedKept = m.sharedKept /\ q.typed = m.typed /\ q.activeField = a
       /\ q.deferred = d
  BY <1>3 DEF Page
<1>19. RenderField(p, f) = RerenderedFieldToCandidate(q, f)
  BY <1>1, <1>4, <1>6, <1>7, <1>16 DEF RenderField, AboutModel
<1>20. Forgets(m, q, f)
  <2> HIDE DEF q
  <2>1. q.requests = {IF r.x = f THEN [r EXCEPT !.of = "destroyed"] ELSE r : r \in m.requests}
    BY <1>16, <1>17
  <2> QED
    BY <1>4, <1>7, <1>17, <1>18, <2>1 DEF Forgets
<1> HIDE DEF q, Gone
<1>21. Relabelled(m, q, g, {})
  <2>1. q.requests = {g[r] : r \in m.requests}
    BY <1>10, <1>17
  <2>2. \A r \in m.requests : g[r].kind = "load" /\ g[r].of = "current" => q.form[r.x] # "none"
    BY <1>3, <1>13, <1>14, <1>17 DEF RequestsOK
  <2>3. \A r \in m.requests : Saves(g[r]) => q.field[r.x] = "saving"
    BY <1>3, <1>13, <1>14, <1>17 DEF SavesOK, Saves
  <2> QED
    BY <1>12, <1>17, <2>1, <2>2, <2>3 DEF Relabelled
<1>22. RequestsOK(q) /\ SavesOK(q, {}) /\ CommitsOK(q)
  BY <1>2, <1>17, <1>21, RelabelGood
<1>23. FormsKept(q) /\ FormsThere(q) /\ Calm(q)
  BY <1>3, <1>17 DEF FormsKept, FormsThere, Calm
<1>24. q \in Fine
  BY <1>17, <1>22, <1>23 DEF Fine, Good
<1> QED
  BY <1>1, <1>19, <1>20, <1>24

LEMMA RenderFieldGood ==
  ASSUME NEW f \in Field, NEW p \in Good({f}), p.field[f] # "inactive" => p \in Fine /\ ~OneMode
  PROVE  RenderField(p, f) \in Fine
<1>1. CASE p.field[f] # "inactive"
  <2> DEFINE q == [p EXCEPT !.thrown = @ \union {"destroy"}]
  <2>1. RenderField(p, f) = q
    BY <1>1 DEF RenderField
  <2>2. /\ p \in Page /\ RequestsOK(p) /\ SavesOK(p, {}) /\ CommitsOK(p) /\ FormsKept(p)
        /\ FormsThere(p) /\ Calm(p)
    BY <1>1 DEF Fine, Good
  <2>3. /\ q \in Page /\ q.field = p.field /\ q.form = p.form /\ q.editor = p.editor
        /\ q.requests = p.requests /\ q.isCommitting = p.isCommitting
        /\ q.thrown = p.thrown \union {"destroy"}
    BY <2>2 DEF Page
  <2> HIDE DEF q
  <2>4. FormsKept(q) /\ FormsThere(q) /\ Calm(q)
    BY <1>1, <2>2, <2>3 DEF FormsKept, FormsThere, Calm
  <2>5. RequestsOK(q) /\ SavesOK(q, {})
    BY <2>2, <2>3 DEF RequestsOK, SavesOK
  <2>6. CommitsOK(q)
    BY <2>2, <2>3 DEF CommitsOK
  <2> QED
    BY <2>1, <2>2, <2>3, <2>4, <2>5, <2>6 DEF Fine, Good
<1>2. CASE p.field[f] = "inactive"
  BY <1>2, RenderIs, RerenderedGood
<1> QED
  BY <1>1, <1>2

LEMMA FineIsGood ==
  ASSUME NEW X, NEW p \in Fine
  PROVE  p \in Good(X)
BY DEF Fine, Good, SavesOK

LEMMA SetHtmlGood ==
  ASSUME NEW p \in Fine, NEW f \in Field
  PROVE  SetHtml(p, f) \in Fine
<1>1. PICK q : q = Defer(p, Task("rerender", f))
  OBVIOUS
<1>2. q \in Fine
  BY <1>1, TaskIs, DeferGood DEF Fine
<1>3. PICK s : s = OtherModes[f]
  OBVIOUS
<1>4. PICK F \in SUBSET Field : s \in Seq(F) /\ (F # {} => ~OneMode)
  <2>1. CASE OneMode
    <3>1. s = <<>> /\ <<>> \in Seq({})
      BY <1>3, <2>1 DEF OneMode
    <3> QED
      BY <3>1
  <2>2. CASE ~OneMode
    BY <1>3, <2>2, PageAssumption
  <2> QED
    BY <2>1, <2>2
<1>5. \A r \in Fine, x \in F : RenderField(r, x) \in Fine
  BY <1>4, FineIsGood, RenderFieldGood
<1>6. RenderAll(q, s) \in Fine
  BY <1>2, <1>4, <1>5, RenderFold
<1> QED
  BY <1>1, <1>3, <1>6 DEF SetHtml, RenderAll

-----------------------------------------------------------------------------
(* Entities.                                                               *)

LEMMA ToSetIs ==
  ASSUME NEW A, NEW s \in Seq(A)
  PROVE  s \in Seq(ToSet(s)) /\ ToSet(s) \subseteq A
BY DEF ToSet

LEMMA FieldsAre ==
  ASSUME NEW e \in Entity
  PROVE  /\ FieldsOf[e] \in Seq(Field) /\ FieldsOf[e] \in Seq(ToSet(FieldsOf[e]))
         /\ ToSet(FieldsOf[e]) \subseteq Field
BY PageAssumption, ToSetIs

LEMMA ToCandidateGood ==
  ASSUME NEW p \in Fine, NEW s \in Seq(Field)
  PROVE  SetEach(p, s, "candidate", "none") \in Fine
<1>1. "none" \notin AlwaysAccepted
  BY DEF AlwaysAccepted
<1>2. \A q \in Fine, f \in Field : SetField(q, f, "candidate", "none") \in Fine
  BY <1>1, SetCandidateGood
<1> QED
  BY <1>2, SetFieldFold

(* All fields of F can be saved one after the other: those that are        *)
(* changed or invalid have their forms.                                    *)
LEMMA ToSavingGood ==
  ASSUME NEW p \in Fine, NEW F \in SUBSET Field, NEW s \in Seq(F),
         \A f \in F : p.field[f] \in Changed
  PROVE  SetEach(p, s, "saving", "none") \in Fine
<1> DEFINE S == {q \in Fine : \A f \in F : q.field[f] \in Changed}
<1>1. ASSUME NEW q \in S, NEW f \in F
      PROVE  SetField(q, f, "saving", "none") \in S
  <2>1. q \in Fine /\ q \in Page /\ FormsThere(q) /\ q.field \in [Field -> FieldState]
    BY DEF Fine, Good, Page
  <2>2. "none" \notin AlwaysAccepted /\ "saving" \in FieldState /\ "saving" \notin Active
    BY DEF AlwaysAccepted, FieldState, Active
  <2>3. Accepts(q.field[f], "saving", "none") => q.field[f] \in Unsaved
    BY <2>2, SavedIsNotSavedAgain DEF Changed, Unsaved
  <2>4. MaySet(q, f, "saving", "none")
    BY <2>1, <2>2, <2>3 DEF MaySet, FormsThere
  <2>5. PICK r : r = SetField(q, f, "saving", "none")
    OBVIOUS
  <2>6. r \in Fine /\ r.field \in {q.field, [q.field EXCEPT ![f] = "saving"]}
    BY <2>1, <2>2, <2>4, <2>5, SetFieldGood
  <2>7. \A x \in F : r.field[x] \in Changed
    BY <2>1, <2>6 DEF Changed
  <2> QED
    BY <2>5, <2>6, <2>7
<1>2. p \in S
  OBVIOUS
<1> HIDE DEF S
<1>3. SetEach(p, s, "saving", "none") \in S
  BY <1>1, <1>2, SetFieldFold
<1> QED
  BY <1>3 DEF S

LEMMA CommitGood ==
  ASSUME NEW p \in Fine, NEW e \in Entity
  PROVE  Commit(p, e) \in Fine
<1>1. PICK a : a = Those(p, e, {"active"})
  OBVIOUS
<1>2. a \in Seq(Field)
  <2>1. Those(p, e, {"active"}) \in Seq(Field \cap FieldsIn(p, e, {"active"}))
    BY FieldsAre, KeepIs DEF Those
  <2>2. Seq(Field \cap FieldsIn(p, e, {"active"})) \subseteq Seq(Field)
    OBVIOUS
  <2> QED
    BY <1>1, <2>1, <2>2
<1>3. PICK idle : idle = SetEach(p, a, "candidate", "none")
  OBVIOUS
<1>4. idle \in Fine
  BY <1>2, <1>3, ToCandidateGood
<1>5. PICK s : s = Those(idle, e, Changed)
  OBVIOUS
<1>6. PICK F : F = Field \cap FieldsIn(idle, e, Changed)
  OBVIOUS
<1>7. s \in Seq(F)
  BY <1>5, <1>6, FieldsAre, KeepIs DEF Those
<1>8. F \in SUBSET Field /\ \A f \in F : idle.field[f] \in Changed
  BY <1>6 DEF FieldsIn
<1>9. SetEach(idle, s, "saving", "none") \in Fine
  BY <1>4, <1>7, <1>8, ToSavingGood
<1> QED
  BY <1>1, <1>3, <1>5, <1>9 DEF Commit

LEMMA SendToCandidateGood ==
  ASSUME NEW p \in Fine, NEW e \in Entity, NEW f \in Field
  PROVE  SendToCandidate(p, e, f) \in Fine
<1>1. CASE p.field[f] \in Ready
  <2>1. PICK a : a = EditorStateChange(p, f, p.field[f])
    OBVIOUS
  <2>2. a \in Fine
    <3>1. p.field[f] # "saving"
      BY <1>1 DEF Ready
    <3> QED
      BY <2>1, <3>1, EditorStateChangeGood DEF Fine
  <2>3. PICK b : b = FieldStateChange(a, e, f)
    OBVIOUS
  <2>4. b \in Fine
    BY <2>2, <2>3, FieldStateChangeGood DEF Fine
  <2>5. TrackField(b, f, p.field[f]) \in Fine
    BY <2>4, TrackFieldGood DEF Fine
  <2> QED
    BY <1>1, <2>1, <2>3, <2>5 DEF SendToCandidate
<1>2. CASE p.field[f] \notin Ready
  <2>1. "none" \notin AlwaysAccepted
    BY DEF AlwaysAccepted
  <2>2. SetField(p, f, "candidate", "none") \in Fine
    BY <2>1, SetCandidateGood
  <2> QED
    BY <1>2, <2>2 DEF SendToCandidate
<1> QED
  BY <1>1, <1>2

LEMMA EntityGood ==
  ASSUME NEW p \in Fine, NEW e \in Entity, NEW to \in EntityState
  PROVE  [p EXCEPT !.entity[e] = to] \in Fine /\ Same(p, [p EXCEPT !.entity[e] = to])
<1>1. p \in Page
  BY DEF Fine, Good
<1>2. [p EXCEPT !.entity[e] = to] \in Page /\ Same(p, [p EXCEPT !.entity[e] = to])
  BY <1>1 DEF Page, Same, Shown
<1> QED
  BY <1>2, SameGood DEF Fine

LEMMA DeactivateGood ==
  ASSUME NEW p \in Fine, NEW e \in Entity, NEW why
  PROVE  Deactivate(p, e, why) \in Fine
<1>1. p \in Page
  BY DEF Fine, Good
<1> DEFINE ask == /\ FieldsIn(p, e, {"changed", "invalid"}) \union Kept(p, e) # {}
                  /\ why \notin {"saved", "confirmed"}
<1>2. CASE ask
  <2>1. PICK q : q = [p EXCEPT !.entity[e] = "opened"]
    OBVIOUS
  <2>2. q \in Fine
    <3>1. "opened" \in EntityState
      BY DEF EntityState
    <3> QED
      BY <2>1, <3>1, EntityGood
  <2>3. Defer(q, Task("confirm", e)) \in Fine
    BY <2>2, TaskIs, DeferGood DEF Fine
  <2> QED
    BY <1>2, <2>1, <2>3 DEF Deactivate
<1>3. CASE ~ask
  <2>1. PICK q : q = IF ~AcceptsSet(p, e) THEN p
                     ELSE [p EXCEPT !.reload = IF Kept(p, e) \union FieldsIn(p, e, {"invalid"}) # {}
                                               THEN @ \union {e} ELSE @ \ {e}]
    OBVIOUS
  <2>2. q \in Fine
    <3>1. PICK R \in SUBSET Entity : q \in {p, [p EXCEPT !.reload = R]}
      <4>1. p.reload \union {e} \in SUBSET Entity /\ p.reload \ {e} \in SUBSET Entity
        BY <1>1 DEF Page
      <4> QED
        BY <2>1, <4>1
    <3>2. [p EXCEPT !.reload = R] \in Page /\ Same(p, [p EXCEPT !.reload = R])
      BY <1>1 DEF Page, Same, Shown
    <3> QED
      BY <3>1, <3>2, SameGood DEF Fine
  <2>3. \A r \in Fine, f \in Field : SendToCandidate(r, e, f) \in Fine
    BY SendToCandidateGood
  <2>4. SendAll(q, e, FieldsOf[e]) \in Fine
    BY <2>2, <2>3, FieldsAre, SendFold
  <2>5. Deactivate(p, e, why) = SendAll(q, e, FieldsOf[e])
    BY <1>3, <2>1 DEF Deactivate, SendAll
  <2> QED
    BY <2>4, <2>5
<1> QED
  BY <1>2, <1>3

LEMMA SetDeactivatingGood ==
  ASSUME NEW p \in Fine, NEW e \in Entity, NEW why
  PROVE  SetDeactivating(p, e, why) \in Fine
<1>1. PICK q : q = [p EXCEPT !.entity[e] = "deactivating"]
  OBVIOUS
<1>2. q \in Fine
  <2>1. "deactivating" \in EntityState
    BY DEF EntityState
  <2> QED
    BY <1>1, <2>1, EntityGood
<1>3. Deactivate(q, e, why) \in Fine
  BY <1>2, DeactivateGood
<1> QED
  BY <1>1, <1>3 DEF SetDeactivating

LEMMA OpenGood ==
  ASSUME NEW p \in Fine, NEW e \in Entity
  PROVE  Open(p, e) \in Fine
<1>1. p \in Page
  BY DEF Fine, Good
<1>2. PICK q : q = [p EXCEPT !.isActive = @ \union {e}]
  OBVIOUS
<1>3. q \in Fine
  <2>1. [p EXCEPT !.isActive = @ \union {e}] \in Page
    BY <1>1 DEF Page
  <2>2. Same(p, [p EXCEPT !.isActive = @ \union {e}])
    BY <1>1 DEF Page, Same, Shown
  <2> QED
    BY <1>2, <2>1, <2>2, SameGood DEF Fine
<1>4. PICK s : s = Keep(PageOrder, q.isActive \ {e})
  OBVIOUS
<1>5. s \in Seq(Entity)
  <2>1. s \in Seq(Entity \cap (q.isActive \ {e}))
    BY <1>4, PageAssumption, KeepIs
  <2>2. Seq(Entity \cap (q.isActive \ {e})) \subseteq Seq(Entity)
    OBVIOUS
  <2> QED
    BY <2>1, <2>2
<1>6. \A r \in Fine, x \in Entity : SetDeactivating(r, x, "none") \in Fine
  BY SetDeactivatingGood
<1>7. DeactivateAll(q, s) \in Fine
  BY <1>3, <1>5, <1>6, SetDeactivatingFold
<1>8. Open(p, e) \in {p, DeactivateAll(q, s)}
  BY <1>2, <1>4 DEF Open, DeactivateAll
<1> QED
  BY <1>7, <1>8

(* Editors are torn down when their fields are inactive.                   *)
LEMMA CloseGood ==
  ASSUME NEW p \in Fine, NEW e \in Entity, \A f \in ToSet(FieldsOf[e]) : p.field[f] = "inactive"
  PROVE  Close(p, e) \in Fine
<1> DEFINE F == ToSet(FieldsOf[e])
           S == {q \in Fine : \A f \in F : q.field[f] = "inactive"}
<1>1. p \in Page
  BY DEF Fine, Good
<1>2. PICK q : q = [p EXCEPT !.isActive = @ \ {e}, !.inTempStore = @ \ {e}, !.isDirty = @ \ {e}]
  OBVIOUS
<1>3. q \in Fine /\ q.field = p.field
  <2>1. q \in Page
    BY <1>1, <1>2 DEF Page
  <2>2. Same(p, q)
    BY <1>1, <1>2 DEF Page, Same, Shown
  <2> QED
    BY <2>1, <2>2, SameGood DEF Fine, Same, Shown
<1>4. ASSUME NEW r \in S, NEW f \in F
      PROVE  TeardownEditor(r, f) \in S
  <2>1. f \in Field /\ r \in Fine
    BY FieldsAre
  <2>2. r.field[f] \notin Unsaved
    BY DEF Unsaved
  <2>3. TeardownEditor(r, f) \in Fine /\ TeardownEditor(r, f).field = r.field
    BY <2>1, <2>2, TeardownGood DEF Fine
  <2> QED
    BY <2>3
<1>5. q \in S
  BY <1>3
<1>6. FieldsOf[e] \in Seq(F)
  BY FieldsAre
<1> HIDE DEF F, S
<1>7. TeardownAll(q, FieldsOf[e]) \in S
  BY <1>4, <1>5, <1>6, TeardownFold
<1>8. Close(p, e) = TeardownAll(q, FieldsOf[e])
  BY <1>2 DEF Close, TeardownAll
<1> QED
  BY <1>7, <1>8 DEF S

LEMMA LaunchGood ==
  ASSUME NEW p \in Fine, NEW e \in Entity
  PROVE  Launch(p, e) \in Fine
<1>1. p \in Page
  BY DEF Fine, Good
<1>2. PICK q : q = [p EXCEPT !.reloadPage = FALSE]
  OBVIOUS
<1>3. q \in Fine
  <2>1. q \in Page
    BY <1>1, <1>2 DEF Page
  <2>2. Same(p, q)
    BY <1>1, <1>2 DEF Page, Same, Shown
  <2> QED
    BY <2>1, <2>2, SameGood DEF Fine
<1>4. \A r \in Fine, f \in Field : SetupEditor(r, f) \in Fine
  BY SetupGood DEF Fine
<1>5. PICK m : m = SetupAll(q, FieldsOf[e])
  OBVIOUS
<1>6. m \in Fine
  BY <1>3, <1>4, <1>5, FieldsAre, SetupFold
<1>7. Launch(p, e) = Defer(m, EntityTask(e, "opening", {}))
  BY <1>2, <1>5 DEF Launch, SetupAll
<1> QED
  BY <1>6, <1>7, TaskIs, DeferGood DEF Fine

(* Fields that are ready can all be stopped.                               *)
LEMMA ToInactiveGood ==
  ASSUME NEW p \in Fine, NEW e \in Entity, \A f \in ToSet(FieldsOf[e]) : p.field[f] \in Ready
  PROVE  SetEach(p, FieldsOf[e], "inactive", "stop") \in Fine
<1> DEFINE F == ToSet(FieldsOf[e])
           S == {q \in Fine : \A f \in F : q.field[f] # "saving"}
<1>1. ASSUME NEW q \in S, NEW f \in F
      PROVE  SetField(q, f, "inactive", "stop") \in S
  <2>1. q \in Fine /\ q.field \in [Field -> FieldState] /\ f \in Field /\ F \subseteq Field
    BY FieldsAre DEF Fine, Good, Page
  <2>2. "inactive" \in FieldState /\ "inactive" \notin Active
    BY DEF FieldState, Active
  <2>3. MaySet(q, f, "inactive", "stop")
    BY DEF MaySet, Unsaved
  <2>4. PICK r : r = SetField(q, f, "inactive", "stop")
    OBVIOUS
  <2>5. r \in Fine /\ r.field \in {q.field, [q.field EXCEPT ![f] = "inactive"]}
    BY <2>1, <2>2, <2>3, <2>4, SetFieldGood
  <2>6. \A x \in F : r.field[x] # "saving"
    BY <2>1, <2>5
  <2> QED
    BY <2>4, <2>5, <2>6
<1>2. p \in S
  BY DEF Ready
<1>3. FieldsOf[e] \in Seq(F)
  BY FieldsAre
<1> HIDE DEF F, S
<1>4. SetEach(p, FieldsOf[e], "inactive", "stop") \in S
  BY <1>1, <1>2, <1>3, SetFieldFold
<1> QED
  BY <1>4 DEF S

(* The states of its fields that an entity asks for before it closes.      *)
MayMove(p, e, to) ==
  /\ to = "closing" => \A f \in ToSet(FieldsOf[e]) : p.field[f] \in Ready
  /\ to = "closed" => \A f \in ToSet(FieldsOf[e]) : p.field[f] = "inactive"

LEMMA EnterEntityGood ==
  ASSUME NEW p \in Fine, NEW e \in Entity, NEW to \in EntityState, NEW why, MayMove(p, e, to)
  PROVE  EnterEntity(p, e, to, why) \in Fine
<1>1. PICK q : q = [p EXCEPT !.entity[e] = to]
  OBVIOUS
<1>2. q \in Fine /\ q.field = p.field
  BY <1>1, EntityGood DEF Same, Shown
<1>3. CASE to = "closed"
  <2>1. EnterEntity(p, e, to, why) = Close(q, e)
    BY <1>1, <1>3 DEF EnterEntity
  <2>2. \A f \in ToSet(FieldsOf[e]) : q.field[f] = "inactive"
    BY <1>2, <1>3 DEF MayMove
  <2> QED
    BY <1>2, <2>1, <2>2, CloseGood
<1>4. CASE to = "launching"
  <2>1. EnterEntity(p, e, to, why) = Launch(q, e)
    BY <1>1, <1>4 DEF EnterEntity
  <2> QED
    BY <1>2, <2>1, LaunchGood
<1>5. CASE to = "opening"
  <2>1. EnterEntity(p, e, to, why) = SetEach(q, FieldsOf[e], "candidate", "none")
    BY <1>1, <1>5 DEF EnterEntity
  <2> QED
    BY <1>2, <2>1, FieldsAre, ToCandidateGood
<1>6. CASE to = "opened"
  <2>1. EnterEntity(p, e, to, why) = Open(q, e)
    BY <1>1, <1>6 DEF EnterEntity
  <2> QED
    BY <1>2, <2>1, OpenGood
<1>7. CASE to = "committing"
  <2>1. EnterEntity(p, e, to, why) = Commit(q, e)
    BY <1>1, <1>7 DEF EnterEntity
  <2> QED
    BY <1>2, <2>1, CommitGood
<1>8. CASE to = "deactivating"
  <2>1. EnterEntity(p, e, to, why) = Deactivate(q, e, why)
    BY <1>1, <1>8 DEF EnterEntity
  <2> QED
    BY <1>2, <2>1, DeactivateGood
<1>9. CASE to = "closing"
  <2>1. EnterEntity(p, e, to, why) = SetEach(q, FieldsOf[e], "inactive", "stop")
    BY <1>1, <1>9 DEF EnterEntity
  <2>2. \A f \in ToSet(FieldsOf[e]) : q.field[f] \in Ready
    BY <1>2, <1>9 DEF MayMove
  <2> QED
    BY <1>2, <2>1, <2>2, ToInactiveGood
<1> QED
  BY <1>3, <1>4, <1>5, <1>6, <1>7, <1>8, <1>9 DEF EntityState

LEMMA SetEntityGood ==
  ASSUME NEW p \in Fine, NEW e \in Entity, NEW to \in EntityState, NEW why, NEW ready,
         to = "closing" => ready = Ready, to = "closed" => ready = {"inactive"}
  PROVE  SetEntity(p, e, to, why, ready) \in Fine
<1>1. CASE p.entity[e] # to /\ AcceptsState(p, e, to, why, ready) /\ AcceptsSet(p, e)
  <2>1. SetEntity(p, e, to, why, ready) = EnterEntity(p, e, to, why)
    BY <1>1 DEF SetEntity
  <2>2. ready = {} \/ FieldsIn(p, e, ready) = ToSet(FieldsOf[e])
    BY <1>1 DEF AcceptsState
  <2>3. MayMove(p, e, to)
    BY <2>2 DEF MayMove, FieldsIn, Ready
  <2> QED
    BY <2>1, <2>3, EnterEntityGood
<1>2. CASE ~(p.entity[e] # to /\ AcceptsState(p, e, to, why, ready) /\ AcceptsSet(p, e))
  BY <1>2 DEF SetEntity
<1> QED
  BY <1>1, <1>2

-----------------------------------------------------------------------------
(* The steps.                                                              *)

LEMMA FreshPageGood == FreshPage \in Fine
<1> DEFINE p == FreshPage
<1>1. <<>> \in Queues
  BY DEF Queues
<1>2. p \in Page
  BY <1>1 DEF FreshPage, Page, EntityState, FieldState
<1>3. /\ p.requests = {} /\ p.isCommitting = {} /\ p.thrown = {}
      /\ \A f \in Field : p.form[f] = "none" /\ p.field[f] = "inactive"
  BY DEF FreshPage
<1> HIDE DEF p
<1>4. FormsKept(p) /\ FormsThere(p) /\ Calm(p)
  BY <1>3 DEF FormsKept, FormsThere, Calm, Unsaved
<1>5. RequestsOK(p)
  BY <1>3, FS_EmptySet DEF RequestsOK
<1>6. SavesOK(p, {}) /\ CommitsOK(p)
  BY <1>3 DEF SavesOK, CommitsOK
<1> QED
  BY <1>2, <1>4, <1>5, <1>6 DEF Fine, Good, p

LEMMA NoneIsChecked == "none" \notin AlwaysAccepted /\ "mouseleave" \notin AlwaysAccepted
BY DEF AlwaysAccepted

LEMMA LinkGood ==
  ASSUME page \in Fine, NEW e \in Entity, QuickEditLink(e) \/ ClickSave(e) \/ ClickClose(e)
  PROVE  page' \in Fine
<1>1. \A to \in {"launching", "committing", "deactivating"} :
        SetEntity(page, e, to, "none", {}) \in Fine
  <2> SUFFICES ASSUME NEW to \in {"launching", "committing", "deactivating"}
               PROVE  SetEntity(page, e, to, "none", {}) \in Fine
    OBVIOUS
  <2>1. to \in EntityState /\ to # "closing" /\ to # "closed"
    BY DEF EntityState
  <2> QED
    BY <2>1, SetEntityGood
<1> QED
  BY <1>1 DEF QuickEditLink, ClickSave, ClickClose

LEMMA MouseGood ==
  ASSUME page \in Fine, NEW f \in Field, MouseEnter(f) \/ MouseLeave(f) \/ Click(f)
  PROVE  page' \in Fine
<1>1. /\ SetField(page, f, "highlighted", "none") \in Fine
      /\ SetField(page, f, "candidate", "mouseleave") \in Fine
      /\ SetField(page, f, "activating", "none") \in Fine
  BY NoneIsChecked, SetCandidateGood
<1> QED
  BY <1>1 DEF MouseEnter, MouseLeave, Click

(* A form is edited only when it was loaded: it is there to be saved.      *)
LEMMA TypeGood ==
  ASSUME page \in Fine, NEW f \in Field, Type(f)
  PROVE  page' \in Fine
<1>1. page \in Page
  BY DEF Fine, Good
<1>2. PICK q : q = [page EXCEPT !.typed = @ \union {f}]
  OBVIOUS
<1>3. q \in Fine /\ q.form = page.form
  <2>1. q \in Page
    BY <1>1, <1>2 DEF Page
  <2>2. Same(page, q)
    BY <1>1, <1>2 DEF Page, Same, Shown
  <2> QED
    BY <2>1, <2>2, SameGood DEF Fine, Same, Shown
<1>4. CASE page' = SetField(q, f, "activating", "none")
  <2>1. SetField(q, f, "activating", "none") \in Fine
    BY <1>3, NoneIsChecked, SetCandidateGood
  <2> QED
    BY <1>4, <2>1
<1>5. CASE page' = SetField(q, f, "changed", "none")
  <2>1. EditorOf[f] = "form" => q.form[f] # "none"
    BY <1>3 DEF Type, Editable
  <2>2. MaySet(q, f, "changed", "none") /\ "changed" \in FieldState
    BY <2>1, NoneIsChecked DEF MaySet, FieldState
  <2>3. SetField(q, f, "changed", "none") \in Fine
    BY <1>3, <2>2, SetFieldGood
  <2> QED
    BY <1>5, <2>3
<1> QED
  BY <1>2, <1>4, <1>5 DEF Type

LEMMA ModalGood ==
  ASSUME page \in Fine, ModalSave \/ ModalDiscard
  PROVE  page' \in Fine
<1>1. page \in Page
  BY DEF Fine, Good
<1>2. PICK e \in Entity : e = page.modal
  BY <1>1 DEF ModalSave, ModalDiscard, Page
<1>3. PICK q : q = [page EXCEPT !.modal = NoEntity]
  OBVIOUS
<1>4. q \in Fine
  <2>1. q \in Page
    BY <1>1, <1>3 DEF Page
  <2>2. Same(page, q)
    BY <1>1, <1>3 DEF Page, Same, Shown
  <2> QED
    BY <2>1, <2>2, SameGood DEF Fine
<1>5. /\ SetEntity(q, e, "committing", "confirmed", {}) \in Fine
      /\ SetEntity(q, e, "deactivating", "confirmed", {}) \in Fine
  <2>1. "committing" \in EntityState /\ "deactivating" \in EntityState
    BY DEF EntityState
  <2> QED
    BY <1>4, <2>1, SetEntityGood
<1>6. CASE ModalSave
  BY <1>2, <1>3, <1>5, <1>6 DEF ModalSave
<1>7. CASE ModalDiscard
  <2>1. PICK r : r = SetEntity(q, e, "deactivating", "confirmed", {})
    OBVIOUS
  <2>2. r \in Fine /\ r \in Page
    BY <1>5, <2>1 DEF Fine, Good
  <2>3. page' \in {r, [r EXCEPT !.reloadPage = TRUE],
                   [r EXCEPT !.reloadPage = TRUE, !.reload = @ \ {e}]}
    BY <1>2, <1>3, <1>7, <2>1 DEF ModalDiscard
  <2>4. [r EXCEPT !.reloadPage = TRUE] \in Page /\ Same(r, [r EXCEPT !.reloadPage = TRUE])
    BY <2>2 DEF Page, Same, Shown
  <2>5. /\ [r EXCEPT !.reloadPage = TRUE, !.reload = @ \ {e}] \in Page
        /\ Same(r, [r EXCEPT !.reloadPage = TRUE, !.reload = @ \ {e}])
    BY <2>2 DEF Page, Same, Shown
  <2>6. /\ [r EXCEPT !.reloadPage = TRUE] \in Fine
        /\ [r EXCEPT !.reloadPage = TRUE, !.reload = @ \ {e}] \in Fine
    BY <2>2, <2>4, <2>5, SameGood DEF Fine
  <2> QED
    BY <2>2, <2>3, <2>6
<1> QED
  BY <1>6, <1>7

(* A field is replaced when it was stopped, whatever it was doing.         *)
LEMMA ReplaceGood ==
  ASSUME NEW p \in Fine, NEW f \in Field
  PROVE  RenderField(SetField(p, f, "inactive", "rerender"), f) \in Fine
<1>1. PICK q : q = SetField(p, f, "inactive", "rerender")
  OBVIOUS
<1>2. q \in Good({f}) /\ q.field[f] = "inactive"
  <2>1. p \in Good({f}) /\ p.field \in [Field -> FieldState]
    BY FineIsGood DEF Fine, Good, Page
  <2>2. CASE p.field[f] = "inactive"
    BY <1>1, <2>1, <2>2 DEF SetField
  <2>3. CASE p.field[f] # "inactive"
    <3>1. q = EnterField(p, f, "inactive")
      BY <1>1, <2>3 DEF SetField, Accepts, AlwaysAccepted, HopsTo
    <3>2. MayEnter(p, {f}, f, "inactive") /\ "inactive" \in FieldState
      BY DEF MayEnter, Unsaved, FieldState
    <3>3. /\ EnterField(p, f, "inactive") \in Good({f})
          /\ EnterField(p, f, "inactive").field = [p.field EXCEPT ![f] = "inactive"]
      BY <2>1, <3>2, EnterFieldGood
    <3> QED
      BY <2>1, <3>1, <3>3
  <2> QED
    BY <2>2, <2>3
<1>3. RenderField(q, f) \in Fine
  BY <1>2, RenderFieldGood
<1> QED
  BY <1>1, <1>3

LEMMA EntityTaskGood ==
  ASSUME NEW p \in Fine, NEW t \in EntityTasks
  PROVE  Reloaded(SetEntity(p, t.e, t.to, "none", t.ready)) \in Fine
<1>1. t.e \in Entity /\ t.to \in EntityState /\ <<t.to, t.ready>> \in Ways
  BY DEF EntityTasks
<1>2. (t.to = "closing" => t.ready = Ready) /\ (t.to = "closed" => t.ready = {"inactive"})
  BY <1>1 DEF Ways
<1>3. PICK q : q = SetEntity(p, t.e, t.to, "none", t.ready)
  OBVIOUS
<1>4. q \in Fine
  BY <1>1, <1>2, <1>3, SetEntityGood
<1>5. Reloaded(q) \in {q, FreshPage}
  BY DEF Reloaded
<1> QED
  BY <1>3, <1>4, <1>5, FreshPageGood

LEMMA TaskGood ==
  ASSUME NEW p \in Fine, NEW x \in Field
  PROVE  /\ SetField(p, x, "active", "none") \in Fine
         /\ SetHtml(p, x) \in Fine
         /\ Defer(SetField(p, x, "candidate", "none"), Task("replace", x)) \in Fine
<1>1. SetField(p, x, "active", "none") \in Fine
  BY NoneIsChecked, SetCandidateGood
<1>2. PICK q : q = SetField(p, x, "candidate", "none")
  OBVIOUS
<1>3. q \in Fine
  BY <1>2, NoneIsChecked, SetCandidateGood
<1>4. Defer(q, Task("replace", x)) \in Fine
  BY <1>3, TaskIs, DeferGood DEF Fine
<1> QED
  BY <1>1, <1>2, <1>4, SetHtmlGood

LEMMA RunDeferredGood ==
  ASSUME page \in Fine, RunDeferred
  PROVE  page' \in Fine
<1>1. page \in Page /\ page.deferred \in Seq(Tasks) /\ page.deferred # <<>>
  BY DEF Fine, Good, Page, Queues, RunDeferred
<1>2. PICK t \in Tasks : t = Head(page.deferred)
  BY <1>1
<1>3. PICK d \in Queues : d = Tail(page.deferred)
  <2>1. Tail(page.deferred) \in Seq(Tasks)
    BY <1>1, HeadTailProperties
  <2> QED
    BY <2>1 DEF Queues
<1>4. PICK p : p = [page EXCEPT !.deferred = d]
  OBVIOUS
<1>5. p \in Fine
  <2>1. p \in Page
    BY <1>1, <1>4 DEF Page
  <2>2. Same(page, p)
    BY <1>1, <1>4 DEF Page, Same, Shown
  <2> QED
    BY <2>1, <2>2, SameGood DEF Fine
<1>6. page' =
        CASE t.do = "entity"  -> Reloaded(SetEntity(p, t.e, t.to, "none", t.ready))
          [] t.do = "field"   -> SetField(p, t.f, t.to, "none")
          [] t.do = "invalid" -> SetEntity(p, t.x, "opened", "invalid", {})
          [] t.do = "confirm" -> IF p.modal # NoEntity THEN p ELSE [p EXCEPT !.modal = t.x]
          [] t.do = "html"    -> SetHtml(p, t.x)
          [] t.do = "rerender" -> Defer(SetField(p, t.x, "candidate", "none"),
                                        Task("replace", t.x))
          [] t.do = "replace" -> RenderField(SetField(p, t.x, "inactive", "rerender"), t.x)
  BY <1>2, <1>3, <1>4 DEF RunDeferred, AskToConfirm
<1>7. CASE t \in EntityTasks
  <2>1. t.do = "entity"
    BY <1>7 DEF EntityTasks
  <2>2. page' = Reloaded(SetEntity(p, t.e, t.to, "none", t.ready))
    BY <1>6, <2>1
  <2> QED
    BY <1>5, <1>7, <2>2, EntityTaskGood
<1>8. CASE t \in [do : {"field"}, f : Field, to : {"active"}]
  <2>1. page' = SetField(p, t.f, "active", "none") /\ t.f \in Field
    BY <1>6, <1>8
  <2> QED
    BY <1>5, <2>1, TaskGood
<1>9. CASE t \in [do : {"invalid", "confirm"}, x : Entity]
  <2>1. CASE t.do = "invalid"
    <3>1. page' = SetEntity(p, t.x, "opened", "invalid", {}) /\ t.x \in Entity
      BY <1>6, <1>9, <2>1
    <3>2. "opened" \in EntityState
      BY DEF EntityState
    <3> QED
      BY <1>5, <3>1, <3>2, SetEntityGood
  <2>2. CASE t.do = "confirm"
    <3>1. page' \in {p, [p EXCEPT !.modal = t.x]} /\ t.x \in Entity
      BY <1>6, <1>9, <2>2
    <3>2. p \in Page
      BY <1>5 DEF Fine, Good
    <3>3. [p EXCEPT !.modal = t.x] \in Page /\ Same(p, [p EXCEPT !.modal = t.x])
      BY <3>1, <3>2 DEF Page, Same, Shown
    <3>4. [p EXCEPT !.modal = t.x] \in Fine
      BY <1>5, <3>3, SameGood DEF Fine
    <3> QED
      BY <1>5, <3>1, <3>4
  <2> QED
    BY <1>9, <2>1, <2>2
<1>10. CASE t \in [do : {"html", "rerender", "replace"}, x : Field]
  <2>1. t.x \in Field
    BY <1>10
  <2>2. CASE t.do = "html"
    <3>1. page' = SetHtml(p, t.x)
      BY <1>6, <2>2
    <3> QED
      BY <1>5, <2>1, <3>1, TaskGood
  <2>3. CASE t.do = "rerender"
    <3>1. page' = Defer(SetField(p, t.x, "candidate", "none"), Task("replace", t.x))
      BY <1>6, <2>3
    <3> QED
      BY <1>5, <2>1, <3>1, TaskGood
  <2>4. CASE t.do = "replace"
    <3>1. page' = RenderField(SetField(p, t.x, "inactive", "rerender"), t.x)
      BY <1>6, <2>4
    <3> QED
      BY <1>5, <2>1, <3>1, ReplaceGood
  <2> QED
    BY <1>10, <2>2, <2>3, <2>4
<1> QED
  BY <1>7, <1>8, <1>9, <1>10 DEF Tasks

(* What an answer about a field does to its model.                         *)
LEMMA FieldAnswerGood ==
  ASSUME page \in Fine, NEW r \in page.requests, r.kind # "entity"
  PROVE  /\ Answered(r) \in Fine /\ Shown(page, Answered(r)) /\ r.x \in Field
         /\ Saves(r) => Settled(Answered(r), r.x) /\ page.field[r.x] = "saving"
<1>1. page \in Good({}) /\ RequestsOK(page) /\ SavesOK(page, {})
  BY DEF Fine, Good
<1>2. r.x \in Field
  BY <1>1 DEF RequestsOK
<1>3. Saves(r) => page.field[r.x] = "saving"
  BY <1>1 DEF SavesOK
<1>4. PICK q : q = [page EXCEPT !.requests = @ \ {r}]
  OBVIOUS
<1>5. q \in Good({}) /\ Shown(page, q) /\ (Saves(r) => Settled(q, r.x))
  BY <1>1, <1>4, AnswerGood
<1>6. q = Answered(r)
  BY <1>4 DEF Answered
<1> QED
  BY <1>2, <1>3, <1>5, <1>6 DEF Fine

(* A form has been loaded.                                                 *)
LEMMA LoadedGood ==
  ASSUME NEW p \in Fine, NEW f \in Field, p.form[f] # "none"
  PROVE  [p EXCEPT !.form[f] = "loaded"] \in Fine
<1>1. PICK q : q = [p EXCEPT !.form[f] = "loaded"]
  OBVIOUS
<1>2. /\ p \in Page /\ RequestsOK(p) /\ SavesOK(p, {}) /\ CommitsOK(p) /\ FormsKept(p)
      /\ FormsThere(p) /\ Calm(p)
  BY DEF Fine, Good
<1>3. /\ q \in Page /\ q.field = p.field /\ q.editor = p.editor /\ q.thrown = p.thrown
      /\ q.requests = p.requests /\ q.isCommitting = p.isCommitting
      /\ q.form = [p.form EXCEPT ![f] = "loaded"]
      /\ p.form \in [Field -> {"none", "loading", "loaded"}]
  BY <1>1, <1>2 DEF Page
<1>4. FormsKept(q) /\ FormsThere(q) /\ Calm(q)
  BY <1>2, <1>3 DEF FormsKept, FormsThere, Calm
<1>5. RequestsOK(q) /\ SavesOK(q, {})
  BY <1>2, <1>3 DEF RequestsOK, SavesOK
<1>6. CommitsOK(q)
  BY <1>2, <1>3 DEF CommitsOK
<1> QED
  BY <1>1, <1>3, <1>4, <1>5, <1>6 DEF Fine, Good

(* A form goes where the request that asked for it left a place.           *)
LEMMA FormLoadedGood ==
  ASSUME page \in Fine, NEW r \in page.requests, FormLoaded(r)
  PROVE  page' \in Fine
<1>1. r.kind = "load" /\ RequestsOK(page) /\ FormsKept(page) /\ page.requests \subseteq Requests
  BY DEF FormLoaded, Fine, Good, Page
<1>2. PICK q : q = Answered(r)
  OBVIOUS
<1>3. q \in Fine /\ Shown(page, q) /\ r.x \in Field
  BY <1>1, <1>2, FieldAnswerGood
<1>4. CASE r.of = "destroyed"
  BY <1>2, <1>3, <1>4 DEF FormLoaded
<1>5. CASE r.of = "removed"
  <2>1. page' = SetField(q, r.x, "active", "none")
    BY <1>2, <1>5 DEF FormLoaded
  <2> QED
    BY <1>3, <2>1, TaskGood
<1>6. CASE r.of = "current"
  <2>1. PICK m : m = [q EXCEPT !.form[r.x] = "loaded"]
    OBVIOUS
  <2>2. page' = SetField(m, r.x, "active", "none")
    BY <1>2, <1>6, <2>1 DEF FormLoaded
  <2>3. q.form[r.x] # "none"
    BY <1>1, <1>3, <1>6 DEF RequestsOK, Shown
  <2>4. m \in Fine
    BY <1>3, <2>1, <2>3, LoadedGood
  <2> QED
    BY <1>3, <2>2, <2>4, TaskGood
<1>7. r.of \in {"current", "removed", "destroyed"}
  BY <1>1 DEF Requests
<1> QED
  BY <1>4, <1>5, <1>6, <1>7

(* The submission takes the place of the request for the form.             *)
LEMMA BackstageLoadedGood ==
  ASSUME page \in Fine, NEW r \in page.requests, BackstageLoaded(r)
  PROVE  page' \in Fine
<1>1. r.kind = "backstage"
  BY DEF BackstageLoaded
<1>2. PICK q : q = Answered(r)
  OBVIOUS
<1>3. q \in Fine /\ Shown(page, q) /\ r.x \in Field
      /\ (Saves(r) => Settled(q, r.x) /\ page.field[r.x] = "saving")
  BY <1>1, <1>2, FieldAnswerGood
<1>4. CASE r.of = "destroyed"
  BY <1>2, <1>3, <1>4 DEF BackstageLoaded
<1>5. CASE r.of # "destroyed"
  <2>1. PICK m : m = [q EXCEPT !.typed = @ \ {r.x}]
    OBVIOUS
  <2>2. page' = Send(m, "submit", r.x, FALSE)
    BY <1>2, <1>5, <2>1 DEF BackstageLoaded
  <2>3. q \in Page
    BY <1>3 DEF Fine, Good
  <2>4. m \in Page /\ Same(q, m)
    BY <2>1, <2>3 DEF Page, Same, Shown
  <2>5. m \in Fine
    BY <1>3, <2>4, SameGood DEF Fine
  <2>6. Settled(m, r.x) /\ m.field[r.x] = "saving"
    BY <1>1, <1>3, <1>5, <2>4 DEF Saves, Settled, Same, Shown
  <2>7. "submit" \in Kinds \ {"entity"}
    BY DEF Kinds
  <2>8. ASSUME NEW no \in BOOLEAN
        PROVE  Send(m, "submit", r.x, no) \in Fine
    BY <1>3, <2>5, <2>6, <2>7, SendGood DEF Fine
  <2> QED
    BY <2>2, <2>8
<1> QED
  BY <1>4, <1>5

LEMMA TextLoadedGood ==
  ASSUME page \in Fine, NEW r \in page.requests, TextLoaded(r)
  PROVE  page' \in Fine
<1>1. r.kind = "text"
  BY DEF TextLoaded
<1>2. PICK q : q = Answered(r)
  OBVIOUS
<1>3. q \in Fine /\ r.x \in Field
  BY <1>1, <1>2, FieldAnswerGood
<1>4. page' \in {q, SetField(q, r.x, "active", "none")}
  BY <1>2 DEF TextLoaded
<1> QED
  BY <1>3, <1>4, TaskGood

(* The one answer a field that is saving waits for.                        *)
LEMMA SubmissionGood ==
  ASSUME page \in Fine, NEW r \in page.requests, r.kind = "submit", r.of # "destroyed",
         NEW to \in {"saved", "invalid"}
  PROVE  SetField(Answered(r), r.x, to, "none") \in Fine
<1>1. PICK q : q = Answered(r)
  OBVIOUS
<1>2. q \in Fine /\ Shown(page, q) /\ r.x \in Field
      /\ (Saves(r) => Settled(q, r.x) /\ page.field[r.x] = "saving")
  BY <1>1, FieldAnswerGood
<1>3. Settled(q, r.x) /\ q.field[r.x] = "saving" /\ FormsThere(q)
  BY <1>2 DEF Saves, Shown, Fine, Good
<1>4. MaySet(q, r.x, to, "none") /\ to \in FieldState
  BY <1>2, <1>3, NoneIsChecked DEF MaySet, FormsThere, Unsaved, FieldState
<1>5. SetField(q, r.x, to, "none") \in Fine
  BY <1>2, <1>4, SetFieldGood
<1> QED
  BY <1>1, <1>5

LEMMA FieldSavedGood ==
  ASSUME page \in Fine, NEW r \in page.requests, FieldSaved(r) \/ FieldInvalid(r)
  PROVE  page' \in Fine
<1>1. r.kind = "submit"
  BY DEF FieldSaved, FieldInvalid
<1>2. Answered(r) \in Fine /\ r.x \in Field
  BY <1>1, FieldAnswerGood
<1>3. CASE r.of = "destroyed"
  BY <1>2, <1>3 DEF FieldSaved, FieldInvalid
<1>4. CASE r.of # "destroyed" /\ FieldInvalid(r)
  BY <1>1, <1>4, SubmissionGood DEF FieldInvalid
<1>5. CASE r.of # "destroyed" /\ FieldSaved(r)
  <2>1. PICK q : q = SetField(Answered(r), r.x, "saved", "none")
    OBVIOUS
  <2>2. q \in Fine
    BY <1>1, <1>5, <2>1, SubmissionGood
  <2>3. Defer(q, Task("html", r.x)) \in Fine /\ SetHtml(q, r.x) \in Fine
    BY <1>2, <2>2, TaskIs, DeferGood, SetHtmlGood DEF Fine
  <2>4. page' \in {Defer(q, Task("html", r.x)), SetHtml(q, r.x)}
    BY <1>5, <2>1 DEF FieldSaved
  <2> QED
    BY <2>3, <2>4
<1> QED
  BY <1>3, <1>4, <1>5

(* The answer to the save of an entity: the mutex is opened, and the one   *)
(* request that held it is gone.                                           *)
LEMMA EntityAnswerGood ==
  ASSUME page \in Fine, NEW r \in page.requests, r.kind = "entity", NEW q \in Page,
         Shown(page, q), q.requests = page.requests \ {r},
         q.isCommitting = page.isCommitting \ {r.x}
  PROVE  q \in Fine /\ r.x \in Entity
<1>1. page \in Good({}) /\ RequestsOK(page)
  BY DEF Fine, Good
<1>2. q \in Good({})
  BY <1>1, CommittedGood
<1> QED
  BY <1>1, <1>2 DEF Fine, RequestsOK

LEMMA EntitySavedGood ==
  ASSUME page \in Fine, NEW r \in page.requests, EntitySaved(r) \/ EntityNotSaved(r)
  PROVE  page' \in Fine
<1>1. page \in Page /\ r.kind = "entity" /\ RequestsOK(page)
  BY DEF Fine, Good, EntitySaved, EntityNotSaved
<1>2. PICK e \in Entity : e = r.x
  BY <1>1 DEF RequestsOK
<1>3. CASE EntitySaved(r)
  <2> DEFINE plain == [page EXCEPT !.requests = @ \ {r}, !.isCommitting = @ \ {e}]
             clear == [page EXCEPT !.requests = @ \ {r}, !.inTempStore = @ \ {e},
                                   !.owns = @ \union {e}, !.kept[e] = {},
                                   !.isCommitting = @ \ {e}]
  <2>1. /\ plain \in Page /\ Shown(page, plain) /\ plain.requests = page.requests \ {r}
        /\ plain.isCommitting = page.isCommitting \ {e}
    BY <1>1 DEF Page, Shown
  <2>2. /\ clear \in Page /\ Shown(page, clear) /\ clear.requests = page.requests \ {r}
        /\ clear.isCommitting = page.isCommitting \ {e}
    BY <1>1, ZenonT(60) DEF Page, Shown
  <2>3. page' \in {EnterEntity(plain, e, "deactivating", "saved"),
                   EnterEntity(clear, e, "deactivating", "saved")}
    <3>1. PICK c : c = IF ~AcceptsSet(page, e) THEN Answered(r)
                       ELSE [Answered(r) EXCEPT !.inTempStore = @ \ {e},
                                                !.owns = @ \union {e}, !.kept[e] = {}]
      OBVIOUS
    <3>2. page' = EnterEntity([c EXCEPT !.isCommitting = @ \ {e}], e, "deactivating", "saved")
      BY <1>2, <1>3, <3>1 DEF EntitySaved
    <3>3. [c EXCEPT !.isCommitting = @ \ {e}] \in {plain, clear}
      BY <1>1, <3>1 DEF Answered, Page
    <3> QED
      BY <3>2, <3>3
  <2> HIDE DEF plain, clear
  <2>4. plain \in Fine /\ clear \in Fine
    BY <1>1, <1>2, <2>1, <2>2, EntityAnswerGood
  <2>5. \A q \in Fine : EnterEntity(q, e, "deactivating", "saved") \in Fine
    <3>1. /\ "deactivating" \in EntityState
          /\ \A q \in Fine : MayMove(q, e, "deactivating")
      BY DEF EntityState, MayMove
    <3> QED
      BY <3>1, EnterEntityGood
  <2> QED
    BY <2>3, <2>4, <2>5
<1>4. CASE EntityNotSaved(r)
  <2>1. PICK q : q = [page EXCEPT !.requests = @ \ {r}, !.isCommitting = @ \ {e}]
    OBVIOUS
  <2>2. /\ q \in Page /\ Shown(page, q) /\ q.requests = page.requests \ {r}
        /\ q.isCommitting = page.isCommitting \ {e}
    BY <1>1, <2>1 DEF Page, Shown
  <2>3. q \in Fine
    BY <1>1, <1>2, <2>2, EntityAnswerGood
  <2>4. page' = SetEntity(q, e, "opened", "networkerror", {})
    BY <1>2, <1>4, <2>1 DEF EntityNotSaved, Answered
  <2>5. "opened" \in EntityState
    BY DEF EntityState
  <2> QED
    BY <2>3, <2>4, <2>5, SetEntityGood
<1> QED
  BY <1>3, <1>4

LEMMA FailureGood ==
  ASSUME page \in Fine, NEW r \in page.requests, FormNotLoaded(r) \/ AnswerLost(r)
  PROVE  page' \in Fine
<1>1. r.kind # "entity"
  BY DEF FormNotLoaded, AnswerLost
<1>2. PICK q : q = Answered(r)
  OBVIOUS
<1>3. q \in Fine
  BY <1>1, <1>2, FieldAnswerGood
<1>4. CASE page' = q
  BY <1>3, <1>4
<1>5. CASE /\ page.activeField \notin {NoField, Destroyed}
           /\ page' = SetField(q, page.activeField, "candidate", "none")
  <2>1. page.activeField \in Field
    BY <1>5 DEF Fine, Good, Page
  <2>2. SetField(q, page.activeField, "candidate", "none") \in Fine
    BY <1>3, <2>1, NoneIsChecked, SetCandidateGood
  <2> QED
    BY <1>5, <2>2
<1> QED
  BY <1>2, <1>4, <1>5 DEF FormNotLoaded, AnswerLost

-----------------------------------------------------------------------------
(* The inductive invariant: the page is fine, and the server has nothing   *)
(* but copies of the content and values of its fields.                     *)
Contents  == {ContentOf[e] : e \in Entity}
ServerOK  == /\ copied \in SUBSET Contents
             /\ held \in SUBSET {FieldOf[f] : f \in Field}
             /\ trouble \in Troubles
Inv == page \in Fine /\ ServerOK

LEMMA ContentIs ==
  ASSUME page \in Fine, NEW r \in page.requests
  PROVE  Content(r) \in Contents /\ (r.kind # "entity" => FieldOf[r.x] \in {FieldOf[f] : f \in Field})
<1>1. RequestsOK(page)
  BY DEF Fine, Good
<1>2. CASE r.kind = "entity"
  BY <1>1, <1>2 DEF RequestsOK, Content, Contents
<1>3. CASE r.kind # "entity"
  <2>1. r.x \in Field /\ EntityOf(r.x) \in Entity
    BY <1>1, <1>3, EntityOfIs DEF RequestsOK
  <2> QED
    BY <1>3, <2>1 DEF Content, Contents
<1> QED
  BY <1>2, <1>3

LEMMA AnswerServer ==
  ASSUME Inv, NEW r \in page.requests,
         Stored \/ LoadForm(r) \/ (Submit(r) /\ r.kind = "submit") \/ EntitySave(r)
  PROVE  ServerOK'
<1>1. Content(r) \in Contents /\ (r.kind # "entity" => FieldOf[r.x] \in {FieldOf[f] : f \in Field})
  BY ContentIs DEF Inv
<1>2. CASE Stored
  BY <1>2 DEF Stored, Inv, ServerOK, Contents
<1>3. CASE LoadForm(r)
  BY <1>1, <1>3 DEF LoadForm, Inv, ServerOK
<1>4. CASE Submit(r) /\ r.kind = "submit"
  BY <1>1, <1>4 DEF Submit, Inv, ServerOK
<1>5. CASE EntitySave(r)
  BY <1>5 DEF EntitySave, Inv, ServerOK
<1> QED
  BY <1>2, <1>3, <1>4, <1>5

LEMMA InitInv == Init => Inv
BY FreshPageGood DEF Init, Inv, ServerOK

LEMMA UserInv ==
  ASSUME Inv, User
  PROVE  Inv'
<1>1. Stored
  BY DEF User, QuickEditLink, ClickSave, ClickClose, MouseEnter, MouseLeave, Click, Type,
         ModalSave, ModalDiscard
<1>2. ServerOK'
  BY <1>1 DEF Stored, Inv, ServerOK
<1>3. page' \in Fine
  BY LinkGood, MouseGood, TypeGood, ModalGood DEF User, Inv
<1> QED
  BY <1>2, <1>3 DEF Inv, Fine

LEMMA RunDeferredInv ==
  ASSUME Inv, RunDeferred
  PROVE  Inv'
<1>1. Stored
  BY DEF RunDeferred
<1>2. ServerOK'
  BY <1>1 DEF Stored, Inv, ServerOK
<1> QED
  BY <1>2, RunDeferredGood DEF Inv, Fine

LEMMA AnswerInv ==
  ASSUME Inv, NEW r \in page.requests,
         \/ FormLoaded(r) \/ BackstageLoaded(r) \/ TextLoaded(r)
         \/ FieldSaved(r) \/ FieldInvalid(r)
         \/ EntitySaved(r) \/ EntityNotSaved(r)
         \/ FormNotLoaded(r) \/ AnswerLost(r)
  PROVE  Inv'
<1>1. page \in Fine
  BY DEF Inv
<1>2. page' \in Fine
  BY <1>1, FormLoadedGood, BackstageLoadedGood, TextLoadedGood, FieldSavedGood,
     EntitySavedGood, FailureGood
<1>3. Stored \/ LoadForm(r) \/ (Submit(r) /\ r.kind = "submit") \/ EntitySave(r)
  BY DEF FormLoaded, BackstageLoaded, TextLoaded, FieldSaved, FieldInvalid, EntitySaved,
         EntityNotSaved, FormNotLoaded, AnswerLost
<1>4. ServerOK'
  BY <1>3, AnswerServer
<1> QED
  BY <1>2, <1>4 DEF Inv, Fine

LEMMA NextInv == Inv /\ [Next]_vars => Inv'
<1> SUFFICES ASSUME Inv, [Next]_vars PROVE Inv'
  OBVIOUS
<1>1. CASE User
  BY <1>1, UserInv
<1>2. CASE RunDeferred
  BY <1>2, RunDeferredInv
<1>3. CASE Answer
  BY <1>3, AnswerInv DEF Answer
<1>4. CASE UNCHANGED vars
  BY <1>4 DEF vars, Inv, ServerOK, Contents, Fine
<1> QED
  BY <1>1, <1>2, <1>3, <1>4 DEF Next

LEMMA Invariance == Spec => []Inv
BY InitInv, NextInv, PTL DEF Spec

-----------------------------------------------------------------------------
(* The parts of the page and of the server always have their types, and a  *)
(* form is on the page only while its editor is set up, whatever the page  *)
(* shows, the user does and the server answers.                            *)
THEOREM TypeCorrect == Spec => []TypeOK
<1>1. Inv => TypeOK
  <2> SUFFICES ASSUME Inv PROVE TypeOK
    OBVIOUS
  <2>1. page \in Page /\ FormsKept(page) /\ RequestsOK(page) /\ ServerOK
    BY DEF Inv, Fine, Good
  <2>2. /\ page.entity \in [Entity -> ToSet(EntityStates)]
        /\ page.field \in [Field -> ToSet(FieldStates)]
        /\ page.isActive \union page.isDirty \union page.isCommitting \union page.inTempStore
             \union page.reload \union page.owns \subseteq Entity
        /\ page.reloadPage \in BOOLEAN
        /\ page.kept \in [Entity -> SUBSET Field]
    BY <2>1, StatesAre DEF Page
  <2>3. /\ page.sharedKept \union page.editor \union page.typed \subseteq Field
        /\ page.highlightedField \in Field \union {NoField, Destroyed}
        /\ page.activeField \in Field \union {NoField, Destroyed}
        /\ page.modal \in Entity \union {NoEntity}
        /\ page.form \in [Field -> {"none", "loading", "loaded"}]
    BY <2>1 DEF Page
  <2>4. \A f \in Field : page.form[f] # "none" => f \in page.editor /\ EditorOf[f] = "form"
    BY <2>1 DEF FormsKept
  <2>5. \A r \in page.requests :
          /\ r.kind \in {"load", "submit", "backstage", "text", "entity"}
          /\ r.x \in IF r.kind = "entity" THEN Entity ELSE Field
    <3>1. page.requests \subseteq Requests
      BY <2>1 DEF Page
    <3> QED
      BY <2>1, <3>1 DEF RequestsOK, Requests, Kinds
  <2>6. copied \subseteq {ContentOf[e] : e \in Entity} /\ held \subseteq {FieldOf[f] : f \in Field}
        /\ trouble \in Troubles
    BY <2>1 DEF ServerOK, Contents
  <2> QED
    BY <2>2, <2>3, <2>4, <2>5, <2>6 DEF TypeOK
<1> QED
  BY <1>1, Invariance, PTL

(* isCommitting is a mutex: exactly one request to save an entity is out   *)
(* while it is marked, none while it is not, for any number of entities,   *)
(* fields, impatient clicks and late answers.                              *)
THEOREM OneCommitAtATime == Spec => []OneCommit
<1>1. Inv => OneCommit
  <2> SUFFICES ASSUME Inv, NEW e \in Entity
               PROVE  Cardinality({r \in page.requests : r.kind = "entity" /\ r.x = e})
                        = IF e \in page.isCommitting THEN 1 ELSE 0
    BY DEF OneCommit
  <2> DEFINE R == {r \in page.requests : r.kind = "entity" /\ r.x = e}
  <2>1. CommitsOK(page)
    BY DEF Inv, Fine, Good
  <2>2. CASE e \in page.isCommitting
    <3>1. PICK r \in page.requests : SaveOf(r, e)
      BY <2>1, <2>2 DEF CommitsOK
    <3>2. R = {r}
      BY <2>1, <3>1 DEF CommitsOK, SaveOf
    <3> QED
      BY <2>2, <3>2, FS_Singleton
  <2>3. CASE e \notin page.isCommitting
    <3>1. R = {}
      BY <2>1, <2>3 DEF CommitsOK
    <3> QED
      BY <2>3, <3>1, FS_EmptySet
  <2> QED
    BY <2>2, <2>3
<1> QED
  BY <1>1, Invariance, PTL

(* At most one request is on its way that saves a field, and the field is  *)
(* saving as long as it is: an answer never comes to a field that has      *)
(* moved on, and no value is sent twice.                                   *)
OneSave ==
  /\ \A r \in page.requests : Saves(r) => page.field[r.x] = "saving"
  /\ \A r, s \in page.requests : Saves(r) /\ Saves(s) /\ r.x = s.x => r = s

(* So no answer to a save finds its field in a state other than saving.    *)
THEOREM OneSaveAtATime == Spec => []OneSave
<1>1. Inv => OneSave
  BY DEF Inv, Fine, Good, SavesOK, OneSave
<1> QED
  BY <1>1, Invariance, PTL

(* A form editor never saves a form that is not on the page.               *)
NoFormMissing == "no form" \notin page.thrown

(* The save of a hidden form finds the form, whatever was closed before.   *)
THEOREM FormsAreThere == Spec => []NoFormMissing
<1>1. Inv => NoFormMissing
  BY DEF Inv, Fine, Good, Calm, NoFormMissing
<1> QED
  BY <1>1, Invariance, PTL

(* FieldModel.destroy() and the save of a form never throw, on every page  *)
(* that shows each field in one view mode only.  On a page that shows one  *)
(* in several, an instance is rerendered whatever state it is in.          *)
THEOREM NothingIsThrown ==
  ASSUME \A f \in Field : OtherModes[f] = <<>>
  PROVE  Spec => []NothingThrown
<1>1. Inv => NothingThrown
  BY DEF Inv, Fine, Good, Calm, OneMode, NothingThrown
<1> QED
  BY <1>1, Invariance, PTL

-----------------------------------------------------------------------------
(* A page with one entity, a patient user and a server that answers.       *)
(*                                                                         *)
(* The rest is about the order of things: which callback or answer a field *)
(* waits for, and which callbacks are left in each state of the entity.    *)

OneEntity == Len(PageOrder) = 1 /\ Field # {}

It == PageOrder[1]

Still == {"inactive", "candidate", "highlighted"}
Busy  == {"saving", "saved"}

OfField(t) == t.do \in {"field", "html", "rerender", "replace"}
About(t)   == IF t.do = "field" THEN t.f ELSE t.x

(* What is deferred, and asked of the server, on behalf of field f, and    *)
(* what is deferred on behalf of the entity.                               *)
TasksOf(p, f)    == {t \in ToSet(p.deferred) : OfField(t) /\ About(t) = f}
RequestsOf(p, f) == {r \in p.requests : r.kind # "entity" /\ r.x = f}
Calls(p)         == {t \in ToSet(p.deferred) : ~OfField(t)}

Free(p, f) == TasksOf(p, f) = {} /\ RequestsOf(p, f) = {}

(* A field waits for exactly one callback or answer, and only in some      *)
(* states; but a field that was saved may still have to be replaced.       *)
WaitsForTask(p, f, do) ==
  RequestsOf(p, f) = {} /\ \E t \in Tasks : TasksOf(p, f) = {t} /\ t.do \in do

WaitsForAnswer(p, f, kinds) ==
  TasksOf(p, f) = {} /\ \E r \in Requests :
    RequestsOf(p, f) = {r} /\ r.of = "current" /\ r.kind \in kinds

Waits(p, f) ==
  /\ p.field[f] \in {"inactive", "active", "changed"} => Free(p, f)
  /\ p.field[f] \in Ready => Free(p, f) \/ WaitsForTask(p, f, {"replace"})
  /\ p.field[f] = "activating" =>
       \/ WaitsForTask(p, f, {"field"})
       \/ WaitsForAnswer(p, f, {"text"})
       \/ WaitsForAnswer(p, f, {"load"}) /\ EditorOf[f] = "form"
  /\ p.field[f] = "saving" =>
       \/ WaitsForAnswer(p, f, {"backstage"})
       \/ WaitsForAnswer(p, f, {"submit"}) /\ f \notin p.typed
  /\ p.field[f] = "saved" => WaitsForTask(p, f, {"html", "rerender"})

(* Only the active field is edited, and it is the one the application      *)
(* knows; a field that is at rest has no form and nothing typed into it.   *)
Sits(p, f) ==
  /\ p.field[f] # "invalid"
  /\ f \in p.typed => p.field[f] \in {"changed", "saving"}
  /\ p.field[f] \in Still => p.form[f] = "none" /\ p.activeField # f
  /\ p.field[f] \notin Still => f \in p.editor
  /\ p.field[f] \in Active \union {"changed"} => p.activeField = f

(* No field has two callbacks in the queue.                                *)
Once(d) ==
  \A i, j \in 1..Len(d) :
    OfField(d[i]) /\ OfField(d[j]) /\ About(d[i]) = About(d[j]) => i = j

Fits(p) ==
  /\ \A f \in Field : Sits(p, f) /\ Waits(p, f)
  /\ Once(p.deferred)
  /\ p.activeField # Destroyed

AllIn(p, S) == \A f \in Field : p.field[f] \in S

Goes(t, to) == t.do = "entity" /\ t.to = to

(* Nothing was changed since the entity was opened.                        *)
Clean(p) == It \notin p.isDirty /\ Kept(p, It) = {}

(* There is something to ask about before the entity is closed.            *)
Asks(p) == (\E f \in Field : p.field[f] = "changed") \/ Kept(p, It) # {}

Closed(p) ==
  /\ AllIn(p, {"inactive"}) /\ p.editor = {}
  /\ It \notin p.isDirty /\ It \notin p.isActive
  /\ \A t \in Calls(p) : Goes(t, "closing") \/ Goes(t, "closed")

Launching(p) ==
  /\ AllIn(p, {"inactive"}) /\ Clean(p)
  /\ p.deferred = <<EntityTask(It, "opening", {})>>

Opening(p) ==
  /\ AllIn(p, Ready) /\ Clean(p)
  /\ p.deferred # <<>>
  /\ \A t \in ToSet(p.deferred) : Goes(t, "opened")

(* An opened entity: fields that wait for their saves have been left for   *)
(* another one, which is active now, and the user who changed something    *)
(* has an active field.                                                    *)
Settles(p) ==
  /\ Clean(p) \/ p.activeField # NoField
  /\ \A f \in Field : p.field[f] \in Busy => p.activeField \notin {NoField, f}
  /\ It \in p.isDirty => Kept(p, It) # {} \/ \E f \in Field : p.field[f] \in {"changed", "saving"}

Opened(p) ==
  /\ \A f \in Field : p.field[f] # "inactive"
  /\ It \in p.isActive
  /\ \/ \A t \in Calls(p) : Goes(t, "opened")
     \/ p.deferred = <<Task("confirm", It)>> /\ p.requests = {} /\ Asks(p)
  /\ Settles(p)

Committing(p) ==
  /\ AllIn(p, Ready \union Busy)
  /\ It \in p.isActive /\ Calls(p) = {}
  /\ It \in p.isCommitting <=> AllIn(p, Ready)

(* The fields that still have to be replaced come before the entity is     *)
(* told to close.                                                          *)
Ordered(d) ==
  \A i, j \in 1..Len(d) : i < j /\ Goes(d[i], "closing") => Goes(d[j], "closing")

Deactivating(p) ==
  /\ AllIn(p, Ready) /\ It \in p.isActive
  /\ \A t \in Calls(p) : Goes(t, "closing")
  /\ Calls(p) # {} /\ Ordered(p.deferred)

Closing(p) ==
  /\ AllIn(p, {"inactive"})
  /\ \A t \in Calls(p) : Goes(t, "closing") \/ Goes(t, "closed")
  /\ \E t \in Calls(p) : Goes(t, "closed")

Phase(p) ==
  /\ p.entity[It] = "closed" => Closed(p)
  /\ p.entity[It] = "launching" => Launching(p)
  /\ p.entity[It] = "opening" => Opening(p)
  /\ p.entity[It] = "opened" => Opened(p)
  /\ p.entity[It] = "committing" => Committing(p)
  /\ p.entity[It] = "deactivating" => Deactivating(p)
  /\ p.entity[It] = "closing" => Closing(p)
  /\ p.entity[It] # "committing" => p.isCommitting = {}

(* The server has a copy of the content when values were sent to it.       *)
Copied(p, C) ==
  /\ p.entity[It] = "opened" /\ Kept(p, It) # {} => ContentOf[It] \in C
  /\ p.entity[It] = "committing" =>
       ContentOf[It] \in C \/ \E f \in Field : p.field[f] = "saving"

Asked(p) ==
  p.modal # NoEntity =>
    p.entity[It] = "opened" /\ p.deferred = <<>> /\ p.requests = {} /\ Asks(p)

Orderly(p, C) == Fits(p) /\ Phase(p) /\ Copied(p, C) /\ Asked(p)

-----------------------------------------------------------------------------
(* The one entity, the queue.                                              *)

LEMMA ItIs ==
  ASSUME OneEntity
  PROVE  /\ It \in Entity /\ Entity = {It} /\ ToSet(FieldsOf[It]) = Field
         /\ \A f \in Field : EntityOf(f) = It
<1>1. PageOrder \in Seq(Entity) /\ 1 \in 1..Len(PageOrder) /\ DOMAIN PageOrder = {1}
  BY PageAssumption DEF OneEntity
<1>2. Entity = {It}
  BY <1>1 DEF Entity, ToSet, It
<1>3. ToSet(FieldsOf[It]) = Field
  BY <1>2 DEF Field
<1> QED
  BY <1>2, EntityOfIs, <1>3

LEMMA AppendIs ==
  ASSUME NEW d \in Queues, NEW t \in Tasks
  PROVE  /\ Append(d, t) \in Queues /\ Append(d, t) # <<>>
         /\ ToSet(Append(d, t)) = ToSet(d) \union {t}
<1>1. /\ Len(d) \in Nat /\ Len(Append(d, t)) = Len(d) + 1 /\ Append(d, t)[Len(d) + 1] = t
      /\ \A i \in 1..Len(d) : Append(d, t)[i] = d[i]
      /\ DOMAIN Append(d, t) = 1..(Len(d) + 1) /\ DOMAIN d = 1..Len(d)
      /\ Append(d, t) \in Queues
  BY DEF Queues
<1>2. 1..(Len(d) + 1) = (1..Len(d)) \union {Len(d) + 1}
  BY <1>1
<1>3. ToSet(Append(d, t)) = ToSet(d) \union {t}
  BY <1>1, <1>2 DEF ToSet
<1> QED
  BY <1>1, <1>3 DEF Queues

LEMMA TailIs ==
  ASSUME NEW d \in Queues, d # <<>>
  PROVE  /\ Head(d) \in Tasks /\ Tail(d) \in Queues
         /\ ToSet(d) = {Head(d)} \union ToSet(Tail(d))
         /\ Len(Tail(d)) = Len(d) - 1 /\ Len(d) \in Nat \ {0} /\ Head(d) = d[1]
         /\ \A i \in 1..Len(Tail(d)) : Tail(d)[i] = d[i + 1]
<1>1. /\ Head(d) \in Tasks /\ Tail(d) \in Queues
      /\ Len(Tail(d)) = Len(d) - 1 /\ Len(d) \in Nat \ {0} /\ Head(d) = d[1]
      /\ \A i \in 1..Len(Tail(d)) : Tail(d)[i] = d[i + 1]
      /\ DOMAIN d = 1..Len(d) /\ DOMAIN Tail(d) = 1..(Len(d) - 1)
  BY DEF Queues
<1>2. ASSUME NEW x \in ToSet(d) PROVE x \in {Head(d)} \union ToSet(Tail(d))
  <2>1. PICK i \in 1..Len(d) : x = d[i]
    BY <1>1 DEF ToSet
  <2>2. CASE i = 1
    BY <1>1, <2>1, <2>2
  <2>3. CASE i # 1
    <3>1. i - 1 \in 1..(Len(d) - 1) /\ (i - 1) + 1 = i
      BY <1>1, <2>1, <2>3
    <3> QED
      BY <1>1, <2>1, <3>1 DEF ToSet
  <2> QED
    BY <2>2, <2>3
<1>3. ASSUME NEW x \in {Head(d)} \union ToSet(Tail(d)) PROVE x \in ToSet(d)
  <2>1. CASE x = Head(d)
    BY <1>1, <2>1 DEF ToSet
  <2>2. CASE x \in ToSet(Tail(d))
    <3>1. PICK i \in 1..(Len(d) - 1) : x = Tail(d)[i]
      BY <1>1, <2>2 DEF ToSet
    <3>2. i + 1 \in 1..Len(d)
      BY <1>1, <3>1
    <3> QED
      BY <1>1, <3>1, <3>2 DEF ToSet
  <2> QED
    BY <1>3, <2>1, <2>2
<1>4. ToSet(d) = {Head(d)} \union ToSet(Tail(d))
  BY <1>2, <1>3
<1> QED
  BY <1>1, <1>4

LEMMA ToSetElement ==
  ASSUME NEW d \in Queues
  PROVE  /\ \A i \in 1..Len(d) : d[i] \in ToSet(d) /\ d[i] \in Tasks
         /\ \A t \in ToSet(d) : t \in Tasks /\ \E i \in 1..Len(d) : t = d[i]
         /\ ToSet(d) = {} <=> d = <<>>
<1>1. Len(d) \in Nat /\ DOMAIN d = 1..Len(d) /\ (Len(d) = 0 <=> d = <<>>)
      /\ \A i \in 1..Len(d) : d[i] \in Tasks
  BY DEF Queues
<1>2. Len(d) # 0 => 1 \in 1..Len(d)
  BY <1>1
<1> QED
  BY <1>1, <1>2 DEF ToSet

(* A callback is deferred for an entity, or for a field that has none yet. *)
LEMMA OnceAppend ==
  ASSUME NEW d \in Queues, NEW t \in Tasks, Once(d),
         OfField(t) => \A u \in ToSet(d) : OfField(u) => About(u) # About(t)
  PROVE  Once(Append(d, t))
<1>1. /\ Len(d) \in Nat /\ Len(Append(d, t)) = Len(d) + 1 /\ Append(d, t)[Len(d) + 1] = t
      /\ \A i \in 1..Len(d) : Append(d, t)[i] = d[i]
  BY DEF Queues
<1>2. \A i \in 1..(Len(d) + 1) : i \in 1..Len(d) \/ i = Len(d) + 1
  BY <1>1
<1>3. \A i \in 1..Len(d) : d[i] \in ToSet(d)
  BY ToSetElement
<1> QED
  BY <1>1, <1>2, <1>3 DEF Once

LEMMA OnceTail ==
  ASSUME NEW d \in Queues, d # <<>>, Once(d)
  PROVE  /\ Once(Tail(d))
         /\ OfField(Head(d)) =>
              \A u \in ToSet(Tail(d)) : OfField(u) => About(u) # About(Head(d))
<1>1. /\ Tail(d) \in Queues
      /\ Len(Tail(d)) = Len(d) - 1 /\ Len(d) \in Nat \ {0} /\ Head(d) = d[1]
      /\ \A i \in 1..Len(Tail(d)) : Tail(d)[i] = d[i + 1]
  BY TailIs
<1>2. \A i \in 1..(Len(d) - 1) : i + 1 \in 1..Len(d) /\ i + 1 # 1
  BY <1>1
<1>3. 1 \in 1..Len(d)
  BY <1>1
<1>4. Once(Tail(d))
  <2> SUFFICES ASSUME NEW i \in 1..Len(Tail(d)), NEW j \in 1..Len(Tail(d)),
                      OfField(Tail(d)[i]), OfField(Tail(d)[j]),
                      About(Tail(d)[i]) = About(Tail(d)[j])
               PROVE  i = j
    BY DEF Once
  <2>1. i + 1 = j + 1
    BY <1>1, <1>2 DEF Once
  <2> QED
    BY <1>1, <2>1
<1>5. ASSUME OfField(Head(d)), NEW u \in ToSet(Tail(d)), OfField(u)
      PROVE  About(u) # About(Head(d))
  <2>1. PICK i \in 1..Len(Tail(d)) : u = Tail(d)[i]
    BY <1>1, ToSetElement
  <2> QED
    BY <1>1, <1>2, <1>3, <1>5, <2>1 DEF Once
<1> QED
  BY <1>4, <1>5

LEMMA OrderedAppend ==
  ASSUME NEW d \in Queues, NEW t \in Tasks, Ordered(d), Goes(t, "closing")
  PROVE  Ordered(Append(d, t))
<1>1. /\ Len(d) \in Nat /\ Len(Append(d, t)) = Len(d) + 1 /\ Append(d, t)[Len(d) + 1] = t
      /\ \A i \in 1..Len(d) : Append(d, t)[i] = d[i]
  BY DEF Queues
<1>2. \A i \in 1..(Len(d) + 1) : i \in 1..Len(d) \/ i = Len(d) + 1
  BY <1>1
<1>3. \A j \in 1..(Len(d) + 1) : ~(Len(d) + 1 < j)
  BY <1>1
<1> QED
  BY <1>1, <1>2, <1>3 DEF Ordered

LEMMA OrderedTail ==
  ASSUME NEW d \in Queues, d # <<>>, Ordered(d)
  PROVE  /\ Ordered(Tail(d))
         /\ Goes(Head(d), "closing") => \A u \in ToSet(Tail(d)) : Goes(u, "closing")
<1>1. /\ Tail(d) \in Queues
      /\ Len(Tail(d)) = Len(d) - 1 /\ Len(d) \in Nat \ {0} /\ Head(d) = d[1]
      /\ \A i \in 1..Len(Tail(d)) : Tail(d)[i] = d[i + 1]
  BY TailIs
<1>2. \A i \in 1..(Len(d) - 1) : i + 1 \in 1..Len(d) /\ 1 < i + 1
  BY <1>1
<1>3. 1 \in 1..Len(d)
  BY <1>1
<1>4. Ordered(Tail(d))
  <2> SUFFICES ASSUME NEW i \in 1..Len(Tail(d)), NEW j \in 1..Len(Tail(d)),
                      i < j, Goes(Tail(d)[i], "closing")
               PROVE  Goes(Tail(d)[j], "closing")
    BY DEF Ordered
  <2>1. i + 1 < j + 1
    BY <1>1
  <2> QED
    BY <1>1, <1>2, <2>1 DEF Ordered
<1>5. ASSUME Goes(Head(d), "closing"), NEW u \in ToSet(Tail(d)) PROVE Goes(u, "closing")
  <2>1. PICK i \in 1..Len(Tail(d)) : u = Tail(d)[i]
    BY <1>1, ToSetElement
  <2> QED
    BY <1>1, <1>2, <1>3, <1>5, <2>1 DEF Ordered
<1> QED
  BY <1>4, <1>5

-----------------------------------------------------------------------------
(* What the listeners of a field do, one after the other.                  *)

(* The fields other than f, with what they wait for, stay as they are.     *)
Others(p, q, f) ==
  \A g \in Field \ {f} :
    /\ q.field[g] = p.field[g] /\ q.form[g] = p.form[g]
    /\ g \in q.typed <=> g \in p.typed
    /\ g \in q.editor <=> g \in p.editor
    /\ TasksOf(q, g) = TasksOf(p, g) /\ RequestsOf(q, g) = RequestsOf(p, g)

(* What no listener of a field touches, and what an entity remembers.      *)
Steady(p, q) ==
  /\ q.entity = p.entity /\ q.isActive = p.isActive /\ q.modal = p.modal
  /\ q.editor = p.editor /\ q.field = p.field

Remembers(p, q) ==
  /\ q.isDirty = p.isDirty /\ q.isCommitting = p.isCommitting
  /\ q.kept = p.kept /\ q.owns = p.owns /\ q.sharedKept = p.sharedKept

LEMMA OrphanNone ==
  ASSUME NEW p \in Page, NEW f \in Field, RequestsOf(p, f) = {}
  PROVE  OrphanLoads(p, f) = p.requests
<1>1. \A r \in p.requests : ~(r.kind = "load" /\ r.x = f /\ r.of = "current")
  BY DEF RequestsOf
<1> QED
  BY <1>1 DEF OrphanLoads

(* A callback or a request is added on behalf of f.                        *)
SameTasks(p, q, f) == \A g \in Field \ {f} : TasksOf(q, g) = TasksOf(p, g)

LEMMA TaskNews ==
  ASSUME NEW p \in Page, NEW q, NEW t \in Tasks, q.deferred = Append(p.deferred, t),
         OfField(t), TasksOf(p, About(t)) = {}, Once(p.deferred)
  PROVE  /\ Calls(q) = Calls(p) /\ Once(q.deferred)
         /\ TasksOf(q, About(t)) = {t} /\ SameTasks(p, q, About(t))
<1>1. p.deferred \in Queues
  BY DEF Page
<1>2. ToSet(q.deferred) = ToSet(p.deferred) \union {t}
  BY <1>1, AppendIs
<1>3. Once(q.deferred)
  <2>1. \A u \in ToSet(p.deferred) : OfField(u) => About(u) # About(t)
    BY DEF TasksOf
  <2> QED
    BY <1>1, <2>1, OnceAppend
<1> QED
  BY <1>2, <1>3 DEF Calls, TasksOf, SameTasks

LEMMA CallNews ==
  ASSUME NEW p \in Page, NEW q, NEW t \in Tasks, q.deferred = Append(p.deferred, t), ~OfField(t)
  PROVE  /\ q.deferred # <<>> /\ ToSet(q.deferred) = ToSet(p.deferred) \union {t}
         /\ Calls(q) = Calls(p) \union {t}
         /\ \A g \in Field : TasksOf(q, g) = TasksOf(p, g)
         /\ Once(p.deferred) => Once(q.deferred)
<1>1. p.deferred \in Queues
  BY DEF Page
<1>2. q.deferred # <<>> /\ ToSet(q.deferred) = ToSet(p.deferred) \union {t}
  BY <1>1, AppendIs
<1>3. Once(p.deferred) => Once(q.deferred)
  BY <1>1, OnceAppend
<1> QED
  BY <1>2, <1>3 DEF Calls, TasksOf

LEMMA SendNews ==
  ASSUME NEW p \in Page, IsFiniteSet(p.requests), NEW kind \in Kinds \ {"entity"}, NEW f \in Field,
         NEW reset \in BOOLEAN, RequestsOf(p, f) = {}
  PROVE  /\ Send(p, kind, f, reset) \in Page
         /\ Steady(p, Send(p, kind, f, reset)) /\ Remembers(p, Send(p, kind, f, reset))
         /\ Send(p, kind, f, reset).deferred = p.deferred
         /\ Send(p, kind, f, reset).form = p.form
         /\ Send(p, kind, f, reset).typed = p.typed
         /\ Send(p, kind, f, reset).activeField = p.activeField
         /\ \E r \in Requests : /\ r.kind = kind /\ r.of = "current"
                                /\ RequestsOf(Send(p, kind, f, reset), f) = {r}
         /\ \A g \in Field \ {f} : RequestsOf(Send(p, kind, f, reset), g) = RequestsOf(p, g)
<1>1. PICK r \in Requests :
        /\ r.kind = kind /\ r.x = f /\ r.of = "current"
        /\ Send(p, kind, f, reset) = [p EXCEPT !.requests = @ \union {r}]
  BY SendIs
<1>2. PICK R \in SUBSET Requests : R = p.requests \union {r}
  BY DEF Page
<1>3. PICK q : q = [p EXCEPT !.requests = R]
  OBVIOUS
<1>4. q \in Page /\ q.requests = R
  BY <1>3 DEF Page
<1>5. /\ Steady(p, q) /\ Remembers(p, q)
      /\ q.deferred = p.deferred /\ q.form = p.form /\ q.typed = p.typed
      /\ q.activeField = p.activeField
  BY <1>3 DEF Page, Steady, Remembers
<1>6. RequestsOf(q, f) = {r}
  BY <1>1, <1>2, <1>4 DEF RequestsOf
<1>7. \A g \in Field \ {f} : RequestsOf(q, g) = RequestsOf(p, g)
  BY <1>1, <1>2, <1>4 DEF RequestsOf
<1>8. Send(p, kind, f, reset) = q
  BY <1>1, <1>2, <1>3
<1> QED
  BY <1>1, <1>4, <1>5, <1>6, <1>7, <1>8

(* The editor of f, which waits for nothing: activating and saving begin   *)
(* something, the rest only takes the form away.                           *)
EditorReady(p, f, from) ==
  /\ p.field[f] \in {"activating", "saving"} => f \in p.editor
  /\ p.field[f] = "saving" /\ EditorOf[f] = "form" => p.form[f] # "none"
  /\ p.field[f] = "activating" => from # "invalid"
  /\ Free(p, f) /\ Once(p.deferred)

EditorDone(p, f, from, q) ==
  /\ Steady(p, q) /\ Remembers(p, q)
  /\ q.activeField = p.activeField
  /\ Others(p, q, f) /\ Calls(q) = Calls(p) /\ Once(q.deferred)
  /\ p.field[f] \notin {"activating", "saving"} =>
       q.deferred = p.deferred /\ q.requests = p.requests
  /\ p.field[f] \in {"activating", "saving"} => Waits(q, f)
  /\ p.field[f] = "saving" => q.deferred = p.deferred
  /\ p.field[f] \notin {"candidate", "saving"} => q.typed = p.typed
  /\ q.typed \subseteq p.typed
  /\ p.field[f] = "candidate" =>
       IF EditorOf[f] = "form" /\ f \in p.editor /\ from # "inactive"
       THEN f \notin q.typed /\ q.form[f] = "none" ELSE q.typed = p.typed /\ q.form = p.form
  /\ p.field[f] \notin {"candidate", "activating"} => q.form = p.form

LEMMA NothingDone ==
  ASSUME NEW p \in Page, NEW f \in Field, NEW from, EditorReady(p, f, from),
         p.field[f] \notin {"activating", "saving"},
         ~(p.field[f] = "candidate" /\ EditorOf[f] = "form" /\ f \in p.editor /\ from # "inactive")
  PROVE  EditorDone(p, f, from, p)
BY DEF EditorDone, Steady, Remembers, Others, EditorReady

LEMMA EditorNews ==
  ASSUME NEW p \in Page, IsFiniteSet(p.requests), NEW f \in Field, NEW from,
         EditorReady(p, f, from)
  PROVE  EditorDone(p, f, from, EditorStateChange(p, f, from))
<1> DEFINE q == EditorStateChange(p, f, from)
           to == p.field[f]
<1>1. TasksOf(p, f) = {} /\ RequestsOf(p, f) = {} /\ Once(p.deferred)
  BY DEF EditorReady, Free
<1>2. OrphanLoads(p, f) = p.requests
  BY <1>1, OrphanNone
<1>3. PICK reset \in BOOLEAN : reset = Reset(p, f)
  BY DEF Reset
<1>4. CASE f \notin p.editor
  <2>1. q = p
    BY <1>4 DEF EditorStateChange, FormStateChange, TextStateChange
  <2>2. to \notin {"activating", "saving"}
    BY <1>4 DEF EditorReady
  <2> HIDE DEF q, to
  <2> QED
    BY <1>4, <2>1, <2>2, NothingDone DEF q, to
<1>5. CASE f \in p.editor /\ EditorOf[f] = "form"
  <2>1. CASE to = "candidate" /\ from # "inactive"
    <3>1. q = RemoveForm(p, f)
      BY <1>5, <2>1 DEF EditorStateChange, FormStateChange, TextStateChange
    <3>2. q = [p EXCEPT !.form[f] = "none", !.typed = p.typed \ {f}, !.requests = p.requests]
      BY <1>2, <3>1 DEF RemoveForm
    <3>3. /\ q.field = p.field /\ q.deferred = p.deferred /\ q.requests = p.requests
          /\ q.form = [p.form EXCEPT ![f] = "none"] /\ q.typed = p.typed \ {f}
          /\ q.activeField = p.activeField
      BY <3>2 DEF Page
    <3>4. Steady(p, q) /\ Remembers(p, q)
      BY <3>2 DEF Page, Steady, Remembers
    <3>5. p.form \in [Field -> {"none", "loading", "loaded"}]
      BY DEF Page
    <3> HIDE DEF q
    <3>6. Others(p, q, f) /\ Calls(q) = Calls(p) /\ Once(q.deferred)
      BY <1>1, <3>3, <3>4, <3>5 DEF Others, Calls, TasksOf, RequestsOf, Steady
    <3> QED
      BY <1>5, <2>1, <3>3, <3>4, <3>5, <3>6 DEF EditorDone, q
  <2>2. CASE to = "activating" /\ from # "invalid"
    <3> DEFINE m == [p EXCEPT !.form[f] = "loading"]
    <3>1. m = [p EXCEPT !.form[f] = "loading", !.requests = p.requests]
      BY DEF Page
    <3>2. q = Send(m, "load", f, reset)
      BY <1>2, <1>3, <1>5, <2>2, <3>1 DEF EditorStateChange, FormStateChange, TextStateChange
    <3>3. /\ m \in Page /\ m.requests = p.requests /\ m.deferred = p.deferred
          /\ m.form = [p.form EXCEPT ![f] = "loading"] /\ m.typed = p.typed
          /\ m.activeField = p.activeField
      BY DEF Page
    <3>4. Steady(p, m) /\ Remembers(p, m)
      BY DEF Page, Steady, Remembers
    <3>5. p.form \in [Field -> {"none", "loading", "loaded"}]
      BY DEF Page
    <3> HIDE DEF q, m
    <3>6. "load" \in Kinds \ {"entity"} /\ RequestsOf(m, f) = {}
      BY <1>1, <3>3 DEF Kinds, RequestsOf
    <3>7. PICK x : x = Send(m, "load", f, reset)
      OBVIOUS
    <3>8. /\ Steady(m, x) /\ Remembers(m, x) /\ x.deferred = m.deferred /\ x.form = m.form
          /\ x.typed = m.typed /\ x.activeField = m.activeField
          /\ \E r \in Requests : r.kind = "load" /\ r.of = "current" /\ RequestsOf(x, f) = {r}
          /\ \A g \in Field \ {f} : RequestsOf(x, g) = RequestsOf(m, g)
      BY <3>3, <3>6, <3>7, SendNews
    <3>9. Others(p, x, f) /\ Calls(x) = Calls(p) /\ Once(x.deferred)
      <4>1. \A g \in Field : TasksOf(x, g) = TasksOf(p, g) /\ RequestsOf(m, g) = RequestsOf(p, g)
        BY <3>3, <3>8 DEF TasksOf, RequestsOf
      <4> QED
        BY <1>1, <3>3, <3>4, <3>5, <3>8, <4>1 DEF Others, Calls, Steady
    <3>10. Waits(x, f)
      <4>1. TasksOf(x, f) = {} /\ x.field[f] = "activating"
        BY <1>1, <2>2, <3>3, <3>4, <3>8 DEF TasksOf, Steady, to
      <4> QED
        BY <1>5, <3>8, <4>1 DEF Waits, WaitsForAnswer, Ready
    <3>11. Steady(p, x) /\ Remembers(p, x)
      BY <3>4, <3>8 DEF Steady, Remembers
    <3> QED
      BY <2>2, <3>2, <3>3, <3>7, <3>8, <3>9, <3>10, <3>11 DEF EditorDone, q
  <2>3. CASE to = "saving"
    <3> DEFINE m == [p EXCEPT !.typed = p.typed \ {f}]
    <3>1. q = Send(m, "submit", f, FALSE)
      BY <1>5, <2>3 DEF EditorStateChange, FormStateChange, TextStateChange, EditorReady
    <3>2. /\ m \in Page /\ m.requests = p.requests /\ m.deferred = p.deferred
          /\ m.form = p.form /\ m.typed = p.typed \ {f}
          /\ m.activeField = p.activeField
      BY DEF Page
    <3>3. Steady(p, m) /\ Remembers(p, m)
      BY DEF Page, Steady, Remembers
    <3> HIDE DEF q, m
    <3>4. "submit" \in Kinds \ {"entity"} /\ RequestsOf(m, f) = {}
      BY <1>1, <3>2 DEF Kinds, RequestsOf
    <3>5. ASSUME NEW no \in BOOLEAN
          PROVE  EditorDone(p, f, from, Send(m, "submit", f, no))
      <4>1. PICK x : x = Send(m, "submit", f, no)
        OBVIOUS
      <4>2. /\ Steady(m, x) /\ Remembers(m, x) /\ x.deferred = m.deferred /\ x.form = m.form
            /\ x.typed = m.typed /\ x.activeField = m.activeField
            /\ \E r \in Requests : r.kind = "submit" /\ r.of = "current" /\ RequestsOf(x, f) = {r}
            /\ \A g \in Field \ {f} : RequestsOf(x, g) = RequestsOf(m, g)
        BY <3>2, <3>4, <4>1, SendNews
      <4>3. \A g \in Field : TasksOf(x, g) = TasksOf(p, g) /\ RequestsOf(m, g) = RequestsOf(p, g)
        BY <3>2, <4>2 DEF TasksOf, RequestsOf
      <4>4. Others(p, x, f) /\ Calls(x) = Calls(p) /\ Once(x.deferred)
        BY <1>1, <3>2, <3>3, <4>2, <4>3 DEF Others, Calls, Steady
      <4>5. TasksOf(x, f) = {} /\ x.field[f] = "saving" /\ f \notin x.typed
        BY <1>1, <2>3, <3>2, <3>3, <4>2, <4>3 DEF Steady, to
      <4>6. Waits(x, f)
        BY <4>2, <4>5 DEF Waits, WaitsForAnswer, Ready
      <4>7. Steady(p, x) /\ Remembers(p, x)
        BY <3>3, <4>2 DEF Steady, Remembers
      <4> QED
        BY <2>3, <3>2, <4>1, <4>2, <4>4, <4>6, <4>7 DEF EditorDone
    <3> QED
      BY <3>1, <3>5 DEF q
  <2>4. CASE /\ ~(to = "candidate" /\ from # "inactive")
             /\ to \notin {"activating", "saving"}
    <3>1. q = p
      BY <1>5, <2>4 DEF EditorStateChange, FormStateChange, TextStateChange
    <3> HIDE DEF q
    <3> QED
      BY <2>4, <3>1, NothingDone DEF q
  <2> QED
    BY <2>1, <2>2, <2>3, <2>4 DEF EditorReady
<1>6. CASE f \in p.editor /\ EditorOf[f] # "form"
  <2>1. CASE to = "activating" /\ EditorOf[f] = "plain"
    <3>1. PICK t \in Tasks : t = FieldTask(f, "active")
      BY TaskIs
    <3>2. q = [p EXCEPT !.deferred = Append(p.deferred, t)]
      BY <1>6, <2>1, <3>1 DEF EditorStateChange, FormStateChange, TextStateChange, Defer
    <3>3. /\ q.requests = p.requests /\ q.deferred = Append(p.deferred, t)
          /\ q.form = p.form /\ q.typed = p.typed /\ q.activeField = p.activeField
      BY <3>2 DEF Page
    <3>4. Steady(p, q) /\ Remembers(p, q)
      BY <3>2 DEF Page, Steady, Remembers
    <3> HIDE DEF q
    <3>5. OfField(t) /\ About(t) = f /\ t.do = "field"
      BY <3>1 DEF OfField, About, FieldTask
    <3>6. /\ Calls(q) = Calls(p) /\ Once(q.deferred) /\ TasksOf(q, f) = {t}
          /\ \A g \in Field \ {f} : TasksOf(q, g) = TasksOf(p, g)
      <4>1. TasksOf(p, About(t)) = {}
        BY <1>1, <3>5
      <4>2. PICK x : x = q
        OBVIOUS
      <4>3. x.deferred = Append(p.deferred, t)
        BY <3>3, <4>2
      <4>4. /\ Calls(x) = Calls(p) /\ Once(x.deferred) /\ TasksOf(x, About(t)) = {t}
            /\ SameTasks(p, x, About(t))
        BY <1>1, <3>5, <4>1, <4>3, TaskNews
      <4> QED
        BY <3>5, <4>2, <4>4 DEF SameTasks
    <3>7. \A g \in Field : RequestsOf(q, g) = RequestsOf(p, g)
      BY <3>3 DEF RequestsOf
    <3>8. Others(p, q, f)
      BY <3>3, <3>4, <3>6, <3>7 DEF Others, Steady
    <3>9. Waits(q, f)
      <4>1. RequestsOf(q, f) = {} /\ q.field[f] = "activating"
        BY <1>1, <2>1, <3>4, <3>7 DEF Steady
      <4> QED
        BY <3>1, <3>5, <3>6, <4>1 DEF Waits, WaitsForTask, Ready
    <3> QED
      BY <2>1, <3>3, <3>4, <3>6, <3>8, <3>9 DEF EditorDone, q
  <2>2. ASSUME NEW kind \in {"text", "backstage"}, NEW no \in BOOLEAN,
               kind = "text" => to = "activating", kind = "backstage" => to = "saving"
        PROVE  EditorDone(p, f, from, Send(p, kind, f, no))
    <3>1. kind \in Kinds \ {"entity"}
      BY DEF Kinds
    <3>2. PICK x : x = Send(p, kind, f, no)
      OBVIOUS
    <3>3. /\ Steady(p, x) /\ Remembers(p, x) /\ x.deferred = p.deferred /\ x.form = p.form
          /\ x.typed = p.typed /\ x.activeField = p.activeField
          /\ \E r \in Requests : r.kind = kind /\ r.of = "current" /\ RequestsOf(x, f) = {r}
          /\ \A g \in Field \ {f} : RequestsOf(x, g) = RequestsOf(p, g)
      BY <1>1, <3>1, <3>2, SendNews
    <3>4. \A g \in Field : TasksOf(x, g) = TasksOf(p, g)
      BY <3>3 DEF TasksOf
    <3>5. Others(p, x, f) /\ Calls(x) = Calls(p) /\ Once(x.deferred)
      BY <1>1, <3>3, <3>4 DEF Others, Calls, Steady
    <3>6. x.field[f] = to /\ TasksOf(x, f) = {}
      BY <1>1, <3>3, <3>4 DEF Steady
    <3>7. Waits(x, f)
      BY <2>2, <3>3, <3>6 DEF Waits, WaitsForAnswer, Ready
    <3> QED
      BY <2>2, <3>2, <3>3, <3>5, <3>7 DEF EditorDone
  <2>3. CASE to = "activating" /\ EditorOf[f] = "filtered"
    <3>1. q = Send(p, "text", f, FALSE)
      BY <1>6, <2>3 DEF EditorStateChange, FormStateChange, TextStateChange
    <3> HIDE DEF q
    <3> QED
      BY <2>2, <2>3, <3>1 DEF q
  <2>4. CASE to = "saving"
    <3>1. q = Send(p, "backstage", f, reset)
      BY <1>3, <1>6, <2>4 DEF EditorStateChange, FormStateChange, TextStateChange
    <3> HIDE DEF q
    <3> QED
      BY <2>2, <2>4, <3>1 DEF q
  <2>5. CASE to \notin {"activating", "saving"}
    <3>1. q = p
      BY <1>6, <2>5 DEF EditorStateChange, FormStateChange, TextStateChange
    <3> HIDE DEF q
    <3> QED
      BY <1>6, <2>5, <3>1, NothingDone DEF q
  <2>6. EditorOf[f] \in {"plain", "filtered"}
    BY <1>6, PageAssumption
  <2> QED
    BY <2>1, <2>3, <2>4, <2>5, <2>6
<1> QED
  BY <1>4, <1>5, <1>6

(* What all fields wait for stays as it is.                                *)
SameWaits(p, q) ==
  \A g \in Field : TasksOf(q, g) = TasksOf(p, g) /\ RequestsOf(q, g) = RequestsOf(p, g)

LEMMA ReadyIs ==
  ASSUME OneEntity, NEW p \in Page, NEW S
  PROVE  FieldsIn(p, It, S) = ToSet(FieldsOf[It]) <=> AllIn(p, S)
BY ItIs DEF FieldsIn, AllIn

(* What is not kept of an entity.                                          *)
Untouched(p, q) ==
  /\ q.form = p.form /\ q.typed = p.typed /\ q.activeField = p.activeField
  /\ q.deferred = p.deferred /\ q.requests = p.requests
  /\ q.isDirty = p.isDirty /\ q.isCommitting = p.isCommitting

LEMMA OwnNews ==
  ASSUME OneEntity, NEW p \in Page,
         NEW q, q = [p EXCEPT !.inTempStore = @ \union {It}, !.kept[It] = Kept(p, It),
                              !.owns = @ \union {It}]
  PROVE  q \in Page /\ Kept(q, It) = Kept(p, It) /\ Steady(p, q) /\ Untouched(p, q)
<1>1. It \in Entity
  BY ItIs
<1>2. Kept(p, It) \in SUBSET Field
  BY <1>1, KeptIs
<1>3. [p.kept EXCEPT ![It] = Kept(p, It)] \in [Entity -> SUBSET Field]
  BY <1>1, <1>2 DEF Page
<1>4. p.owns \union {It} \in SUBSET Entity /\ p.inTempStore \union {It} \in SUBSET Entity
  BY <1>1 DEF Page
<1>5. q = [p EXCEPT !.inTempStore = p.inTempStore \union {It},
                    !.kept = [p.kept EXCEPT ![It] = Kept(p, It)], !.owns = p.owns \union {It}]
  OBVIOUS
<1>6. q \in Page
  BY <1>3, <1>4, <1>5, ZenonT(60) DEF Page
<1>7. It \in q.owns /\ q.kept = [p.kept EXCEPT ![It] = Kept(p, It)]
  <2>1. q.owns = p.owns \union {It}
    BY <1>5 DEF Page
  <2>2. q.kept = [p.kept EXCEPT ![It] = Kept(p, It)]
    BY <1>3, <1>5 DEF Page
  <2> QED
    BY <2>1, <2>2
<1>8. q.kept[It] = Kept(p, It)
  BY <1>1, <1>7 DEF Page
<1>9. Kept(q, It) = Kept(p, It)
  BY <1>7, <1>8 DEF Kept
<1>10. Steady(p, q)
  BY <1>5 DEF Page, Steady
<1>11. Untouched(p, q)
  BY <1>5 DEF Page, Untouched
<1> QED
  BY <1>2, <1>6, <1>9, <1>10, <1>11

LEMMA UpdateNews ==
  ASSUME OneEntity, NEW p \in Page, NEW f \in Field, p.field[f] = "saved",
         NEW q, q = UpdateInTempStoreAttributes(p, It, f)
  PROVE  /\ q \in Page /\ Steady(p, q) /\ q.form = p.form /\ q.typed = p.typed
         /\ q.activeField = p.activeField /\ q.deferred = p.deferred
         /\ q.requests = p.requests /\ q.isDirty = p.isDirty
         /\ q.isCommitting = p.isCommitting /\ Kept(q, It) = Kept(p, It) \union {f}
<1> DEFINE m == IF It \in p.owns THEN [p EXCEPT !.kept[It] = @ \union {f}]
                ELSE [p EXCEPT !.sharedKept = @ \union {f}]
<1>1. It \in Entity
  BY ItIs
<1>2. /\ m \in Page /\ Steady(p, m) /\ m.form = p.form /\ m.typed = p.typed
      /\ m.activeField = p.activeField /\ m.deferred = p.deferred
      /\ m.requests = p.requests /\ m.isDirty = p.isDirty /\ m.owns = p.owns
      /\ m.isCommitting = p.isCommitting /\ Kept(m, It) = Kept(p, It) \union {f}
  <2>1. CASE It \in p.owns
    <3>1. PICK k \in [Entity -> SUBSET Field] : k = [p.kept EXCEPT ![It] = @ \union {f}]
      BY <1>1 DEF Page
    <3>2. m = [p EXCEPT !.kept = k]
      BY <2>1, <3>1 DEF Page
    <3>3. k[It] = p.kept[It] \union {f}
      BY <1>1, <3>1 DEF Page
    <3>4. m \in Page
      BY <3>2 DEF Page
    <3> QED
      BY <2>1, <3>2, <3>3, <3>4 DEF Page, Steady, Kept
  <2>2. CASE It \notin p.owns
    <3>1. PICK k \in SUBSET Field : k = p.sharedKept \union {f}
      BY DEF Page
    <3>2. m = [p EXCEPT !.sharedKept = k]
      BY <2>2, <3>1 DEF Page
    <3>3. m \in Page
      BY <3>2, ZenonT(60) DEF Page
    <3> QED
      BY <2>2, <3>1, <3>2, <3>3 DEF Page, Steady, Kept
  <2> QED
    BY <2>1, <2>2
<1>3. q = IF ~AcceptsSet(m, It) THEN m
          ELSE [m EXCEPT !.inTempStore = @ \union {It}, !.kept[It] = Kept(m, It),
                         !.owns = @ \union {It}]
  <2>1. AcceptsSet(m, It) <=> AcceptsSet(p, It)
    BY <1>2 DEF AcceptsSet
  <2> QED
    BY <2>1 DEF UpdateInTempStoreAttributes
<1> HIDE DEF m
<1>4. CASE AcceptsSet(m, It)
  <2>1. PICK x : x = m
    OBVIOUS
  <2>2. x \in Page /\ q = [x EXCEPT !.inTempStore = @ \union {It}, !.kept[It] = Kept(x, It),
                                  !.owns = @ \union {It}]
    BY <1>2, <1>3, <1>4, <2>1
  <2>3. q \in Page /\ Kept(q, It) = Kept(x, It) /\ Steady(x, q) /\ Untouched(x, q)
    BY <2>2, OwnNews
  <2> QED
    BY <1>2, <2>1, <2>3 DEF Steady, Untouched
<1>5. CASE ~AcceptsSet(m, It)
  BY <1>2, <1>3, <1>5
<1> QED
  BY <1>4, <1>5

(* The entity is committed when all fields are ready, and only then.       *)
LEMMA TryCommitNews ==
  ASSUME OneEntity, NEW p \in Page, IsFiniteSet(p.requests), NEW q, q = TryCommit(p, It)
  PROVE  /\ q \in Page /\ Steady(p, q) /\ q.form = p.form /\ q.typed = p.typed
         /\ q.activeField = p.activeField /\ q.deferred = p.deferred
         /\ q.isDirty = p.isDirty /\ SameWaits(p, q)
         /\ It \in q.isCommitting <=> It \in p.isCommitting \/ AllIn(p, Ready)
<1>1. It \in Entity
  BY ItIs
<1>2. CASE AcceptsSet(p, It) /\ AllIn(p, Ready)
  <2>1. PICK c \in SUBSET Entity : c = p.isCommitting \union {It}
    BY <1>1 DEF Page
  <2> DEFINE m == [p EXCEPT !.isCommitting = c]
  <2>2. m = [p EXCEPT !.isCommitting = @ \union {It}]
    BY <2>1
  <2>3. q = Send(m, "entity", It, FALSE)
    BY <1>2, <2>2, ReadyIs DEF TryCommit
  <2>4. /\ m \in Page /\ Steady(p, m) /\ m.form = p.form /\ m.typed = p.typed
        /\ m.activeField = p.activeField /\ m.deferred = p.deferred
        /\ m.requests = p.requests /\ m.isDirty = p.isDirty /\ m.isCommitting = c
    BY DEF Page, Steady
  <2> HIDE DEF m
  <2>5. ASSUME NEW no \in BOOLEAN, NEW x, x = Send(m, "entity", It, no)
        PROVE  /\ x \in Page /\ Steady(m, x) /\ x.form = m.form /\ x.typed = m.typed
               /\ x.activeField = m.activeField /\ x.deferred = m.deferred
               /\ x.isDirty = m.isDirty /\ x.isCommitting = m.isCommitting
               /\ \E r \in Requests : r.kind = "entity" /\ x.requests = m.requests \union {r}
    <3>1. "entity" \in Kinds /\ It \in Field \union Entity
      BY <1>1 DEF Kinds
    <3>2. PICK r \in Requests : r.kind = "entity" /\ x = [m EXCEPT !.requests = @ \union {r}]
      BY <2>4, <2>5, <3>1, SendIs
    <3>3. PICK R \in SUBSET Requests : R = m.requests \union {r}
      BY <2>4, ZenonT(60) DEF Page
    <3>4. x = [m EXCEPT !.requests = R]
      BY <3>2, <3>3
    <3>5. x \in Page /\ x.requests = R
      BY <2>4, <3>4 DEF Page
    <3> QED
      BY <2>4, <3>2, <3>3, <3>4, <3>5 DEF Page, Steady
  <2>6. /\ q \in Page /\ Steady(m, q) /\ q.form = m.form /\ q.typed = m.typed
        /\ q.activeField = m.activeField /\ q.deferred = m.deferred
        /\ q.isDirty = m.isDirty /\ q.isCommitting = m.isCommitting
        /\ \E r \in Requests : r.kind = "entity" /\ q.requests = m.requests \union {r}
    BY <2>3, <2>5
  <2>7. SameWaits(p, q)
    BY <2>4, <2>6 DEF SameWaits, TasksOf, RequestsOf
  <2> QED
    BY <1>2, <2>1, <2>4, <2>6, <2>7 DEF Steady
<1>3. CASE ~(AcceptsSet(p, It) /\ AllIn(p, Ready))
  <2>1. q = p
    BY <1>3, ReadyIs DEF TryCommit
  <2> QED
    BY <1>3, <2>1 DEF Steady, SameWaits, AcceptsSet
<1> QED
  BY <1>2, <1>3

(* What the entity does when field f has come to its present state.        *)
EntityDone(p, f, q) ==
  /\ Steady(p, q) /\ q.form = p.form /\ q.typed = p.typed /\ q.activeField = p.activeField
  /\ SameWaits(p, q) /\ Once(q.deferred)
  /\ p.entity[It] = "opening" =>
       Remembers(p, q) /\ q.deferred = Append(p.deferred, EntityTask(It, "opened", Ready))
  /\ p.entity[It] = "deactivating" =>
       Remembers(p, q) /\ q.deferred = Append(p.deferred, EntityTask(It, "closing", Ready))
  /\ p.entity[It] = "closing" =>
       Remembers(p, q) /\ q.deferred = Append(p.deferred, EntityTask(It, "closed", {"inactive"}))
  /\ p.entity[It] = "opened" =>
       /\ q.deferred = p.deferred /\ q.requests = p.requests /\ q.isCommitting = p.isCommitting
       /\ p.field[f] \notin {"changed", "saved"} => Remembers(p, q)
       /\ p.field[f] = "changed" =>
            /\ Kept(q, It) = Kept(p, It)
            /\ q.isDirty = IF It \in p.isCommitting THEN p.isDirty ELSE p.isDirty \union {It}
       /\ p.field[f] = "saved" =>
            q.isDirty = p.isDirty /\ Kept(q, It) = Kept(p, It) \union {f}
  /\ p.entity[It] = "committing" =>
       /\ q.deferred = p.deferred /\ q.isDirty = p.isDirty
       /\ It \in q.isCommitting <=> It \in p.isCommitting \/ AllIn(p, Ready)

LEMMA CallDone ==
  ASSUME OneEntity, NEW p \in Page, NEW f \in Field, Once(p.deferred), NEW t \in EntityTasks,
         NEW q, q = Defer(p, t)
  PROVE  /\ Steady(p, q) /\ Remembers(p, q) /\ q.form = p.form /\ q.typed = p.typed
         /\ q.activeField = p.activeField /\ q.deferred = Append(p.deferred, t)
         /\ SameWaits(p, q) /\ Once(q.deferred)
<1>1. q = [p EXCEPT !.deferred = Append(p.deferred, t)]
  BY DEF Defer
<1>2. /\ Steady(p, q) /\ Remembers(p, q) /\ q.form = p.form /\ q.typed = p.typed
      /\ q.activeField = p.activeField /\ q.deferred = Append(p.deferred, t)
      /\ q.requests = p.requests
  BY <1>1 DEF Page, Steady, Remembers
<1>3. t \in Tasks /\ ~OfField(t)
  BY DEF EntityTasks, Tasks, OfField
<1>4. p.deferred \in Queues
  BY DEF Page
<1>5. ToSet(q.deferred) = ToSet(p.deferred) \union {t}
  BY <1>2, <1>3, <1>4, AppendIs
<1>6. Once(q.deferred)
  BY <1>2, <1>3, <1>4, OnceAppend
<1>7. SameWaits(p, q)
  BY <1>2, <1>3, <1>5 DEF SameWaits, TasksOf, RequestsOf
<1> QED
  BY <1>2, <1>6, <1>7

LEMMA CallsAre ==
  ASSUME OneEntity
  PROVE  /\ EntityTask(It, "opened", Ready) \in EntityTasks
         /\ EntityTask(It, "closing", Ready) \in EntityTasks
         /\ EntityTask(It, "closed", {"inactive"}) \in EntityTasks
         /\ EntityTask(It, "opening", {}) \in EntityTasks
<1>1. It \in Entity
  BY ItIs
<1>2. Ready \subseteq FieldState /\ {"inactive"} \subseteq FieldState /\ {} \subseteq FieldState
  BY DEF Ready, FieldState
<1> QED
  BY <1>1, <1>2 DEF EntityTasks, EntityTask, EntityState, Ways

LEMMA EntityNews ==
  ASSUME OneEntity, NEW p \in Page, IsFiniteSet(p.requests), NEW f \in Field, Once(p.deferred),
         p.field[f] # "invalid",
         NEW q, q = FieldStateChange(p, It, f)
  PROVE  EntityDone(p, f, q)
<1>1. It \in Entity
  BY ItIs
<1>2. CASE p.entity[It] = "opening"
  <2>1. q = Defer(p, EntityTask(It, "opened", Ready))
    BY <1>2 DEF FieldStateChange
  <2> QED
    BY <1>2, <2>1, CallDone, CallsAre DEF EntityDone
<1>3. CASE p.entity[It] = "deactivating"
  <2>1. q = Defer(p, EntityTask(It, "closing", Ready))
    BY <1>3 DEF FieldStateChange
  <2> QED
    BY <1>3, <2>1, CallDone, CallsAre DEF EntityDone
<1>4. CASE p.entity[It] = "closing"
  <2>1. q = Defer(p, EntityTask(It, "closed", {"inactive"}))
    BY <1>4 DEF FieldStateChange
  <2> QED
    BY <1>4, <2>1, CallDone, CallsAre DEF EntityDone
<1>5. CASE p.entity[It] = "opened"
  <2>1. CASE p.field[f] = "changed"
    <3>1. q = IF AcceptsSet(p, It) THEN [p EXCEPT !.isDirty = @ \union {It}] ELSE p
      BY <1>5, <2>1 DEF FieldStateChange
    <3>2. /\ Steady(p, q) /\ q.form = p.form /\ q.typed = p.typed
          /\ q.activeField = p.activeField /\ q.deferred = p.deferred
          /\ q.requests = p.requests /\ q.isCommitting = p.isCommitting
          /\ q.kept = p.kept /\ q.owns = p.owns /\ q.sharedKept = p.sharedKept
          /\ q.isDirty = IF It \in p.isCommitting THEN p.isDirty ELSE p.isDirty \union {It}
      BY <3>1, ZenonT(60) DEF Page, Steady, AcceptsSet
    <3>3. SameWaits(p, q) /\ Kept(q, It) = Kept(p, It)
      BY <3>2 DEF SameWaits, TasksOf, RequestsOf, Kept
    <3> QED
      BY <1>5, <2>1, <3>2, <3>3 DEF EntityDone
  <2>2. CASE p.field[f] = "saved"
    <3>1. q = UpdateInTempStoreAttributes(p, It, f)
      BY <1>5, <2>2 DEF FieldStateChange
    <3>2. /\ Steady(p, q) /\ q.form = p.form /\ q.typed = p.typed
          /\ q.activeField = p.activeField /\ q.deferred = p.deferred
          /\ q.requests = p.requests /\ q.isDirty = p.isDirty
          /\ q.isCommitting = p.isCommitting /\ Kept(q, It) = Kept(p, It) \union {f}
      BY <2>2, <3>1, UpdateNews
    <3>3. SameWaits(p, q)
      BY <3>2 DEF SameWaits, TasksOf, RequestsOf
    <3> QED
      BY <1>5, <2>2, <3>2, <3>3 DEF EntityDone
  <2>3. CASE p.field[f] \notin {"changed", "saved"}
    <3>1. q = p
      BY <1>5, <2>3 DEF FieldStateChange, UpdateInTempStoreAttributes
    <3> QED
      BY <1>5, <2>3, <3>1 DEF EntityDone, Steady, Remembers, SameWaits
  <2> QED
    BY <2>1, <2>2, <2>3
<1>6. CASE p.entity[It] = "committing"
  <2>1. PICK m : m = UpdateInTempStoreAttributes(p, It, f)
    OBVIOUS
  <2>2. q = TryCommit(m, It)
    BY <1>6, <2>1 DEF FieldStateChange
  <2>3. /\ m \in Page /\ Steady(p, m) /\ m.form = p.form /\ m.typed = p.typed
        /\ m.activeField = p.activeField /\ m.deferred = p.deferred
        /\ m.requests = p.requests /\ m.isDirty = p.isDirty
        /\ m.isCommitting = p.isCommitting
    <3>1. CASE p.field[f] = "saved"
      BY <2>1, <3>1, UpdateNews
    <3>2. CASE p.field[f] # "saved"
      BY <2>1, <3>2 DEF UpdateInTempStoreAttributes, Steady
    <3> QED
      BY <3>1, <3>2
  <2>4. /\ Steady(m, q) /\ q.form = m.form /\ q.typed = m.typed
        /\ q.activeField = m.activeField /\ q.deferred = m.deferred
        /\ q.isDirty = m.isDirty /\ SameWaits(m, q)
        /\ It \in q.isCommitting <=> It \in m.isCommitting \/ AllIn(m, Ready)
    <3>1. IsFiniteSet(m.requests)
      BY <2>3
    <3> QED
      BY <2>2, <2>3, <3>1, TryCommitNews
  <2>5. SameWaits(p, q)
    BY <2>3, <2>4 DEF SameWaits, TasksOf, RequestsOf
  <2>6. AllIn(m, Ready) <=> AllIn(p, Ready)
    BY <2>3 DEF AllIn, Steady
  <2> QED
    BY <1>6, <2>3, <2>4, <2>5, <2>6 DEF EntityDone, Steady
<1>7. CASE p.entity[It] \notin {"opening", "opened", "committing", "deactivating", "closing"}
  <2>1. q = p
    BY <1>7 DEF FieldStateChange
  <2> QED
    BY <1>7, <2>1 DEF EntityDone, Steady, SameWaits
<1> QED
  BY <1>2, <1>3, <1>4, <1>5, <1>6, <1>7

(* The application keeps track of the active field, and reverts a field    *)
(* that is left with changes.                                              *)
TrackDone(p, q, f, from) ==
  /\ Steady(p, q) /\ Remembers(p, q)
  /\ q.form = p.form /\ q.deferred = p.deferred /\ q.requests = p.requests
  /\ q.activeField = IF p.field[f] \in Active THEN f
                     ELSE IF p.field[f] = "candidate" /\ p.activeField = f THEN NoField
                     ELSE p.activeField
  /\ q.typed = IF /\ p.field[f] = "candidate" /\ p.activeField = f
                  /\ from \in {"changed", "invalid"}
               THEN p.typed \ {f} ELSE p.typed

LEMMA TrackNews ==
  ASSUME NEW p \in Page, NEW f \in Field, NEW from
  PROVE  TrackDone(p, TrackField(p, f, from), f, from)
<1>1. PICK h : h = CASE p.field[f] \in Single -> f
                     [] p.highlightedField = f /\ p.field[f] = "candidate" -> NoField
                     [] OTHER -> p.highlightedField
  OBVIOUS
<1>2. CASE p.activeField = f /\ p.field[f] = "candidate"
  <2>1. PICK T : T = IF from \in {"changed", "invalid"} THEN p.typed \ {f} ELSE p.typed
    OBVIOUS
  <2>2. PICK q : q = [p EXCEPT !.highlightedField = h, !.activeField = NoField, !.typed = T]
    OBVIOUS
  <2>3. TrackField(p, f, from) = q
    BY <1>1, <1>2, <2>1, <2>2 DEF TrackField
  <2>4. Steady(p, q) /\ Remembers(p, q)
    BY <2>2 DEF Page, Steady, Remembers
  <2>5. /\ q.form = p.form /\ q.deferred = p.deferred /\ q.requests = p.requests
        /\ q.activeField = NoField /\ q.typed = T
    BY <2>2 DEF Page
  <2>6. p.field[f] \notin Active
    BY <1>2 DEF Active
  <2> QED
    BY <1>2, <2>1, <2>3, <2>4, <2>5, <2>6 DEF TrackDone
<1>3. CASE ~(p.activeField = f /\ p.field[f] = "candidate")
  <2>1. PICK a : a = IF p.field[f] \in Active THEN f ELSE p.activeField
    OBVIOUS
  <2>2. PICK q : q = [p EXCEPT !.highlightedField = h, !.activeField = a]
    OBVIOUS
  <2>3. TrackField(p, f, from) = q
    BY <1>1, <1>3, <2>1, <2>2 DEF TrackField
  <2>4. Steady(p, q) /\ Remembers(p, q)
    BY <2>2 DEF Page, Steady, Remembers
  <2>5. /\ q.form = p.form /\ q.deferred = p.deferred /\ q.requests = p.requests
        /\ q.activeField = a /\ q.typed = p.typed
    BY <2>2 DEF Page
  <2> QED
    BY <1>3, <2>1, <2>3, <2>4, <2>5 DEF TrackDone
<1> QED
  BY <1>2, <1>3

(* A field that waits goes on waiting while nothing of it changes.         *)
LEMMA WaitsOn ==
  ASSUME NEW p, NEW q, NEW f \in Field, Waits(p, f), q.field[f] = p.field[f],
         TasksOf(q, f) = TasksOf(p, f), RequestsOf(q, f) = RequestsOf(p, f),
         f \in q.typed => f \in p.typed
  PROVE  Waits(q, f)
BY DEF Waits, WaitsForTask, WaitsForAnswer, Free

(* Field f has come to state "to": what became of it, and of nothing else. *)
Moved(p, q, f, to) ==
  /\ q.field = [p.field EXCEPT ![f] = to]
  /\ q.entity = p.entity /\ q.isActive = p.isActive /\ q.modal = p.modal /\ q.editor = p.editor
  /\ Others(p, q, f) /\ Once(q.deferred)
  /\ IF to \in {"activating", "saving"} THEN Waits(q, f) ELSE Free(q, f)
  /\ q.activeField = IF to \in Active THEN f
                     ELSE IF to = "candidate" /\ p.activeField = f THEN NoField ELSE p.activeField
  /\ q.typed \subseteq p.typed
  /\ to = "candidate" /\ p.activeField = f /\ p.field[f] = "changed" => f \notin q.typed
  /\ to \in Still /\ p.form[f] = "none" => q.form[f] = "none"
  /\ to = "candidate" /\ p.field[f] # "inactive" /\ f \in p.editor => q.form[f] = "none"

(* What the entity was told, by its state.                                 *)
Told(p, q, f, to) ==
  /\ p.entity[It] = "opening" =>
       Remembers(p, q) /\ q.deferred = Append(p.deferred, EntityTask(It, "opened", Ready))
  /\ p.entity[It] = "deactivating" =>
       Remembers(p, q) /\ q.deferred = Append(p.deferred, EntityTask(It, "closing", Ready))
  /\ p.entity[It] = "closing" =>
       Remembers(p, q) /\ q.deferred = Append(p.deferred, EntityTask(It, "closed", {"inactive"}))
  /\ p.entity[It] = "opened" =>
       /\ Calls(q) = Calls(p) /\ q.isCommitting = p.isCommitting
       /\ to \notin {"changed", "saved"} => Remembers(p, q)
       /\ to = "changed" =>
            /\ Kept(q, It) = Kept(p, It)
            /\ q.isDirty = IF It \in p.isCommitting THEN p.isDirty ELSE p.isDirty \union {It}
       /\ to = "saved" => q.isDirty = p.isDirty /\ Kept(q, It) = Kept(p, It) \union {f}
  /\ p.entity[It] = "committing" =>
       /\ Calls(q) = Calls(p)
       /\ It \in q.isCommitting <=> It \in p.isCommitting \/ AllIn(q, Ready)

(* A field enters a state in which it has the editor and form it needs,    *)
(* when it waits for nothing.                                              *)
Able(p, f, to) ==
  /\ to \in FieldState \ {"invalid"}
  /\ to \in {"activating", "saving"} => f \in p.editor
  /\ EditorOf[f] = "form" /\ to \in Unsaved => p.form[f] # "none"
  /\ p.field[f] # "invalid"
  /\ Free(p, f) /\ Once(p.deferred)

LEMMA StateNews ==
  ASSUME NEW p \in Page, NEW f \in Field, NEW to \in FieldState,
         NEW q, q = [p EXCEPT !.field[f] = to]
  PROVE  /\ q.entity = p.entity /\ q.isActive = p.isActive /\ q.modal = p.modal
         /\ q.editor = p.editor /\ q.form = p.form /\ q.typed = p.typed
         /\ q.activeField = p.activeField /\ q.deferred = p.deferred
         /\ q.requests = p.requests /\ Remembers(p, q)
BY DEF Page, Remembers

LEMMA AbleMayEnter ==
  ASSUME NEW p \in Fine, NEW f \in Field, NEW to, Able(p, f, to)
  PROVE  MayEnter(p, {}, f, to)
<1>1. RequestsOf(p, f) = {}
  BY DEF Able, Free
<1>2. Settled(p, f)
  BY <1>1 DEF Settled, Saves, RequestsOf
<1> QED
  BY <1>2 DEF Able, MayEnter

LEMMA EnterNews ==
  ASSUME OneEntity, NEW p \in Fine, NEW f \in Field, NEW to, Able(p, f, to),
         NEW q, q = EnterField(p, f, to)
  PROVE  /\ q \in Fine /\ Moved(p, q, f, to)
         /\ to # "activating" \/ p.entity[It] = "opened" => Told(p, q, f, to)
<1>1. to \in FieldState \ {"invalid"} /\ MayEnter(p, {}, f, to) /\ It \in Entity
  BY AbleMayEnter, ItIs DEF Able
<1>2. q \in Fine /\ q.field = [p.field EXCEPT ![f] = to]
  BY <1>1, EnterFieldGood DEF Fine
<1>3. PICK from : from = p.field[f]
  OBVIOUS
<1>4. PICK m \in Fine : /\ m = [p EXCEPT !.field[f] = to]
                        /\ m.field = [p.field EXCEPT ![f] = to] /\ m.field[f] = to
  BY <1>1, StateGood DEF Fine
<1>5. p \in Page /\ m \in Page /\ IsFiniteSet(m.requests)
  BY DEF Fine, Good, RequestsOK
<1>6. /\ m.entity = p.entity /\ m.isActive = p.isActive /\ m.modal = p.modal
      /\ m.editor = p.editor /\ m.form = p.form /\ m.typed = p.typed
      /\ m.activeField = p.activeField /\ m.deferred = p.deferred
      /\ m.requests = p.requests /\ Remembers(p, m)
  BY <1>1, <1>4, <1>5, StateNews
<1>7. EditorReady(m, f, from)
  <2>1. Free(m, f)
    BY <1>6 DEF Able, Free, TasksOf, RequestsOf
  <2> QED
    BY <1>3, <1>4, <1>6, <2>1 DEF Able, EditorReady, Unsaved
<1>8. PICK a : a = EditorStateChange(m, f, from)
  OBVIOUS
<1>9. a \in Fine /\ EditorDone(m, f, from, a)
  <2>1. m.field[f] = "saving" => Settled(m, f)
    BY <1>4, <1>6 DEF MayEnter, Settled, Able, Free, RequestsOf, Saves
  <2>2. EditorStateChange(m, f, from) \in Fine
    BY <2>1, EditorStateChangeGood DEF Fine
  <2>3. EditorDone(m, f, from, EditorStateChange(m, f, from))
    BY <1>5, <1>7, EditorNews
  <2> QED
    BY <1>8, <2>2, <2>3
<1>10. PICK b : b = FieldStateChange(a, It, f)
  OBVIOUS
<1>11. b \in Fine /\ EntityDone(a, f, b)
  <2>1. a \in Page /\ IsFiniteSet(a.requests)
    BY <1>9 DEF Fine, Good, RequestsOK
  <2>2. a.field[f] = to /\ Once(a.deferred)
    BY <1>4, <1>9 DEF EditorDone, Steady
  <2>3. EntityDone(a, f, b)
    BY <1>1, <1>10, <2>1, <2>2, EntityNews
  <2>4. b \in Fine
    BY <1>1, <1>9, <1>10, FieldStateChangeGood DEF Fine
  <2> QED
    BY <2>3, <2>4
<1>12. q = TrackField(b, f, from)
  <2>1. EntityOf(f) = It
    BY ItIs
  <2> QED
    BY <1>3, <1>4, <1>8, <1>10, <2>1 DEF EnterField
<1>13. TrackDone(b, q, f, from)
  <2>1. b \in Page
    BY <1>11 DEF Fine, Good
  <2> QED
    BY <1>12, <2>1, TrackNews
<1> HIDE <1>4
<1>14. /\ a.field[f] = to /\ b.field[f] = to /\ b.activeField = p.activeField
       /\ a.form = b.form /\ a.typed = b.typed /\ q.form = a.form
  <2>1. m.field[f] = to
    BY <1>4
  <2> QED
    BY <1>6, <1>9, <1>11, <1>13, <2>1 DEF EditorDone, EntityDone, TrackDone, Steady
<1>15. /\ q.entity = p.entity /\ q.isActive = p.isActive /\ q.modal = p.modal
       /\ q.editor = p.editor /\ Once(q.deferred)
  BY <1>6, <1>9, <1>11, <1>13 DEF EditorDone, EntityDone, TrackDone, Steady
<1>16. q.activeField = IF to \in Active THEN f
                       ELSE IF to = "candidate" /\ p.activeField = f THEN NoField ELSE p.activeField
  BY <1>13, <1>14 DEF TrackDone
<1>17. q.typed \subseteq a.typed /\ a.typed \subseteq p.typed
  BY <1>6, <1>9, <1>13, <1>14 DEF EditorDone, TrackDone
<1>18. \A g \in Field : TasksOf(q, g) = TasksOf(a, g) /\ RequestsOf(q, g) = RequestsOf(a, g)
  BY <1>11, <1>13 DEF EntityDone, SameWaits, TrackDone, TasksOf, RequestsOf
<1>19. Others(p, q, f)
  <2> SUFFICES ASSUME NEW g \in Field \ {f}
               PROVE  /\ q.field[g] = p.field[g] /\ q.form[g] = p.form[g]
                      /\ g \in q.typed <=> g \in p.typed
                      /\ g \in q.editor <=> g \in p.editor
                      /\ TasksOf(q, g) = TasksOf(p, g) /\ RequestsOf(q, g) = RequestsOf(p, g)
    BY DEF Others
  <2>1. q.field[g] = p.field[g]
    BY <1>2, <1>5 DEF Page
  <2>2. /\ a.form[g] = p.form[g]
        /\ g \in a.typed <=> g \in p.typed
        /\ TasksOf(a, g) = TasksOf(m, g) /\ RequestsOf(a, g) = RequestsOf(m, g)
    BY <1>6, <1>9 DEF EditorDone, Others
  <2>3. TasksOf(m, g) = TasksOf(p, g) /\ RequestsOf(m, g) = RequestsOf(p, g)
    BY <1>6 DEF TasksOf, RequestsOf
  <2>4. g \in q.typed <=> g \in a.typed
    BY <1>13, <1>14 DEF TrackDone
  <2> QED
    BY <1>14, <1>15, <1>18, <2>1, <2>2, <2>3, <2>4
<1>20. IF to \in {"activating", "saving"} THEN Waits(q, f) ELSE Free(q, f)
  <2>1. CASE to \in {"activating", "saving"}
    <3>1. Waits(a, f) /\ q.field[f] = a.field[f]
      BY <1>4, <1>9, <1>11, <1>13, <2>1 DEF EditorDone, EntityDone, TrackDone, Steady
    <3> QED
      BY <1>17, <1>18, <2>1, <3>1, WaitsOn
  <2>2. CASE to \notin {"activating", "saving"}
    <3>1. a.deferred = m.deferred /\ a.requests = m.requests
      BY <1>4, <1>9, <2>2 DEF EditorDone
    <3>2. TasksOf(a, f) = TasksOf(p, f) /\ RequestsOf(a, f) = RequestsOf(p, f)
      BY <1>6, <3>1 DEF TasksOf, RequestsOf
    <3> QED
      BY <1>18, <2>2, <3>2 DEF Able, Free
  <2> QED
    BY <2>1, <2>2
<1>21. to = "candidate" /\ p.activeField = f /\ p.field[f] = "changed" => f \notin q.typed
  BY <1>3, <1>13, <1>14 DEF TrackDone
<1>22. to \in Still /\ p.form[f] = "none" => q.form[f] = "none"
  BY <1>4, <1>6, <1>9, <1>14 DEF EditorDone, Still
<1>23. to = "candidate" /\ p.field[f] # "inactive" /\ f \in p.editor => q.form[f] = "none"
  <2>1. q.form \in [Field -> {"none", "loading", "loaded"}] /\ FormsKept(q)
    BY <1>2 DEF Fine, Good, Page
  <2> QED
    BY <1>3, <1>4, <1>6, <1>9, <1>14, <2>1 DEF EditorDone, FormsKept
<1>24. Moved(p, q, f, to)
  BY <1>2, <1>15, <1>16, <1>17, <1>19, <1>20, <1>21, <1>22, <1>23 DEF Moved
<1>25. /\ a.entity = p.entity /\ Remembers(p, a) /\ Calls(a) = Calls(p)
       /\ to # "activating" => a.deferred = p.deferred
  <2>1. m.entity = p.entity /\ Remembers(p, m) /\ Calls(m) = Calls(p) /\ m.deferred = p.deferred
    BY <1>6 DEF Calls
  <2> QED
    BY <1>4, <1>9, <2>1 DEF EditorDone, Steady, Remembers
<1>26. ASSUME to # "activating" \/ p.entity[It] = "opened" PROVE Told(p, q, f, to)
  <2>1. Remembers(b, q) /\ q.deferred = b.deferred /\ Calls(q) = Calls(b) /\ Kept(q, It) = Kept(b, It)
    BY <1>13 DEF TrackDone, Calls, Kept, Remembers
  <2>2. Kept(a, It) = Kept(p, It)
    BY <1>25 DEF Kept, Remembers
  <2>3. p.entity[It] \in {"opening", "deactivating", "closing"} =>
          a.deferred = p.deferred /\ to # "activating"
    BY <1>25, <1>26
  <2>4. CASE p.entity[It] \in {"opening", "deactivating", "closing"}
    BY <1>11, <1>25, <2>1, <2>3, <2>4 DEF Told, EntityDone, Remembers
  <2>5. CASE p.entity[It] = "opened"
    <3>1. /\ b.deferred = a.deferred /\ b.isCommitting = a.isCommitting
          /\ to \notin {"changed", "saved"} => Remembers(a, b)
          /\ to = "changed" =>
               /\ Kept(b, It) = Kept(a, It)
               /\ b.isDirty = IF It \in a.isCommitting THEN a.isDirty ELSE a.isDirty \union {It}
          /\ to = "saved" =>
               b.isDirty = a.isDirty /\ Kept(b, It) = Kept(a, It) \union {f}
      BY <1>11, <1>14, <1>25, <2>5 DEF EntityDone
    <3>2. Calls(b) = Calls(a)
      BY <3>1 DEF Calls
    <3>3. /\ a.isDirty = p.isDirty /\ a.isCommitting = p.isCommitting
          /\ q.isDirty = b.isDirty /\ q.isCommitting = b.isCommitting
      BY <1>25, <2>1 DEF Remembers
    <3>4. to \notin {"changed", "saved"} => Remembers(p, q)
      BY <1>25, <2>1, <3>1 DEF Remembers
    <3> QED
      BY <1>25, <2>1, <2>2, <2>5, <3>1, <3>2, <3>3, <3>4 DEF Told
  <2>6. CASE p.entity[It] = "committing"
    <3>1. /\ b.deferred = a.deferred
          /\ It \in b.isCommitting <=> It \in a.isCommitting \/ AllIn(a, Ready)
      BY <1>11, <1>25, <2>6 DEF EntityDone
    <3>2. Calls(b) = Calls(a)
      BY <3>1 DEF Calls
    <3>3. AllIn(a, Ready) <=> AllIn(q, Ready)
      BY <1>11, <1>13 DEF AllIn, EntityDone, TrackDone, Steady
    <3>4. a.isCommitting = p.isCommitting /\ q.isCommitting = b.isCommitting
      BY <1>25, <2>1 DEF Remembers
    <3> QED
      BY <1>25, <2>1, <2>6, <3>1, <3>2, <3>3, <3>4 DEF Told
  <2>7. CASE p.entity[It] \notin {"opening", "deactivating", "closing", "opened", "committing"}
    BY <2>7 DEF Told
  <2> QED
    BY <2>4, <2>5, <2>6, <2>7
<1> QED
  BY <1>2, <1>24, <1>26

-----------------------------------------------------------------------------
(* A change of one field leaves the page in order.                         *)

(* All is in order but, perhaps, for f.                                    *)
FitsBut(p, f) ==
  /\ \A g \in Field \ {f} : Sits(p, g) /\ Waits(p, g)
  /\ Once(p.deferred)
  /\ p.activeField # Destroyed

LEMMA FitsParts ==
  ASSUME NEW p, NEW f \in Field
  PROVE  Fits(p) <=> FitsBut(p, f) /\ Sits(p, f) /\ Waits(p, f)
BY DEF Fits, FitsBut

(* The active field was left before another one becomes active.            *)
Handed(p, f, to) ==
  to \in Active => \A g \in Field \ {f} : p.field[g] \notin Active \union {"changed"}

(* What f needs to be in order in its new state.                           *)
Suits(p, f, to) ==
  /\ Able(p, f, to) /\ Handed(p, f, to)
  /\ to \notin Still => f \in p.editor
  /\ to \notin {"changed", "saving"} =>
       f \notin p.typed \/ (to = "candidate" /\ p.activeField = f /\ p.field[f] = "changed")
  /\ to \in Still =>
       p.form[f] = "none" \/ (to = "candidate" /\ p.field[f] # "inactive" /\ f \in p.editor)
  /\ to \in {"inactive", "highlighted"} => p.activeField # f
  /\ to = "changed" => p.activeField = f

LEMMA NotAField ==
  NoField \notin Field /\ Destroyed \notin Field /\ NoField # Destroyed /\ NoEntity \notin Entity
BY PageAssumption

LEMMA OthersFit ==
  ASSUME NEW p \in Fine, NEW q \in Fine, NEW f \in Field, NEW to,
         FitsBut(p, f), Moved(p, q, f, to), Handed(p, f, to)
  PROVE  FitsBut(q, f)
<1>1. q.activeField # Destroyed
  BY NotAField DEF FitsBut, Moved
<1>2. ASSUME NEW g \in Field \ {f} PROVE Sits(q, g) /\ Waits(q, g)
  <2>1. /\ q.field[g] = p.field[g] /\ q.form[g] = p.form[g]
        /\ g \in q.typed <=> g \in p.typed
        /\ g \in q.editor <=> g \in p.editor
        /\ TasksOf(q, g) = TasksOf(p, g) /\ RequestsOf(q, g) = RequestsOf(p, g)
    BY DEF Moved, Others
  <2>2. Sits(p, g) /\ Waits(p, g)
    BY DEF FitsBut
  <2>3. Waits(q, g)
    BY <2>1, <2>2, WaitsOn
  <2>4. q.activeField \in {f, NoField, p.activeField} /\ g # f /\ g # NoField
    BY NotAField DEF Moved
  <2>5. p.field[g] \in Still => p.activeField # g
    BY <2>2 DEF Sits
  <2>6. q.field[g] \in Still => q.activeField # g
    BY <2>1, <2>4, <2>5
  <2>7. ASSUME p.field[g] \in Active \union {"changed"} PROVE q.activeField = g
    <3>1. to \notin Active /\ p.activeField = g
      BY <2>2, <2>7 DEF Handed, Sits
    <3> QED
      BY <2>4, <3>1 DEF Moved
  <2> QED
    BY <2>1, <2>2, <2>3, <2>6, <2>7 DEF Sits
<1> QED
  BY <1>1, <1>2 DEF FitsBut, Moved

LEMMA FieldFits ==
  ASSUME NEW p \in Fine, NEW q \in Fine, NEW f \in Field, NEW to,
         Suits(p, f, to), Moved(p, q, f, to)
  PROVE  Sits(q, f) /\ (to # "saved" => Waits(q, f)) /\ q.field[f] = to
<1>1. q.field[f] = to /\ to \in FieldState \ {"invalid"} /\ f # NoField
  <2>1. p.field \in [Field -> FieldState]
    BY DEF Fine, Good, Page
  <2> QED
    BY <2>1, NotAField DEF Moved, Suits, Able
<1>2. f \in q.typed => to \in {"changed", "saving"}
  BY DEF Moved, Suits
<1>3. to \in Still => q.form[f] = "none" /\ q.activeField # f
  <2>1. to \in Still => q.form[f] = "none"
    BY DEF Moved, Suits
  <2>2. to \in Still => to \notin Active /\ (to = "candidate" \/ to \in {"inactive", "highlighted"})
    BY DEF Still, Active
  <2>3. to \in Still => q.activeField # f
    BY <1>1, <2>2 DEF Moved, Suits
  <2> QED
    BY <2>1, <2>3
<1>4. to \notin Still => f \in q.editor
  BY DEF Moved, Suits
<1>5. to \in Active \union {"changed"} => q.activeField = f
  BY DEF Moved, Suits, Active
<1>6. ASSUME to # "saved" PROVE Waits(q, f)
  <2>1. CASE to \in {"activating", "saving"}
    BY <2>1 DEF Moved
  <2>2. CASE to \notin {"activating", "saving"}
    <3>1. Free(q, f)
      BY <2>2 DEF Moved
    <3> QED
      BY <1>1, <1>6, <2>2, <3>1 DEF Waits, Ready
  <2> QED
    BY <2>1, <2>2
<1> QED
  BY <1>1, <1>2, <1>3, <1>4, <1>5, <1>6 DEF Sits

(* What comes of a change of state that the application accepts.           *)
After(p, q, f, to) ==
  /\ q \in Fine /\ Moved(p, q, f, to)
  /\ to # "activating" \/ p.entity[It] = "opened" => Told(p, q, f, to)
  /\ FitsBut(q, f) /\ Sits(q, f) /\ q.field[f] = to
  /\ IF to = "saved" THEN Free(q, f) ELSE Fits(q)

LEMMA EnterFits ==
  ASSUME OneEntity, NEW p \in Fine, NEW f \in Field, NEW to, FitsBut(p, f), Suits(p, f, to),
         NEW q, q = EnterField(p, f, to)
  PROVE  After(p, q, f, to)
<1>1. /\ q \in Fine /\ Moved(p, q, f, to)
      /\ to # "activating" \/ p.entity[It] = "opened" => Told(p, q, f, to)
  BY EnterNews DEF Suits
<1>2. FitsBut(q, f)
  BY <1>1, OthersFit DEF Suits
<1>3. Sits(q, f) /\ (to # "saved" => Waits(q, f)) /\ q.field[f] = to
  BY <1>1, FieldFits
<1>4. to = "saved" => Free(q, f)
  BY <1>1 DEF Moved
<1> QED
  BY <1>1, <1>2, <1>3, <1>4, FitsParts DEF After

LEMMA SetFits ==
  ASSUME OneEntity, NEW p \in Fine, NEW f \in Field, NEW to, FitsBut(p, f), Suits(p, f, to),
         NEW why, p.field[f] # to, Accepts(p.field[f], to, why), ~HopsTo(p, f, to, why),
         NEW q, q = SetField(p, f, to, why)
  PROVE  After(p, q, f, to)
<1>1. q = EnterField(p, f, to)
  BY DEF SetField
<1> QED
  BY <1>1, EnterFits

(* The moves of a field that is in order.                                  *)
Moves ==
  {<<"inactive", "candidate">>, <<"candidate", "highlighted">>, <<"highlighted", "candidate">>,
   <<"candidate", "activating">>, <<"highlighted", "activating">>, <<"activating", "active">>,
   <<"active", "candidate">>, <<"changed", "candidate">>, <<"changed", "saving">>,
   <<"saving", "saved">>, <<"saved", "candidate">>,
   <<"candidate", "inactive">>, <<"highlighted", "inactive">>}

LEMMA MoveSuits ==
  ASSUME NEW p \in Fine, NEW f \in Field, NEW to, <<p.field[f], to>> \in Moves,
         Sits(p, f), Free(p, f), Once(p.deferred), Handed(p, f, to),
         to = "activating" => f \in p.editor, to = "saved" => f \notin p.typed
  PROVE  Suits(p, f, to)
<1>1. FormsThere(p)
  BY DEF Fine, Good
<1>2. to \in FieldState \ {"invalid"} /\ p.field[f] # "invalid"
  BY DEF Moves, FieldState
<1>3. to \notin Still \/ to = "activating" => f \in p.editor
  BY DEF Moves, Sits, Still
<1>4. EditorOf[f] = "form" /\ to \in Unsaved => p.form[f] # "none"
  BY <1>1 DEF Moves, Unsaved, FormsThere
<1>5. to \in {"activating", "saving"} => f \in p.editor
  BY <1>3 DEF Still
<1>6. Able(p, f, to)
  BY <1>2, <1>4, <1>5 DEF Able
<1>7. to \notin {"changed", "saving"} =>
        f \notin p.typed \/ (to = "candidate" /\ p.activeField = f /\ p.field[f] = "changed")
  BY DEF Moves, Sits
<1>8. to \in Still =>
        p.form[f] = "none" \/ (to = "candidate" /\ p.field[f] # "inactive" /\ f \in p.editor)
  BY DEF Moves, Sits, Still
<1>9. (to \in {"inactive", "highlighted"} => p.activeField # f) /\ to # "changed"
  BY DEF Moves, Sits, Still
<1> QED
  BY <1>3, <1>6, <1>7, <1>8, <1>9 DEF Suits

LEMMA MoveAccepted ==
  ASSUME NEW from, NEW to, <<from, to>> \in Moves, NEW why,
         why = "none" \/ (why = "mouseleave" /\ from = "highlighted") \/ why \in AlwaysAccepted,
         to = "inactive" => why \in AlwaysAccepted
  PROVE  Accepts(from, to, why) /\ from # to
<1>1. from # to /\ from \in FieldState /\ to \in FieldState
  BY DEF Moves, FieldState
<1>2. CASE why \in AlwaysAccepted
  BY <1>1, <1>2 DEF Accepts
<1>3. CASE why \notin AlwaysAccepted
  <2>1. FieldPosition[from] < FieldPosition[to] \/ <<from, to>> \in BackAllowed
    BY <1>3, FieldPositionIs DEF Moves, BackAllowed, Active
  <2>2. why = "mouseleave" => ~(from \in Active \union {"changed", "invalid"})
    BY <1>3 DEF Active, AlwaysAccepted
  <2> QED
    BY <1>1, <2>1, <2>2 DEF Accepts
<1> QED
  BY <1>2, <1>3

LEMMA MoveFits ==
  ASSUME OneEntity, NEW p \in Fine, NEW f \in Field, NEW to, <<p.field[f], to>> \in Moves,
         FitsBut(p, f), Sits(p, f), Free(p, f), Handed(p, f, to),
         to = "activating" => f \in p.editor, to = "saved" => f \notin p.typed, NEW why,
         why = "none" \/ (why = "mouseleave" /\ p.field[f] = "highlighted") \/ why \in AlwaysAccepted,
         to = "inactive" => why \in AlwaysAccepted, ~HopsTo(p, f, to, why),
         NEW q, q = SetField(p, f, to, why)
  PROVE  After(p, q, f, to)
<1>1. Suits(p, f, to)
  BY MoveSuits DEF FitsBut
<1>2. Accepts(p.field[f], to, why) /\ p.field[f] # to
  BY MoveAccepted
<1> QED
  BY <1>1, <1>2, SetFits

(* Where the other fields are.                                             *)
LEMMA FieldsAfter ==
  ASSUME NEW p \in Fine, NEW q, NEW f \in Field, NEW to, After(p, q, f, to)
  PROVE  q.field[f] = to /\ \A g \in Field \ {f} : q.field[g] = p.field[g]
BY DEF After, Moved, Others

-----------------------------------------------------------------------------
(* The user acts when nothing is deferred and no request is out.           *)

Rest(p) == p.deferred = <<>> /\ p.requests = {}

LEMMA RestIs ==
  ASSUME OneEntity, NEW p \in Fine, NEW C, Orderly(p, C), Rest(p)
  PROVE  /\ p.entity[It] \in {"closed", "opened"} /\ p.isCommitting = {} /\ Calls(p) = {}
         /\ \A f \in Field : Free(p, f)
         /\ \A f \in Field : p.field[f] \in Still \union {"active", "changed"}
<1>1. ToSet(p.deferred) = {}
  BY DEF Rest, ToSet
<1>2. Calls(p) = {} /\ \A f \in Field : Free(p, f)
  BY <1>1 DEF Calls, Free, TasksOf, RequestsOf, Rest
<1>3. \A f \in Field : p.field[f] \in Still \union {"active", "changed"}
  <2> SUFFICES ASSUME NEW f \in Field PROVE p.field[f] \in Still \union {"active", "changed"}
    OBVIOUS
  <2>1. Waits(p, f) /\ Sits(p, f) /\ Free(p, f)
    BY <1>2 DEF Orderly, Fits
  <2>2. p.field[f] \in FieldState /\ p.field[f] # "invalid"
    BY <2>1 DEF Fine, Good, Page, Sits
  <2>3. p.field[f] \notin {"activating", "saving", "saved"}
    BY <2>1 DEF Waits, WaitsForTask, WaitsForAnswer, Free
  <2> QED
    BY <2>2, <2>3 DEF FieldState, Still
<1>4. p.entity[It] \in EntityState
  BY ItIs DEF Fine, Good, Page
<1>5. p.entity[It] \notin {"launching", "opening", "deactivating", "closing"}
  <2>1. p.entity[It] # "launching"
    BY <1>1, ToSetElement DEF Orderly, Phase, Launching, Rest, EntityTask
  <2>2. p.entity[It] \notin {"opening", "deactivating", "closing"}
    BY <1>2 DEF Orderly, Phase, Opening, Deactivating, Closing, Rest
  <2> QED
    BY <2>1, <2>2
<1>6. p.isCommitting = {}
  BY DEF Fine, Good, CommitsOK, Rest
<1>7. p.entity[It] # "committing"
  <2> SUFFICES ASSUME p.entity[It] = "committing" PROVE FALSE
    OBVIOUS
  <2>1. AllIn(p, Ready \union Busy) /\ ~AllIn(p, Ready)
    BY <1>6 DEF Orderly, Phase, Committing
  <2>2. AllIn(p, Ready)
    BY <1>3, <2>1 DEF AllIn, Still, Busy, Ready
  <2> QED
    BY <2>1, <2>2
<1> QED
  BY <1>2, <1>3, <1>4, <1>5, <1>6, <1>7 DEF EntityState

-----------------------------------------------------------------------------
(* An opened entity.                                                       *)

OpenFor(p) ==
  /\ p.entity[It] = "opened" /\ It \in p.isActive
  /\ \A f \in Field : p.field[f] # "inactive"
  /\ \A t \in Calls(p) : Goes(t, "opened")
  /\ p.isCommitting = {} /\ p.modal = NoEntity

LEMMA OpenOrderly ==
  ASSUME NEW p, NEW C, OpenFor(p), Fits(p), Settles(p), Kept(p, It) # {} => ContentOf[It] \in C
  PROVE  Orderly(p, C)
BY DEF Orderly, OpenFor, Phase, Opened, Copied, Asked

LEMMA OpenWhen ==
  ASSUME NEW p, NEW C, Orderly(p, C), p.entity[It] = "opened", p.modal = NoEntity,
         p.deferred # <<Task("confirm", It)>> \/ p.requests # {}
  PROVE  OpenFor(p) /\ Settles(p) /\ Fits(p) /\ (Kept(p, It) # {} => ContentOf[It] \in C)
BY DEF Orderly, OpenFor, Phase, Opened, Copied

LEMMA StaysOpen ==
  ASSUME NEW p \in Fine, NEW q, NEW f \in Field, NEW to, OpenFor(p), After(p, q, f, to),
         to # "inactive"
  PROVE  OpenFor(q) /\ Told(p, q, f, to)
<1>1. Told(p, q, f, to)
  BY DEF After, OpenFor
<1>2. Calls(q) = Calls(p) /\ q.isCommitting = p.isCommitting
  BY <1>1 DEF Told, OpenFor
<1>3. q.entity = p.entity /\ q.isActive = p.isActive /\ q.modal = p.modal
  BY DEF After, Moved
<1>4. \A g \in Field : q.field[g] # "inactive"
  BY FieldsAfter DEF OpenFor
<1> QED
  BY <1>1, <1>2, <1>3, <1>4 DEF OpenFor

(* The fields that wait for their saves, and what the user has changed.    *)
LEMMA StillSettles ==
  ASSUME NEW p \in Fine, NEW q, NEW f \in Field, NEW to, OpenFor(p), After(p, q, f, to), Settles(p),
         Sits(p, f), <<p.field[f], to>> \in Moves,
         to \in {"highlighted", "activating", "active"}
           \/ (to = "candidate" /\ p.field[f] \in {"highlighted", "saved"})
  PROVE  Settles(q)
<1>1. /\ q.isDirty = p.isDirty /\ Kept(q, It) = Kept(p, It)
      /\ Clean(q) <=> Clean(p)
  <2>1. Remembers(p, q)
    BY DEF After, OpenFor, Told
  <2> QED
    BY <2>1 DEF Remembers, Kept, Clean
<1>2. /\ q.field[f] = to /\ \A g \in Field \ {f} : q.field[g] = p.field[g]
      /\ p.field[f] \notin {"changed", "saving"} /\ to \notin Busy
  BY FieldsAfter DEF Moves, Busy
<1>3. f # NoField
  BY NotAField
<1>4. CASE to \in Active
  <2>1. q.activeField = f
    BY <1>4 DEF After, Moved
  <2> QED
    BY <1>1, <1>2, <1>3, <2>1 DEF Settles
<1>5. CASE to \notin Active
  <2>1. p.field[f] \in Still \/ p.field[f] = "saved"
    BY <1>5 DEF Moves, Still, Active
  <2>2. p.activeField # f
    BY <1>3, <2>1 DEF Sits, Settles, Busy
  <2>3. q.activeField = p.activeField
    BY <1>5, <2>2 DEF After, Moved
  <2> QED
    BY <1>1, <1>2, <2>3 DEF Settles
<1> QED
  BY <1>4, <1>5

(* An opened entity stays in order when one of its fields moves.           *)
LEMMA OpenStep ==
  ASSUME OneEntity, NEW p \in Fine, OpenFor(p), Settles(p),
         NEW f \in Field, Sits(p, f), NEW to, <<p.field[f], to>> \in Moves,
         to \in {"highlighted", "activating", "active"}
           \/ (to = "candidate" /\ p.field[f] \in {"highlighted", "saved"}),
         NEW q, After(p, q, f, to)
  PROVE  OpenFor(q) /\ Settles(q) /\ Fits(q) /\ Kept(q, It) = Kept(p, It)
<1>1. to # "inactive" /\ to # "saved" /\ to # "changed"
  OBVIOUS
<1>2. OpenFor(q) /\ Told(p, q, f, to)
  BY <1>1, StaysOpen
<1>3. Settles(q)
  BY StillSettles
<1>4. Kept(q, It) = Kept(p, It)
  BY <1>1, <1>2 DEF Told, OpenFor, Remembers, Kept
<1>5. Fits(q)
  BY <1>1 DEF After
<1> QED
  BY <1>2, <1>3, <1>4, <1>5

LEMMA OpenMove ==
  ASSUME OneEntity, NEW p \in Fine, NEW C, OpenFor(p), Fits(p), Settles(p),
         Kept(p, It) # {} => ContentOf[It] \in C,
         NEW f \in Field, NEW to, <<p.field[f], to>> \in Moves,
         to \in {"highlighted", "activating", "active"}
           \/ (to = "candidate" /\ p.field[f] \in {"highlighted", "saved"}),
         NEW q, After(p, q, f, to)
  PROVE  Orderly(q, C) /\ OpenFor(q)
<1>1. Sits(p, f)
  BY DEF Fits
<1>2. OpenFor(q) /\ Settles(q) /\ Fits(q) /\ Kept(q, It) = Kept(p, It)
  BY <1>1, OpenStep
<1> QED
  BY <1>2, OpenOrderly

LEMMA HandsAre ==
  ASSUME OneEntity, page \in Fine, Orderly(page, copied), trouble = {}, Hands
  PROVE  /\ Rest(page) /\ page.modal = NoEntity /\ page.entity[It] \in {"closed", "opened"}
         /\ page.entity[It] = "closed" => page.editor = {} /\ page.isActive = {}
         /\ page.entity[It] = "opened" =>
              /\ OpenFor(page) /\ Settles(page) /\ Fits(page) /\ It \in page.isActive
              /\ Kept(page, It) # {} => ContentOf[It] \in copied
         /\ \A f \in Field : Free(page, f)
         /\ \A f \in Field : page.field[f] \in Still \union {"active", "changed"}
<1>1. Rest(page) /\ page.modal = NoEntity
  BY DEF Hands, AtRest, Rest
<1>2. /\ page.entity[It] \in {"closed", "opened"}
      /\ \A f \in Field : Free(page, f)
      /\ \A f \in Field : page.field[f] \in Still \union {"active", "changed"}
  BY <1>1, RestIs
<1>3. page.isActive \subseteq {It}
  BY ItIs DEF Fine, Good, Page
<1>4. page.entity[It] = "closed" => page.editor = {} /\ page.isActive = {}
  BY <1>3 DEF Orderly, Phase, Closed
<1>5. page.deferred # <<Task("confirm", It)>>
  BY <1>1 DEF Rest
<1>6. page.entity[It] = "opened" =>
        /\ OpenFor(page) /\ Settles(page) /\ Fits(page) /\ It \in page.isActive
        /\ Kept(page, It) # {} => ContentOf[It] \in copied
  BY <1>1, <1>5, OpenWhen DEF OpenFor
<1> QED
  BY <1>1, <1>2, <1>4, <1>6

LEMMA MouseOrderly ==
  ASSUME OneEntity, page \in Fine, Orderly(page, copied), trouble = {},
         NEW f \in Field, MouseEnter(f) \/ MouseLeave(f)
  PROVE  Orderly(page', copied')
<1>1. Hands /\ f \in page.editor /\ copied' = copied
  BY DEF MouseEnter, MouseLeave, Stored
<1>2. /\ OpenFor(page) /\ Settles(page) /\ Fits(page) /\ Free(page, f)
      /\ Kept(page, It) # {} => ContentOf[It] \in copied
      /\ page.field[f] \in {"candidate", "highlighted", "active", "changed"}
  <2>1. page.entity[It] = "opened"
    BY <1>1, HandsAre
  <2>2. /\ OpenFor(page) /\ Settles(page) /\ Fits(page) /\ Free(page, f)
        /\ Kept(page, It) # {} => ContentOf[It] \in copied
        /\ page.field[f] \in Still \union {"active", "changed"}
    BY <1>1, <2>1, HandsAre
  <2> QED
    BY <2>2 DEF OpenFor, Still
<1>3. FitsBut(page, f) /\ Sits(page, f)
  BY <1>2, FitsParts
<1>4. ASSUME NEW to \in {"highlighted", "candidate"}, NEW why,
             <<why, to>> \in {<<"none", "highlighted">>, <<"mouseleave", "candidate">>}
      PROVE  Orderly(SetField(page, f, to, why), copied)
  <2>1. CASE page.field[f] = to \/ ~Accepts(page.field[f], to, why)
    <3>1. SetField(page, f, to, why) = page
      BY <2>1 DEF SetField
    <3> QED
      BY <3>1
  <2>2. CASE page.field[f] # to /\ Accepts(page.field[f], to, why)
    <3>1. <<page.field[f], to>> \in {<<"candidate", "highlighted">>, <<"highlighted", "candidate">>}
      BY <1>2, <1>4, <2>2, FieldPositionIs
         DEF Accepts, BackAllowed, AlwaysAccepted, Active
    <3>2. <<page.field[f], to>> \in Moves /\ to \notin Active
      BY <3>1 DEF Moves, Active
    <3>3. Handed(page, f, to) /\ ~HopsTo(page, f, to, why)
      BY <3>2 DEF Handed, HopsTo
    <3>4. why = "none" \/ (why = "mouseleave" /\ page.field[f] = "highlighted")
      BY <1>4, <3>1
    <3>5. to # "activating" /\ to # "saved" /\ to # "inactive"
      OBVIOUS
    <3>6. PICK q : q = SetField(page, f, to, why)
      OBVIOUS
    <3>7. After(page, q, f, to)
      BY <1>2, <1>3, <3>2, <3>3, <3>4, <3>5, <3>6, MoveFits
    <3>8. Orderly(q, copied)
      BY <1>2, <3>1, <3>2, <3>7, OpenMove
    <3> QED
      BY <3>6, <3>8
  <2> QED
    BY <2>1, <2>2
<1>5. CASE MouseEnter(f)
  <2>1. page' = SetField(page, f, "highlighted", "none")
    BY <1>5 DEF MouseEnter
  <2>2. Orderly(SetField(page, f, "highlighted", "none"), copied)
    BY <1>4
  <2> QED
    BY <1>1, <2>1, <2>2
<1>6. CASE MouseLeave(f)
  <2>1. page' = SetField(page, f, "candidate", "mouseleave")
    BY <1>6 DEF MouseLeave
  <2>2. Orderly(SetField(page, f, "candidate", "mouseleave"), copied)
    BY <1>4
  <2> QED
    BY <1>1, <2>1, <2>2
<1> QED
  BY <1>5, <1>6

(* The active field is left: reverted or sent to the server.               *)
LEMMA Leaves ==
  ASSUME OneEntity, NEW p \in Fine, Fits(p), NEW a \in Field, a = p.activeField, Free(p, a),
         p.field[a] \in {"active", "changed"}, NEW m, m = LeaveActiveField(p)
  PROVE  \E to \in {"candidate", "saving"} :
           /\ After(p, m, a, to)
           /\ to = IF p.field[a] = "active" THEN "candidate" ELSE "saving"
<1>1. FitsBut(p, a) /\ Sits(p, a) /\ Once(p.deferred)
  BY FitsParts DEF Fits
<1>2. a # Destroyed
  BY NotAField
<1>3. PICK to : to = IF p.field[a] = "active" THEN "candidate" ELSE "saving"
  OBVIOUS
<1>4. m = EnterField(p, a, to)
  BY <1>2, <1>3 DEF LeaveActiveField, Active
<1>5. <<p.field[a], to>> \in Moves /\ Handed(p, a, to) /\ to # "activating" /\ to # "saved"
  BY <1>3 DEF Moves, Handed, Active
<1>6. Suits(p, a, to)
  BY <1>1, <1>5, MoveSuits
<1>7. After(p, m, a, to)
  BY <1>1, <1>4, <1>6, EnterFits
<1> QED
  BY <1>3, <1>7

LEMMA ActiveOne ==
  ASSUME NEW p \in Fine, Fits(p)
  PROVE  /\ p.activeField # NoField => p.activeField \in Field /\ p.field[p.activeField] \notin Still
         /\ \A g \in Field : p.field[g] \in Active \union {"changed"} => g = p.activeField
<1>1. p.activeField \in Field \union {NoField}
  BY DEF Fine, Good, Page, Fits
<1> QED
  BY <1>1 DEF Fits, Sits

LEMMA OthersFree ==
  ASSUME NEW p, NEW q, NEW f \in Field, NEW to, After(p, q, f, to), NEW g \in Field \ {f}, Free(p, g)
  PROVE  /\ Free(q, g) /\ q.editor = p.editor
         /\ Sits(q, g) /\ Waits(q, g) /\ Once(q.deferred)
BY DEF After, Moved, Others, Free, FitsBut

(* The user turns to another field.                                        *)
LEMMA HopOrderly ==
  ASSUME OneEntity, NEW p \in Fine, NEW C, OpenFor(p), Fits(p), Settles(p),
         Kept(p, It) # {} => ContentOf[It] \in C, \A g \in Field : Free(p, g),
         NEW f \in Field, p.field[f] \in Ready, f \in p.editor,
         NEW a \in Field \ {f}, a = p.activeField, p.field[a] \in {"active", "changed"},
         NEW q, q = EnterField(LeaveActiveField(p), f, "activating")
  PROVE  Orderly(q, C)
<1>1. PICK m : m = LeaveActiveField(p)
  OBVIOUS
<1>2. PICK to \in {"candidate", "saving"} :
        After(p, m, a, to) /\ to = IF p.field[a] = "active" THEN "candidate" ELSE "saving"
  BY <1>1, Leaves
<1>3. OpenFor(m) /\ Told(p, m, a, to) /\ m \in Fine
  BY <1>2, StaysOpen DEF After
<1>4. /\ m.field[a] = to /\ \A g \in Field \ {a} : m.field[g] = p.field[g]
      /\ m.activeField = IF to = "candidate" THEN NoField ELSE a
  <2>1. m.activeField = IF to = "candidate" THEN NoField ELSE a
    BY <1>2 DEF After, Moved, Active
  <2> QED
    BY <1>2, <2>1, FieldsAfter
<1>5. /\ Fits(m) /\ Sits(m, f) /\ Free(m, f) /\ FitsBut(m, f) /\ Once(m.deferred)
      /\ f \in m.editor /\ m.field[f] \in Ready
  <2>1. Free(m, f) /\ m.editor = p.editor /\ Once(m.deferred)
    BY <1>2, OthersFree
  <2>2. Fits(m)
    BY <1>2 DEF After
  <2> QED
    BY <1>4, <2>1, <2>2, FitsParts
<1>6. Handed(m, f, "activating")
  <2>1. \A g \in Field : m.field[g] \in Active \union {"changed"} => g = m.activeField
    BY <1>3, <1>5, ActiveOne
  <2>2. m.activeField \in Field => m.field[m.activeField] = "saving"
    BY <1>4, NotAField
  <2> QED
    BY <2>1, <2>2 DEF Handed, Active
<1>7. Suits(m, f, "activating")
  <2>1. <<m.field[f], "activating">> \in Moves
    BY <1>5 DEF Ready, Moves
  <2> QED
    BY <1>3, <1>5, <1>6, <2>1, MoveSuits
<1>8. After(m, q, f, "activating")
  BY <1>1, <1>3, <1>5, <1>7, EnterFits
<1>9. OpenFor(q) /\ Told(m, q, f, "activating")
  BY <1>3, <1>8, StaysOpen
<1>10. Fits(q) /\ q.activeField = f
  BY <1>8 DEF After, Moved, Active
<1>11. q.isDirty = p.isDirty /\ Kept(q, It) = Kept(p, It)
  <2>1. Remembers(p, m) /\ Remembers(m, q)
    BY <1>2, <1>3, <1>9 DEF Told, OpenFor
  <2> QED
    BY <2>1 DEF Remembers, Kept
<1>12. q.field[f] = "activating" /\ \A g \in Field \ {f} : q.field[g] = m.field[g]
  BY <1>3, <1>8, FieldsAfter
<1>13. Settles(q)
  <2>1. f # NoField
    BY NotAField
  <2>2. \A g \in Field : q.field[g] \in Busy => q.activeField \notin {NoField, g}
    BY <1>10, <1>12, <2>1 DEF Busy
  <2>3. ASSUME It \in q.isDirty, Kept(q, It) = {}
        PROVE  \E g \in Field : q.field[g] \in {"changed", "saving"}
    <3>1. PICK g \in Field : p.field[g] \in {"changed", "saving"}
      BY <1>11, <2>3 DEF Settles
    <3>2. g # f
      BY <3>1 DEF Ready
    <3>3. g = a => to = "saving"
      BY <1>2, <3>1
    <3> QED
      BY <1>4, <1>12, <3>1, <3>2, <3>3
  <2> QED
    BY <1>10, <2>1, <2>2, <2>3 DEF Settles
<1> QED
  BY <1>9, <1>10, <1>11, <1>13, OpenOrderly

LEMMA ClickOrderly ==
  ASSUME OneEntity, page \in Fine, Orderly(page, copied), trouble = {}, NEW f \in Field, Click(f)
  PROVE  Orderly(page', copied')
<1>1. /\ Hands /\ f \in page.editor /\ copied' = copied
      /\ page' = SetField(page, f, "activating", "none")
  BY DEF Click, Stored
<1>2. /\ OpenFor(page) /\ Settles(page) /\ Fits(page) /\ \A g \in Field : Free(page, g)
      /\ Kept(page, It) # {} => ContentOf[It] \in copied
      /\ page.field[f] \in {"candidate", "highlighted", "active", "changed"}
      /\ \A g \in Field : page.field[g] \in Still \union {"active", "changed"}
  <2>1. page.entity[It] = "opened"
    BY <1>1, HandsAre
  <2>2. /\ OpenFor(page) /\ Settles(page) /\ Fits(page) /\ \A g \in Field : Free(page, g)
        /\ Kept(page, It) # {} => ContentOf[It] \in copied
        /\ \A g \in Field : page.field[g] \in Still \union {"active", "changed"}
    BY <1>1, <2>1, HandsAre
  <2> QED
    BY <2>2 DEF OpenFor, Still
<1>3. FitsBut(page, f) /\ Sits(page, f) /\ Free(page, f)
  BY <1>2, FitsParts
<1>4. "none" \notin AlwaysAccepted /\ "activating" \in Active
  BY DEF AlwaysAccepted, Active
<1>5. CASE page.field[f] \in {"active", "changed"}
  <2>1. ~Accepts(page.field[f], "activating", "none")
    BY <1>5, FieldPositionIs DEF Accepts, BackAllowed, AlwaysAccepted, Active
  <2> QED
    BY <1>1, <2>1 DEF SetField
<1>6. CASE page.field[f] \in Ready
  <2>1. <<page.field[f], "activating">> \in Moves
    BY <1>6 DEF Ready, Moves
  <2>2. page.activeField # f
    BY <1>3, <1>6 DEF Sits, Ready, Still
  <2>3. CASE page.activeField = NoField
    <3>1. ~HopsTo(page, f, "activating", "none")
      BY <2>3 DEF HopsTo
    <3>2. Handed(page, f, "activating")
      BY <1>2, <2>3, ActiveOne, NotAField DEF Handed
    <3>3. PICK q : q = SetField(page, f, "activating", "none")
      OBVIOUS
    <3>4. After(page, q, f, "activating")
      BY <1>1, <1>3, <2>1, <3>1, <3>2, <3>3, MoveFits
    <3>5. Orderly(q, copied)
      BY <1>2, <2>1, <3>4, OpenMove
    <3> QED
      BY <1>1, <3>3, <3>5
  <2>4. CASE page.activeField # NoField
    <3>1. HopsTo(page, f, "activating", "none")
      BY <1>4, <1>6, <2>2, <2>4 DEF HopsTo
    <3>2. Accepts(page.field[f], "activating", "none") /\ page.field[f] # "activating"
      BY <2>1, MoveAccepted
    <3>3. page.field[f] # "invalid"
      BY <1>6 DEF Ready
    <3>4. page' = EnterField(LeaveActiveField(page), f, "activating")
      BY <1>1, <3>1, <3>2, <3>3 DEF SetField
    <3>5. PICK a \in Field : a = page.activeField /\ page.field[a] \notin Still
      BY <1>2, <2>4, ActiveOne
    <3>6. a \in Field \ {f} /\ page.field[a] \in {"active", "changed"}
      BY <1>2, <2>2, <3>5
    <3>7. PICK q : q = EnterField(LeaveActiveField(page), f, "activating")
      OBVIOUS
    <3>8. Orderly(q, copied)
      BY <1>1, <1>2, <1>6, <3>5, <3>6, <3>7, HopOrderly
    <3> QED
      BY <1>1, <3>4, <3>7, <3>8
  <2> QED
    BY <2>3, <2>4
<1> QED
  BY <1>2, <1>5, <1>6 DEF Ready

-----------------------------------------------------------------------------
(* Pages that differ in the state of an entity and in editors at most.     *)

Alike(p, q) ==
  /\ Remembers(p, q) /\ q.isActive = p.isActive /\ q.modal = p.modal
  /\ q.field = p.field /\ q.form = p.form /\ q.typed = p.typed
  /\ q.activeField = p.activeField /\ q.deferred = p.deferred /\ q.requests = p.requests

LEMMA AlikeFits ==
  ASSUME NEW p, NEW q, Alike(p, q), p.editor \subseteq q.editor
  PROVE  /\ Fits(p) => Fits(q)
         /\ \A f \in Field : FitsBut(p, f) => FitsBut(q, f)
         /\ SameWaits(p, q) /\ Calls(q) = Calls(p) /\ Kept(q, It) = Kept(p, It)
<1>1. SameWaits(p, q) /\ Calls(q) = Calls(p) /\ Kept(q, It) = Kept(p, It)
  BY DEF Alike, Remembers, SameWaits, TasksOf, RequestsOf, Calls, Kept
<1>2. ASSUME NEW f \in Field, Waits(p, f) PROVE Waits(q, f)
  BY <1>1, <1>2, WaitsOn DEF Alike, SameWaits
<1>3. ASSUME NEW f \in Field, Sits(p, f) PROVE Sits(q, f)
  BY <1>3 DEF Alike, Sits
<1> QED
  BY <1>1, <1>2, <1>3 DEF Alike, Fits, FitsBut

LEMMA EntityPositionIs ==
  /\ EntityPosition["closed"] = 1 /\ EntityPosition["launching"] = 2
  /\ EntityPosition["opening"] = 3 /\ EntityPosition["opened"] = 4
  /\ EntityPosition["committing"] = 5 /\ EntityPosition["deactivating"] = 6
  /\ EntityPosition["closing"] = 7
<1>1. Len(EntityStates) = 7
  BY DEF EntityStates
<1>2. ASSUME NEW s \in EntityState, NEW i \in 1..7, EntityStates[i] = s,
             \A j \in 1..7 : EntityStates[j] = s => j = i
      PROVE  EntityPosition[s] = i
  <2>1. EntityPosition[s] = CHOOSE j \in 1..Len(EntityStates) : EntityStates[j] = s
    BY StatesAre DEF EntityPosition, Position
  <2> QED
    BY <1>1, <1>2, <2>1
<1>3. \A j \in 1..7 : j = 1 \/ j = 2 \/ j = 3 \/ j = 4 \/ j = 5 \/ j = 6 \/ j = 7
  OBVIOUS
<1>4. /\ EntityStates[1] = "closed" /\ EntityStates[2] = "launching"
      /\ EntityStates[3] = "opening" /\ EntityStates[4] = "opened"
      /\ EntityStates[5] = "committing" /\ EntityStates[6] = "deactivating"
      /\ EntityStates[7] = "closing"
  BY DEF EntityStates
<1>5. \A s \in EntityState, i, j \in 1..7 : EntityStates[i] = s /\ EntityStates[j] = s => i = j
  BY <1>3, <1>4
<1>6. \A i \in 1..7 : EntityStates[i] \in EntityState
  BY <1>3, <1>4 DEF EntityState
<1>7. \A i \in 1..7 : EntityPosition[EntityStates[i]] = i
  BY <1>2, <1>5, <1>6
<1> QED
  BY <1>4, <1>7

LEMMA EntityAt ==
  ASSUME OneEntity, NEW p \in Fine, NEW to \in EntityState
  PROVE  \E q \in Fine : /\ q = [p EXCEPT !.entity[It] = to]
                         /\ q.entity[It] = to /\ Alike(p, q) /\ q.editor = p.editor
<1>1. p \in Page /\ It \in Entity
  BY ItIs DEF Fine, Good
<1>2. PICK q : q = [p EXCEPT !.entity[It] = to]
  OBVIOUS
<1>3. q \in Fine
  BY <1>1, <1>2, EntityGood
<1>4. q.entity[It] = to
  BY <1>1, <1>2 DEF Page
<1>5. Alike(p, q) /\ q.editor = p.editor
  BY <1>1, <1>2 DEF Page, Alike, Remembers
<1> QED
  BY <1>2, <1>3, <1>4, <1>5

LEMMA SetupsAre ==
  ASSUME NEW p \in Page, NEW s \in Seq(Field)
  PROVE  /\ SetupAll(p, s) \in Page /\ Alike(p, SetupAll(p, s))
         /\ SetupAll(p, s).entity = p.entity /\ p.editor \subseteq SetupAll(p, s).editor
<1> DEFINE S == {q \in Page : Alike(p, q) /\ q.entity = p.entity /\ p.editor \subseteq q.editor}
<1>1. p \in S
  BY DEF Alike, Remembers
<1>2. ASSUME NEW q \in S, NEW f \in Field PROVE SetupEditor(q, f) \in S
  <2>1. PICK E \in SUBSET Field : E = q.editor \union {f}
    BY DEF Page
  <2>2. SetupEditor(q, f) = [q EXCEPT !.editor = E]
    BY <2>1 DEF SetupEditor
  <2>3. [q EXCEPT !.editor = E] \in Page /\ [q EXCEPT !.editor = E].editor = E
    BY DEF Page
  <2>4. Alike(q, [q EXCEPT !.editor = E]) /\ [q EXCEPT !.editor = E].entity = q.entity
    BY DEF Page, Alike, Remembers
  <2>5. Alike(p, [q EXCEPT !.editor = E])
    BY <2>4 DEF Alike, Remembers
  <2> QED
    BY <2>1, <2>2, <2>3, <2>4, <2>5
<1>3. SetupAll(p, s) \in S
  <2> HIDE DEF S
  <2> QED
    BY <1>1, <1>2, SetupFold
<1> QED
  BY <1>3

LEMMA TypedIs ==
  ASSUME NEW p \in Fine, NEW f \in Field, NEW q, q = [p EXCEPT !.typed = @ \union {f}]
  PROVE  /\ q \in Fine /\ Remembers(p, q) /\ Steady(p, q)
         /\ q.form = p.form /\ q.activeField = p.activeField /\ q.deferred = p.deferred
         /\ q.requests = p.requests /\ q.typed = p.typed \union {f}
<1>1. p \in Page
  BY DEF Fine, Good
<1>2. q \in Page
  BY <1>1 DEF Page
<1>3. Same(p, q)
  BY <1>1 DEF Page, Same, Shown
<1>4. q \in Fine
  BY <1>2, <1>3, SameGood DEF Fine
<1>5. /\ q.form = p.form /\ q.activeField = p.activeField /\ q.deferred = p.deferred
      /\ q.requests = p.requests /\ q.typed = p.typed \union {f}
  BY <1>1 DEF Page
<1>6. Remembers(p, q) /\ Steady(p, q)
  BY <1>1 DEF Page, Remembers, Steady
<1> QED
  BY <1>4, <1>5, <1>6

LEMMA TypeOrderly ==
  ASSUME OneEntity, page \in Fine, Orderly(page, copied), trouble = {}, NEW f \in Field, Type(f)
  PROVE  Orderly(page', copied')
<1>1. Hands /\ f \in page.editor /\ copied' = copied /\ Editable(f)
  BY DEF Type, Stored
<1>2. /\ OpenFor(page) /\ Settles(page) /\ Fits(page) /\ Free(page, f)
      /\ Kept(page, It) # {} => ContentOf[It] \in copied
      /\ page.field[f] \in Still \union {"active", "changed"}
  <2>1. page.entity[It] = "opened"
    BY <1>1, HandsAre
  <2> QED
    BY <1>1, <2>1, HandsAre
<1>3. FitsBut(page, f) /\ Sits(page, f) /\ Waits(page, f) /\ f # NoField
  BY <1>2, FitsParts, NotAField
<1>4. page.field[f] \in {"active", "changed"}
  BY <1>1, <1>2, <1>3 DEF Editable, Sits, Still, Changed
<1>5. PICK m : m = [page EXCEPT !.typed = @ \union {f}]
  OBVIOUS
<1>6. page' = SetField(m, f, "changed", "none")
  BY <1>4, <1>5 DEF Type
<1>7. /\ m \in Fine /\ Remembers(page, m) /\ Steady(page, m)
      /\ m.form = page.form /\ m.activeField = page.activeField /\ m.deferred = page.deferred
      /\ m.requests = page.requests /\ m.typed = page.typed \union {f}
  BY <1>5, TypedIs
<1>8. /\ SameWaits(page, m) /\ Calls(m) = Calls(page) /\ Kept(m, It) = Kept(page, It)
      /\ m.isDirty = page.isDirty
  BY <1>7 DEF SameWaits, TasksOf, RequestsOf, Calls, Kept, Remembers
<1>9. FitsBut(m, f)
  <2>1. ASSUME NEW g \in Field \ {f} PROVE Sits(m, g) /\ Waits(m, g)
    <3>1. Sits(page, g) /\ Waits(page, g)
      BY <1>3 DEF FitsBut
    <3>2. Sits(m, g)
      BY <1>7, <3>1 DEF Sits, Steady
    <3> QED
      BY <1>7, <1>8, <3>1, <3>2, WaitsOn DEF SameWaits, Steady
  <2> QED
    BY <1>3, <1>7, <2>1 DEF FitsBut
<1>10. OpenFor(m)
  BY <1>2, <1>7, <1>8 DEF OpenFor, Steady, Remembers
<1>11. m.field[f] \in {"active", "changed"} /\ m.activeField = f /\ f \in m.editor
  BY <1>1, <1>3, <1>4, <1>7 DEF Sits, Active, Steady
<1>12. \A g \in Field : m.field[g] \in Busy => m.activeField \notin {NoField, g}
  BY <1>2, <1>7 DEF Settles, Steady
<1>13. CASE m.field[f] = "changed"
  <2>1. page' = m
    BY <1>6, <1>13 DEF SetField
  <2>2. Sits(m, f)
    BY <1>3, <1>7, <1>11, <1>13 DEF Sits, Steady, Still, Active
  <2>3. Waits(m, f)
    BY <1>2, <1>8, <1>13 DEF Waits, Ready, Free, SameWaits
  <2>4. Fits(m)
    BY <1>9, <2>2, <2>3, FitsParts
  <2>5. Settles(m)
    BY <1>3, <1>11, <1>12, <1>13 DEF Settles
  <2>6. Orderly(m, copied)
    BY <1>2, <1>8, <1>10, <2>4, <2>5, OpenOrderly
  <2> QED
    BY <1>1, <2>1, <2>6
<1>14. CASE m.field[f] = "active"
  <2>1. EditorOf[f] = "form" => m.form[f] # "none"
    BY <1>1, <1>7 DEF Editable
  <2>2. Able(m, f, "changed")
    BY <1>2, <1>7, <1>8, <1>9, <1>14, <2>1 DEF Able, FieldState, Free, SameWaits, FitsBut
  <2>3. Suits(m, f, "changed")
    BY <1>11, <2>2 DEF Suits, Handed, Active, Still
  <2>4. Accepts(m.field[f], "changed", "none")
    BY <1>14, FieldPositionIs DEF Accepts
  <2>5. ~HopsTo(m, f, "changed", "none")
    BY DEF HopsTo, Active
  <2>6. PICK q : q = SetField(m, f, "changed", "none")
    OBVIOUS
  <2>7. After(m, q, f, "changed")
    BY <1>7, <1>9, <1>14, <2>3, <2>4, <2>5, <2>6, SetFits
  <2>8. OpenFor(q) /\ Told(m, q, f, "changed")
    BY <1>7, <1>10, <2>7, StaysOpen
  <2>9. q.activeField = f /\ Fits(q)
    BY <1>11, <2>7 DEF After, Moved, Active
  <2>10. Kept(q, It) = Kept(m, It)
    BY <1>10, <2>8 DEF Told, OpenFor
  <2>11. q.field[f] = "changed" /\ \A g \in Field \ {f} : q.field[g] = m.field[g]
    BY <1>7, <2>7, FieldsAfter
  <2>12. Settles(q)
    BY <1>3, <1>11, <1>12, <2>9, <2>11 DEF Settles, Busy
  <2>13. Orderly(q, copied)
    BY <1>2, <1>8, <2>8, <2>9, <2>10, <2>12, OpenOrderly
  <2> QED
    BY <1>1, <1>6, <2>6, <2>13
<1> QED
  BY <1>11, <1>13, <1>14

LEMMA LaunchOrderly ==
  ASSUME OneEntity, page \in Fine, Orderly(page, copied), trouble = {}, ~Revisits,
         QuickEditLink(It)
  PROVE  Orderly(page', copied')
<1>1. /\ Hands /\ It \notin page.isActive /\ Kept(page, It) = {} /\ copied' = copied
      /\ page' = SetEntity(page, It, "launching", "none", {})
  BY DEF QuickEditLink, Stored
<1>2. Rest(page) /\ page.modal = NoEntity /\ page.entity[It] = "closed"
  BY <1>1, HandsAre
<1>3. page.isCommitting = {}
  BY <1>2, RestIs
<1>4. SetEntity(page, It, "launching", "none", {}) = EnterEntity(page, It, "launching", "none")
  BY <1>2, <1>3, EntityPositionIs DEF SetEntity, AcceptsState, AcceptsSet
<1>5. "launching" \in EntityState
  BY DEF EntityState
<1>6. PICK m \in Fine : /\ m = [page EXCEPT !.entity[It] = "launching"]
                        /\ m.entity[It] = "launching" /\ Alike(page, m)
                        /\ m.editor = page.editor
  BY <1>5, EntityAt
<1>7. PICK n : n = [m EXCEPT !.reloadPage = FALSE]
  OBVIOUS
<1>8. n \in Page /\ Alike(m, n) /\ n.editor = m.editor /\ n.entity = m.entity
  BY <1>6, <1>7, ZenonT(60) DEF Fine, Good, Page, Alike, Remembers
<1>9. PICK s : s = SetupAll(n, FieldsOf[It])
  OBVIOUS
<1>10. s \in Page /\ Alike(n, s) /\ s.entity = n.entity /\ n.editor \subseteq s.editor
  BY <1>8, <1>9, ItIs, FieldsAre, SetupsAre
<1>11. PICK t \in EntityTasks : t = EntityTask(It, "opening", {})
  BY CallsAre
<1>12. PICK q : q = Defer(s, t)
  OBVIOUS
<1>13. page' = q
  BY <1>1, <1>4, <1>6, <1>7, <1>9, <1>11, <1>12 DEF EnterEntity, Launch, SetupAll
<1>14. Alike(page, s) /\ page.editor \subseteq s.editor /\ s.entity[It] = "launching"
  BY <1>6, <1>8, <1>10 DEF Alike, Remembers
<1>15. Fits(s) /\ Kept(s, It) = {}
  BY <1>1, <1>14, AlikeFits DEF Orderly
<1>16. /\ Steady(s, q) /\ Remembers(s, q) /\ q.form = s.form /\ q.typed = s.typed
       /\ q.activeField = s.activeField /\ q.deferred = Append(s.deferred, t)
       /\ SameWaits(s, q) /\ Once(q.deferred)
  BY <1>10, <1>12, <1>15, CallDone, ItIs DEF Fits, OneEntity
<1>17. Fits(q)
  <2>1. ASSUME NEW f \in Field PROVE Sits(q, f) /\ Waits(q, f)
    <3>1. Sits(s, f) /\ Waits(s, f)
      BY <1>15 DEF Fits
    <3>2. Sits(q, f)
      BY <1>16, <3>1 DEF Sits, Steady
    <3> QED
      BY <1>16, <3>1, <3>2, WaitsOn DEF SameWaits, Steady
  <2> QED
    BY <1>15, <1>16, <2>1 DEF Fits
<1>18. q.entity[It] = "launching" /\ q.modal = NoEntity /\ q.isCommitting = {}
  BY <1>2, <1>3, <1>14, <1>16 DEF Steady, Alike, Remembers
<1>19. Launching(q)
  <2>1. AllIn(q, {"inactive"}) /\ It \notin q.isDirty
    BY <1>2, <1>14, <1>16 DEF Orderly, Phase, Closed, AllIn, Steady, Alike, Remembers
  <2>2. q.deferred = <<t>>
    BY <1>2, <1>14, <1>16 DEF Rest, Alike
  <2>3. Kept(q, It) = {}
    BY <1>15, <1>16 DEF Kept, Remembers
  <2> QED
    BY <1>11, <2>1, <2>2, <2>3 DEF Launching, Clean
<1>20. Orderly(q, copied)
  BY <1>17, <1>18, <1>19 DEF Orderly, Phase, Copied, Asked
<1> QED
  BY <1>1, <1>13, <1>20

LEMMA AlikeOrderly ==
  ASSUME NEW p, NEW q, Alike(p, q), q.entity = p.entity, q.editor = p.editor, NEW C, Orderly(p, C)
  PROVE  Orderly(q, C)
<1>1. Fits(q) /\ Calls(q) = Calls(p) /\ Kept(q, It) = Kept(p, It)
  BY AlikeFits DEF Orderly
<1>2. /\ q.field = p.field /\ q.deferred = p.deferred /\ q.requests = p.requests
      /\ q.isDirty = p.isDirty /\ q.isCommitting = p.isCommitting /\ q.isActive = p.isActive
      /\ q.modal = p.modal /\ q.activeField = p.activeField
  BY DEF Alike, Remembers
<1>3. \A S : AllIn(q, S) <=> AllIn(p, S)
  BY <1>2 DEF AllIn
<1>4. /\ Asks(q) <=> Asks(p)
      /\ Clean(q) <=> Clean(p)
  BY <1>1, <1>2 DEF Asks, Clean
<1>5. Settles(p) => Settles(q)
  BY <1>1, <1>2, <1>4 DEF Settles
<1>6. /\ Closed(p) => Closed(q)
      /\ Launching(p) => Launching(q)
      /\ Opening(p) => Opening(q)
  BY <1>1, <1>2, <1>3, <1>4 DEF Closed, Launching, Opening
<1>7. Opened(p) => Opened(q)
  BY <1>1, <1>2, <1>4, <1>5 DEF Opened
<1>8. /\ Committing(p) => Committing(q)
      /\ Deactivating(p) => Deactivating(q)
      /\ Closing(p) => Closing(q)
  BY <1>1, <1>2, <1>3 DEF Committing, Deactivating, Closing
<1>9. Phase(q)
  BY <1>2, <1>6, <1>7, <1>8 DEF Orderly, Phase
<1>10. Copied(q, C) /\ Asked(q)
  BY <1>1, <1>2, <1>4 DEF Orderly, Copied, Asked
<1> QED
  BY <1>1, <1>9, <1>10 DEF Orderly

-----------------------------------------------------------------------------
(* An entity that is deactivated sends its fields to candidate, one after  *)
(* the other.                                                              *)

Falling(p) ==
  /\ p.entity[It] = "deactivating" /\ It \in p.isActive
  /\ p.modal = NoEntity /\ p.isCommitting = {}
  /\ \A f \in Field : p.field[f] \in Ready \union {"active", "changed"}
  /\ Fits(p)
  /\ \A t \in Calls(p) : Goes(t, "closing")
  /\ Ordered(p.deferred)

(* A field that is ready only tells its entity.                            *)
LEMMA FormlessAlike ==
  ASSUME NEW p \in Page, NEW f \in Field, p.form[f] = "none", f \notin p.typed,
         RequestsOf(p, f) = {}, NEW q, q = RemoveForm(p, f)
  PROVE  Alike(p, q) /\ q.entity = p.entity /\ q.editor = p.editor
<1>1. OrphanLoads(p, f) = p.requests
  BY OrphanNone
<1>2. [p.form EXCEPT ![f] = "none"] = p.form
  BY DEF Page
<1>3. p.typed \ {f} = p.typed
  OBVIOUS
<1>4. PICK h : h = [p.form EXCEPT ![f] = "none"]
  OBVIOUS
<1>5. q = [p EXCEPT !.form[f] = "none", !.typed = p.typed \ {f}, !.requests = p.requests]
  BY <1>1 DEF RemoveForm
<1>6. /\ q.form = [p.form EXCEPT ![f] = "none"] /\ q.typed = p.typed \ {f}
      /\ q.requests = p.requests
  BY <1>5 DEF Page
<1>7. /\ Remembers(p, q) /\ q.isActive = p.isActive /\ q.modal = p.modal
      /\ q.field = p.field /\ q.activeField = p.activeField /\ q.deferred = p.deferred
      /\ q.entity = p.entity /\ q.editor = p.editor
  BY <1>5 DEF Page, Remembers
<1> QED
  BY <1>2, <1>3, <1>6, <1>7 DEF Alike

LEMMA ReadyEditor ==
  ASSUME NEW p \in Page, NEW f \in Field, p.field[f] \in Ready, Sits(p, f), Waits(p, f),
         NEW q, q = EditorStateChange(p, f, p.field[f])
  PROVE  Alike(p, q) /\ q.entity = p.entity /\ q.editor = p.editor
<1>1. p.form[f] = "none" /\ f \notin p.typed
  BY DEF Sits, Ready, Still
<1>2. RequestsOf(p, f) = {}
  BY DEF Waits, Free, WaitsForTask
<1>3. p.field[f] \notin {"activating", "saving", "inactive"}
  BY DEF Ready
<1>4. CASE f \in p.editor /\ EditorOf[f] = "form" /\ p.field[f] = "candidate"
  <2>1. q = RemoveForm(p, f)
    BY <1>3, <1>4 DEF EditorStateChange, FormStateChange, TextStateChange
  <2> QED
    BY <1>1, <1>2, <2>1, FormlessAlike
<1>5. CASE ~(f \in p.editor /\ EditorOf[f] = "form" /\ p.field[f] = "candidate")
  <2>1. q = p
    BY <1>3, <1>5 DEF EditorStateChange, FormStateChange, TextStateChange
  <2> QED
    BY <2>1 DEF Alike, Remembers
<1> QED
  BY <1>4, <1>5

LEMMA TellNews ==
  ASSUME OneEntity, NEW p \in Fine, Fits(p), NEW f \in Field, p.field[f] \in Ready,
         p.entity[It] = "deactivating", NEW q, q = SendToCandidate(p, It, f)
  PROVE  /\ q \in Fine /\ Steady(p, q) /\ Remembers(p, q) /\ Fits(q)
         /\ q.deferred = Append(p.deferred, EntityTask(It, "closing", Ready))
<1>1. p \in Page /\ Sits(p, f) /\ Waits(p, f) /\ It \in Entity
  BY ItIs DEF Fine, Good, Fits
<1>2. q \in Fine
  BY <1>1, SendToCandidateGood
<1>3. PICK from : from = p.field[f]
  OBVIOUS
<1>4. PICK m : m = EditorStateChange(p, f, from)
  OBVIOUS
<1>5. Alike(p, m) /\ m.entity = p.entity /\ m.editor = p.editor
  BY <1>1, <1>3, <1>4, ReadyEditor
<1>6. m \in Fine
  <2>1. p.field[f] = "saving" => Settled(p, f)
    BY DEF Ready
  <2> QED
    BY <1>4, <2>1, EditorStateChangeGood DEF Fine
<1>7. PICK b : b = FieldStateChange(m, It, f)
  OBVIOUS
<1>8. q = TrackField(b, f, from)
  BY <1>3, <1>4, <1>7 DEF SendToCandidate
<1>9. b \in Fine /\ EntityDone(m, f, b)
  <2>1. m \in Page /\ IsFiniteSet(m.requests)
    BY <1>6 DEF Fine, Good, RequestsOK
  <2>2. Once(m.deferred) /\ m.field[f] # "invalid"
    BY <1>5 DEF Alike, Fits, Ready
  <2>3. EntityDone(m, f, b)
    BY <1>7, <2>1, <2>2, EntityNews
  <2>4. b \in Fine
    BY <1>1, <1>6, <1>7, FieldStateChangeGood DEF Fine
  <2> QED
    BY <2>3, <2>4
<1>10. TrackDone(b, q, f, from)
  <2>1. b \in Page
    BY <1>9 DEF Fine, Good
  <2> QED
    BY <1>8, <2>1, TrackNews
<1>11. /\ Steady(p, b) /\ Remembers(p, b) /\ b.form = p.form /\ b.typed = p.typed
       /\ b.activeField = p.activeField /\ SameWaits(m, b) /\ Once(b.deferred)
       /\ b.deferred = Append(p.deferred, EntityTask(It, "closing", Ready))
  BY <1>5, <1>9 DEF EntityDone, Alike, Steady, Remembers
<1>12. /\ Steady(b, q) /\ Remembers(b, q) /\ q.form = b.form /\ q.typed = b.typed
       /\ q.deferred = b.deferred /\ q.requests = b.requests /\ q.activeField = b.activeField
  <2>1. b.field[f] \in Ready /\ b.activeField # f
    BY <1>1, <1>11 DEF Steady, Sits, Ready, Still
  <2>2. b.field[f] \notin Active
    BY <2>1 DEF Ready, Active
  <2> QED
    BY <1>10, <2>1, <2>2 DEF TrackDone
<1>13. Steady(p, q) /\ Remembers(p, q)
  BY <1>11, <1>12 DEF Steady, Remembers
<1>14. SameWaits(p, q)
  BY <1>5, <1>11, <1>12 DEF SameWaits, TasksOf, RequestsOf, Alike
<1>15. Fits(q)
  <2>1. ASSUME NEW g \in Field PROVE Sits(q, g) /\ Waits(q, g)
    <3>1. Sits(p, g) /\ Waits(p, g)
      BY DEF Fits
    <3>2. Sits(q, g)
      BY <1>11, <1>12, <1>13, <3>1 DEF Sits, Steady
    <3> QED
      BY <1>11, <1>12, <1>13, <1>14, <3>1, <3>2, WaitsOn DEF SameWaits, Steady
  <2> QED
    BY <1>11, <1>12, <2>1 DEF Fits
<1> QED
  BY <1>2, <1>11, <1>12, <1>13, <1>15

(* One field more has told the entity that it is ready.                    *)
LEMMA FallOn ==
  ASSUME OneEntity, NEW p \in Fine, Falling(p), NEW q \in Fine, NEW f \in Field,
         q.entity = p.entity, q.isActive = p.isActive, q.modal = p.modal, Remembers(p, q), Fits(q),
         q.deferred = Append(p.deferred, EntityTask(It, "closing", Ready)),
         q.field[f] \in Ready, \A g \in Field \ {f} : q.field[g] = p.field[g]
  PROVE  Falling(q) /\ Calls(q) # {}
<1>1. PICK t \in EntityTasks : t = EntityTask(It, "closing", Ready)
  BY CallsAre
<1>2. t \in Tasks /\ ~OfField(t) /\ Goes(t, "closing")
  BY <1>1 DEF Tasks, OfField, Goes, EntityTask
<1>3. p \in Page /\ p.deferred \in Queues
  BY DEF Fine, Good, Page
<1>4. q.deferred = Append(p.deferred, t)
  BY <1>1
<1>5. Calls(q) = Calls(p) \union {t}
  BY <1>2, <1>3, <1>4, CallNews
<1>6. Ordered(q.deferred)
  BY <1>2, <1>3, <1>4, OrderedAppend DEF Falling
<1>7. q.isCommitting = {}
  BY DEF Falling, Remembers
<1>8. \A g \in Field : q.field[g] \in Ready \union {"active", "changed"}
  BY DEF Falling
<1>9. \A u \in Calls(q) : Goes(u, "closing")
  BY <1>2, <1>5 DEF Falling
<1> QED
  BY <1>5, <1>6, <1>7, <1>8, <1>9 DEF Falling

LEMMA FallStep ==
  ASSUME OneEntity, NEW p \in Fine, Falling(p), NEW f \in Field,
         NEW q, q = SendToCandidate(p, It, f)
  PROVE  /\ q \in Fine /\ Falling(q) /\ Calls(q) # {} /\ q.field[f] \in Ready
         /\ \A g \in Field \ {f} : q.field[g] = p.field[g]
<1>1. Fits(p) /\ p.entity[It] = "deactivating"
  BY DEF Falling
<1>2. CASE p.field[f] \in Ready
  <2>1. /\ q \in Fine /\ Steady(p, q) /\ Remembers(p, q) /\ Fits(q)
        /\ q.deferred = Append(p.deferred, EntityTask(It, "closing", Ready))
    BY <1>1, <1>2, TellNews
  <2>2. /\ q.entity = p.entity /\ q.isActive = p.isActive /\ q.modal = p.modal
        /\ q.field = p.field
    BY <2>1 DEF Steady
  <2>3. q.field[f] \in Ready /\ \A g \in Field \ {f} : q.field[g] = p.field[g]
    BY <1>2, <2>2
  <2> QED
    BY <2>1, <2>2, <2>3, FallOn
<1>3. CASE p.field[f] \notin Ready
  <2>1. p.field[f] \in {"active", "changed"} /\ FitsBut(p, f) /\ Sits(p, f) /\ Waits(p, f)
    BY <1>1, <1>3, FitsParts DEF Falling
  <2>2. <<p.field[f], "candidate">> \in Moves /\ Free(p, f)
    BY <2>1 DEF Moves, Waits
  <2>3. Handed(p, f, "candidate") /\ ~HopsTo(p, f, "candidate", "none")
    BY DEF Handed, HopsTo, Active
  <2>4. q = SetField(p, f, "candidate", "none")
    BY <1>3 DEF SendToCandidate
  <2>5. After(p, q, f, "candidate")
    BY <2>1, <2>2, <2>3, <2>4, MoveFits
  <2>6. /\ q \in Fine /\ Remembers(p, q) /\ Fits(q)
        /\ q.deferred = Append(p.deferred, EntityTask(It, "closing", Ready))
        /\ q.entity = p.entity /\ q.isActive = p.isActive /\ q.modal = p.modal
    BY <1>1, <2>5 DEF After, Told, Moved
  <2>7. q.field[f] \in Ready /\ \A g \in Field \ {f} : q.field[g] = p.field[g]
    BY <2>5, FieldsAfter DEF Ready
  <2> QED
    BY <2>6, <2>7, FallOn
<1> QED
  BY <1>2, <1>3

LEMMA SequenceOfFields ==
  ASSUME OneEntity
  PROVE  /\ FieldsOf[It] \in Seq(Field) /\ Len(FieldsOf[It]) \in Nat \ {0}
         /\ \A f \in Field : \E k \in 1..Len(FieldsOf[It]) : f = FieldsOf[It][k]
         /\ \A k \in 1..Len(FieldsOf[It]) : FieldsOf[It][k] \in Field
<1>1. FieldsOf[It] \in Seq(Field) /\ ToSet(FieldsOf[It]) = Field
  BY ItIs, FieldsAre
<1>2. Len(FieldsOf[It]) \in Nat /\ DOMAIN FieldsOf[It] = 1..Len(FieldsOf[It])
      /\ \A k \in 1..Len(FieldsOf[It]) : FieldsOf[It][k] \in Field
  BY <1>1
<1>3. \A f \in Field : \E k \in 1..Len(FieldsOf[It]) : f = FieldsOf[It][k]
  BY <1>1, <1>2 DEF ToSet
<1>4. PICK f \in Field : TRUE
  BY DEF OneEntity
<1>5. PICK k \in 1..Len(FieldsOf[It]) : f = FieldsOf[It][k]
  BY <1>3
<1> QED
  BY <1>1, <1>2, <1>3, <1>5

LEMMA FallAll ==
  ASSUME OneEntity, NEW p \in Fine, Falling(p), NEW q, q = SendAll(p, It, FieldsOf[It]), NEW C
  PROVE  q \in Fine /\ Orderly(q, C) /\ Falling(q)
<1> DEFINE s == FieldsOf[It]
           V == {v \in Nat \X Fine : /\ Falling(v[2])
                                     /\ \A i \in 1..v[1] : v[2].field[s[i]] \in Ready
                                     /\ v[1] > 0 => Calls(v[2]) # {}}
<1>1. s \in Seq(Field) /\ Len(s) \in Nat \ {0} /\ \A k \in 1..Len(s) : s[k] \in Field
  BY SequenceOfFields
<1>2. \A r \in Fine, x \in Field : SendToCandidate(r, It, x) \in Fine
  BY ItIs, SendToCandidateGood
<1>3. <<0, p>> \in V
  OBVIOUS
<1>4. ASSUME NEW k \in 1..Len(s), NEW r \in Fine, <<k - 1, r>> \in V
      PROVE  <<k, SendToCandidate(r, It, s[k])>> \in V
  <2>1. PICK m : m = SendToCandidate(r, It, s[k])
    OBVIOUS
  <2>2. Falling(r) /\ s[k] \in Field /\ \A i \in 1..(k - 1) : r.field[s[i]] \in Ready
    BY <1>1, <1>4
  <2>3. /\ m \in Fine /\ Falling(m) /\ Calls(m) # {} /\ m.field[s[k]] \in Ready
        /\ \A g \in Field \ {s[k]} : m.field[g] = r.field[g]
    BY <2>1, <2>2, FallStep
  <2>4. ASSUME NEW i \in 1..k PROVE m.field[s[i]] \in Ready
    <3>1. s[i] \in Field
      BY <1>1
    <3>2. i = k \/ i \in 1..(k - 1)
      BY <1>1
    <3> QED
      BY <2>2, <2>3, <3>1, <3>2
  <2>5. k \in Nat
    BY <1>1
  <2> QED
    BY <2>1, <2>3, <2>4, <2>5
<1>5. <<Len(s), SendAll(p, It, s)>> \in V
  <2> HIDE DEF V, s
  <2> QED
    BY <1>1, <1>2, <1>3, <1>4, SendReaches
<1>6. q \in Fine /\ Falling(q) /\ Calls(q) # {} /\ \A i \in 1..Len(s) : q.field[s[i]] \in Ready
  BY <1>1, <1>5
<1>7. AllIn(q, Ready)
  BY <1>6, SequenceOfFields DEF AllIn
<1>8. Deactivating(q)
  BY <1>6, <1>7 DEF Deactivating, Falling
<1>9. Orderly(q, C)
  BY <1>6, <1>8 DEF Orderly, Falling, Phase, Copied, Asked
<1> QED
  BY <1>6, <1>9

LEMMA ReloadIs ==
  ASSUME NEW p \in Fine, NEW S \in SUBSET Entity
  PROVE  /\ \E q \in Fine : /\ q = [p EXCEPT !.reload = S]
                            /\ Alike(p, q) /\ q.entity = p.entity /\ q.editor = p.editor
         /\ \E q \in Fine : /\ q = [p EXCEPT !.reloadPage = TRUE]
                            /\ Alike(p, q) /\ q.entity = p.entity /\ q.editor = p.editor
         /\ \E q \in Fine : /\ q = [p EXCEPT !.reloadPage = TRUE, !.reload = S]
                            /\ Alike(p, q) /\ q.entity = p.entity /\ q.editor = p.editor
<1>1. p \in Page
  BY DEF Fine, Good
<1>2. ASSUME NEW q \in Page, Same(p, q) PROVE q \in Fine
  BY <1>2, SameGood DEF Fine
<1>3. PICK a : a = [p EXCEPT !.reload = S]
  OBVIOUS
<1>4. PICK b : b = [p EXCEPT !.reloadPage = TRUE]
  OBVIOUS
<1>5. PICK c : c = [p EXCEPT !.reloadPage = TRUE, !.reload = S]
  OBVIOUS
<1>6. a \in Page /\ Same(p, a) /\ Alike(p, a) /\ a.entity = p.entity /\ a.editor = p.editor
  BY <1>1, <1>3 DEF Page, Same, Shown, Alike, Remembers
<1>7. b \in Page /\ Same(p, b) /\ Alike(p, b) /\ b.entity = p.entity /\ b.editor = p.editor
  BY <1>1, <1>4 DEF Page, Same, Shown, Alike, Remembers
<1>8. c \in Page /\ Same(p, c) /\ Alike(p, c) /\ c.entity = p.entity /\ c.editor = p.editor
  BY <1>1, <1>5 DEF Page, Same, Shown, Alike, Remembers
<1> QED
  BY <1>2, <1>3, <1>4, <1>5, <1>6, <1>7, <1>8

LEMMA AlikeFalls ==
  ASSUME NEW p, NEW q, Alike(p, q), p.editor = q.editor, q.entity = p.entity, Falling(p)
  PROVE  Falling(q)
<1>1. Fits(q) /\ Calls(q) = Calls(p)
  BY AlikeFits DEF Falling
<1>2. /\ q.field = p.field /\ q.isActive = p.isActive /\ q.modal = p.modal
      /\ q.deferred = p.deferred /\ q.isCommitting = p.isCommitting
  BY DEF Alike, Remembers
<1> QED
  BY <1>1, <1>2 DEF Falling

(* Whether there is something to ask about.                                *)
LEMMA AsksIs ==
  ASSUME OneEntity, NEW p, Fits(p)
  PROVE  FieldsIn(p, It, {"changed", "invalid"}) \union Kept(p, It) # {} <=> Asks(p)
<1>1. \A f \in Field : p.field[f] # "invalid"
  BY DEF Fits, Sits
<1>2. FieldsIn(p, It, {"changed", "invalid"}) = {f \in Field : p.field[f] = "changed"}
  BY <1>1, ItIs DEF FieldsIn
<1> QED
  BY <1>2 DEF Asks

LEMMA FallOrderly ==
  ASSUME OneEntity, NEW p \in Fine, Falling(p), NEW why, why \in {"saved", "confirmed"} \/ ~Asks(p),
         NEW q, q = Deactivate(p, It, why), NEW C
  PROVE  q \in Fine /\ Orderly(q, C) /\ Falling(q)
<1>1. PICK S : S = IF Kept(p, It) \union FieldsIn(p, It, {"invalid"}) # {}
                   THEN p.reload \union {It} ELSE p.reload \ {It}
  OBVIOUS
<1>2. S \in SUBSET Entity
  BY <1>1, ItIs DEF Fine, Good, Page
<1>3. PICK b \in Fine : /\ b = [p EXCEPT !.reload = S]
                        /\ Alike(p, b) /\ b.entity = p.entity /\ b.editor = p.editor
  BY <1>2, ReloadIs
<1>4. Falling(b)
  BY <1>3, AlikeFalls
<1>5. AcceptsSet(p, It)
  BY DEF AcceptsSet, Falling
<1>6. ~(/\ FieldsIn(p, It, {"changed", "invalid"}) \union Kept(p, It) # {}
        /\ why \notin {"saved", "confirmed"})
  BY AsksIs DEF Falling
<1>7. b = [p EXCEPT !.reload = IF Kept(p, It) \union FieldsIn(p, It, {"invalid"}) # {}
                               THEN @ \union {It} ELSE @ \ {It}]
  BY <1>1, <1>3
<1>8. q = SendAll(b, It, FieldsOf[It])
  BY <1>5, <1>6, <1>7 DEF Deactivate, SendAll
<1> QED
  BY <1>4, <1>8, FallAll

(* An opened entity is closed, or asks first.                              *)
LEMMA AskOrderly ==
  ASSUME OneEntity, NEW p \in Fine, NEW C, OpenFor(p), Rest(p), Fits(p), Settles(p), Asks(p),
         Kept(p, It) # {} => ContentOf[It] \in C,
         NEW m \in Fine, Alike(p, m), m.entity[It] = "opened", m.editor = p.editor,
         NEW q, q = Defer(m, Task("confirm", It))
  PROVE  q \in Fine /\ Orderly(q, C)
<1>1. PICK t \in Tasks : t = Task("confirm", It)
  BY TaskIs, ItIs
<1>2. ~OfField(t) /\ q = Defer(m, t)
  BY <1>1 DEF OfField, Task
<1>3. m \in Page /\ m.deferred = <<>> /\ m.requests = {}
  BY DEF Fine, Good, Alike, Rest
<1>4. q \in Fine
  BY <1>2, DeferGood DEF Fine
<1>5. /\ q.deferred = Append(m.deferred, t)
      /\ q.entity = m.entity /\ q.editor = m.editor /\ q.requests = m.requests
      /\ q.field = m.field /\ q.form = m.form /\ q.typed = m.typed /\ q.isActive = m.isActive
      /\ q.activeField = m.activeField /\ q.modal = m.modal /\ Remembers(m, q)
  BY <1>2, <1>3, ZenonT(60) DEF Page, Defer, Remembers
<1>6. q.deferred = <<Task("confirm", It)>>
  BY <1>1, <1>3, <1>5
<1>7. /\ \A g \in Field : TasksOf(q, g) = TasksOf(m, g) /\ RequestsOf(q, g) = RequestsOf(m, g)
      /\ Once(m.deferred) => Once(q.deferred)
  BY <1>2, <1>3, <1>5, CallNews DEF RequestsOf
<1>8. Fits(m) /\ Kept(m, It) = Kept(p, It)
  BY AlikeFits
<1>9. Fits(q)
  <2>1. ASSUME NEW g \in Field PROVE Sits(q, g) /\ Waits(q, g)
    <3>1. Sits(m, g) /\ Waits(m, g)
      BY <1>8 DEF Fits
    <3> QED
      BY <1>5, <1>7, <3>1, WaitsOn DEF Sits
  <2> QED
    BY <1>5, <1>7, <1>8, <2>1 DEF Fits
<1>10. Kept(q, It) = Kept(p, It) /\ q.field = p.field /\ q.isDirty = p.isDirty
       /\ q.activeField = p.activeField /\ q.isActive = p.isActive /\ q.modal = p.modal
       /\ q.isCommitting = p.isCommitting
  BY <1>5, <1>8 DEF Alike, Remembers, Kept
<1>11. Settles(q) /\ Asks(q)
  BY <1>10 DEF Settles, Asks, Clean
<1>12. Opened(q)
  BY <1>3, <1>5, <1>6, <1>10, <1>11 DEF Opened, OpenFor
<1>13. Phase(q)
  BY <1>5, <1>10, <1>12 DEF Phase, OpenFor
<1> QED
  BY <1>4, <1>5, <1>9, <1>10, <1>13 DEF Orderly, Copied, Asked, OpenFor

(* The modal opens and closes.                                             *)
Covers(p, q) ==
  /\ Remembers(p, q) /\ q.entity = p.entity /\ q.isActive = p.isActive /\ q.editor = p.editor
  /\ q.field = p.field /\ q.form = p.form /\ q.typed = p.typed
  /\ q.activeField = p.activeField /\ q.deferred = p.deferred /\ q.requests = p.requests

LEMMA ModalIs ==
  ASSUME NEW p \in Fine, NEW x \in Entity \union {NoEntity}
  PROVE  \E q \in Fine : q = [p EXCEPT !.modal = x] /\ q.modal = x /\ Covers(p, q)
<1>1. p \in Page
  BY DEF Fine, Good
<1>2. PICK q : q = [p EXCEPT !.modal = x]
  OBVIOUS
<1>3. q \in Page /\ Same(p, q) /\ Covers(p, q) /\ q.modal = x
  BY <1>1, <1>2 DEF Page, Same, Shown, Covers, Remembers
<1>4. q \in Fine
  BY <1>3, SameGood DEF Fine
<1> QED
  BY <1>2, <1>3, <1>4

LEMMA CoversFits ==
  ASSUME NEW p, NEW q, Covers(p, q)
  PROVE  /\ Fits(p) => Fits(q)
         /\ Settles(p) => Settles(q)
         /\ Asks(p) <=> Asks(q)
         /\ Kept(q, It) = Kept(p, It) /\ Calls(q) = Calls(p)
<1>1. SameWaits(p, q) /\ Kept(q, It) = Kept(p, It) /\ Calls(q) = Calls(p)
  BY DEF Covers, SameWaits, TasksOf, RequestsOf, Remembers, Kept, Calls
<1>2. ASSUME Fits(p) PROVE Fits(q)
  <2>1. ASSUME NEW f \in Field PROVE Sits(q, f) /\ Waits(q, f)
    <3>1. Sits(p, f) /\ Waits(p, f)
      BY <1>2 DEF Fits
    <3>2. Sits(q, f)
      BY <3>1 DEF Sits, Covers
    <3> QED
      BY <1>1, <3>1, <3>2, WaitsOn DEF SameWaits, Covers
  <2> QED
    BY <1>2, <2>1 DEF Fits, Covers
<1>3. /\ Settles(p) => Settles(q)
      /\ Asks(p) <=> Asks(q)
  BY <1>1 DEF Settles, Asks, Clean, Covers, Remembers
<1> QED
  BY <1>1, <1>2, <1>3

(* The entity that the modal asks about.                                   *)
LEMMA ModalClosed ==
  ASSUME OneEntity, NEW p \in Fine, NEW C, Orderly(p, C), p.modal # NoEntity
  PROVE  /\ p.modal = It
         /\ \E q \in Fine :
              /\ q = [p EXCEPT !.modal = NoEntity]
              /\ OpenFor(q) /\ Rest(q) /\ Fits(q) /\ Settles(q) /\ Asks(q)
              /\ Kept(q, It) # {} => ContentOf[It] \in C
              /\ \A f \in Field : q.field[f] \in Ready \union {"active", "changed"}
<1>1. p.modal = It
  BY ItIs DEF Fine, Good, Page
<1>2. p.entity[It] = "opened" /\ Rest(p) /\ Asks(p) /\ Fits(p) /\ Opened(p) /\ Settles(p)
      /\ (Kept(p, It) # {} => ContentOf[It] \in C)
  BY DEF Orderly, Asked, Phase, Rest, Opened, Copied
<1>3. /\ p.isCommitting = {} /\ Calls(p) = {}
      /\ \A f \in Field : p.field[f] \in Still \union {"active", "changed"}
  BY <1>2, RestIs
<1>4. PICK q \in Fine : q = [p EXCEPT !.modal = NoEntity] /\ q.modal = NoEntity /\ Covers(p, q)
  BY ModalIs
<1>5. Fits(q) /\ Settles(q) /\ Asks(q) /\ Kept(q, It) = Kept(p, It) /\ Calls(q) = Calls(p)
  BY <1>2, <1>4, CoversFits
<1>6. /\ q.entity = p.entity /\ q.isActive = p.isActive /\ q.field = p.field
      /\ q.isCommitting = p.isCommitting /\ q.deferred = p.deferred /\ q.requests = p.requests
  BY <1>4 DEF Covers, Remembers
<1>7. \A f \in Field : q.field[f] # "inactive"
  BY <1>2, <1>6 DEF Opened
<1>8. OpenFor(q)
  BY <1>2, <1>3, <1>4, <1>5, <1>6, <1>7 DEF OpenFor, Opened
<1>9. Rest(q)
  BY <1>2, <1>6 DEF Rest
<1>10. \A f \in Field : q.field[f] \in Ready \union {"active", "changed"}
  BY <1>3, <1>6, <1>7 DEF Still, Ready
<1> QED
  BY <1>1, <1>2, <1>4, <1>5, <1>8, <1>9, <1>10

LEMMA MayFall ==
  ASSUME OneEntity, NEW p \in Fine, OpenFor(p), Rest(p), Fits(p),
         \A f \in Field : p.field[f] \in Ready \union {"active", "changed"},
         NEW m, Alike(p, m), m.editor = p.editor, m.entity[It] = "deactivating"
  PROVE  Falling(m)
<1>1. m.deferred = <<>>
  BY DEF Alike, Rest
<1>2. Ordered(m.deferred) /\ Calls(m) = {}
  BY <1>1 DEF Ordered, Calls, ToSet
<1>3. Fits(m)
  BY AlikeFits
<1> QED
  BY <1>2, <1>3 DEF Falling, Alike, OpenFor, Remembers

LEMMA ClosingEntered ==
  ASSUME OneEntity, NEW p \in Fine, OpenFor(p), NEW why
  PROVE  SetEntity(p, It, "deactivating", why, {})
           = Deactivate([p EXCEPT !.entity[It] = "deactivating"], It, why)
<1>1. AcceptsSet(p, It) /\ p.entity[It] # "deactivating"
  BY DEF AcceptsSet, OpenFor
<1>2. EntityPosition[p.entity[It]] < EntityPosition["deactivating"]
  BY EntityPositionIs DEF OpenFor
<1>3. AcceptsState(p, It, "deactivating", why, {})
  BY <1>2 DEF AcceptsState
<1>4. SetEntity(p, It, "deactivating", why, {}) = EnterEntity(p, It, "deactivating", why)
  BY <1>1, <1>3 DEF SetEntity
<1> QED
  BY <1>4 DEF EnterEntity

LEMMA CloseOrderly ==
  ASSUME OneEntity, page \in Fine, Orderly(page, copied), trouble = {}, ClickClose(It)
  PROVE  Orderly(page', copied')
<1>1. /\ Hands /\ It \in page.isActive /\ copied' = copied
      /\ page' = SetEntity(page, It, "deactivating", "none", {})
  BY DEF ClickClose, Stored
<1>2. /\ Rest(page) /\ page.modal = NoEntity /\ page.entity[It] \in {"closed", "opened"}
      /\ page.entity[It] = "closed" => page.editor = {} /\ page.isActive = {}
      /\ page.entity[It] = "opened" =>
           /\ OpenFor(page) /\ Settles(page) /\ Fits(page) /\ It \in page.isActive
           /\ Kept(page, It) # {} => ContentOf[It] \in copied
      /\ \A f \in Field : page.field[f] \in Still \union {"active", "changed"}
  BY <1>1, HandsAre
<1>3. page.entity[It] = "opened"
  BY <1>1, <1>2
<1>4. OpenFor(page) /\ Settles(page) /\ Fits(page) /\ (Kept(page, It) # {} => ContentOf[It] \in copied)
  BY <1>2, <1>3
<1>5. \A f \in Field : page.field[f] \in Ready \union {"active", "changed"}
  BY <1>2, <1>4 DEF OpenFor, Still, Ready
<1>6. PICK m \in Fine : /\ m = [page EXCEPT !.entity[It] = "deactivating"]
                        /\ m.entity[It] = "deactivating" /\ Alike(page, m) /\ m.editor = page.editor
  BY EntityAt DEF EntityState
<1>7. page' = Deactivate(m, It, "none")
  BY <1>1, <1>4, <1>6, ClosingEntered
<1>8. Fits(m) /\ (Asks(m) <=> Asks(page))
  BY <1>4, <1>6, AlikeFits, ZenonT(60) DEF Asks, Alike
<1>9. CASE Asks(page)
  <2>1. PICK n \in Fine : /\ n = [m EXCEPT !.entity[It] = "opened"]
                          /\ n.entity[It] = "opened" /\ Alike(m, n) /\ n.editor = m.editor
    BY EntityAt DEF EntityState
  <2>2. FieldsIn(m, It, {"changed", "invalid"}) \union Kept(m, It) # {}
    BY <1>8, <1>9, AsksIs
  <2>3. page' = Defer(n, Task("confirm", It))
    BY <1>7, <2>1, <2>2 DEF Deactivate
  <2>4. Alike(page, n) /\ n.editor = page.editor
    BY <1>6, <2>1 DEF Alike, Remembers
  <2>5. Orderly(page', copied)
    <3>1. PICK q : q = Defer(n, Task("confirm", It))
      OBVIOUS
    <3>2. Orderly(q, copied)
      BY <1>2, <1>4, <1>9, <2>1, <2>4, <3>1, AskOrderly
    <3> QED
      BY <2>3, <3>1, <3>2
  <2> QED
    BY <1>1, <2>5
<1>10. CASE ~Asks(page)
  <2>1. Falling(m)
    BY <1>2, <1>4, <1>5, <1>6, MayFall
  <2>2. PICK q : q = Deactivate(m, It, "none")
    OBVIOUS
  <2>3. Orderly(q, copied)
    BY <1>8, <1>10, <2>1, <2>2, FallOrderly
  <2> QED
    BY <1>1, <1>7, <2>2, <2>3
<1> QED
  BY <1>9, <1>10

LEMMA DiscardOrderly ==
  ASSUME OneEntity, page \in Fine, Orderly(page, copied), ModalDiscard
  PROVE  Orderly(page', copied')
<1>1. page.modal # NoEntity /\ copied' = copied
  BY DEF ModalDiscard, Stored
<1>2. page.modal = It
  BY <1>1, ModalClosed
<1>3. PICK p \in Fine :
        /\ p = [page EXCEPT !.modal = NoEntity]
        /\ OpenFor(p) /\ Rest(p) /\ Fits(p) /\ Settles(p) /\ Asks(p)
        /\ Kept(p, It) # {} => ContentOf[It] \in copied
        /\ \A f \in Field : p.field[f] \in Ready \union {"active", "changed"}
  BY <1>1, ModalClosed
<1>4. PICK m \in Fine : /\ m = [p EXCEPT !.entity[It] = "deactivating"]
                        /\ m.entity[It] = "deactivating" /\ Alike(p, m) /\ m.editor = p.editor
  BY EntityAt DEF EntityState
<1>5. PICK q : q = SetEntity(p, It, "deactivating", "confirmed", {})
  OBVIOUS
<1>6. q = Deactivate(m, It, "confirmed")
  BY <1>3, <1>4, <1>5, ClosingEntered
<1>7. Falling(m)
  BY <1>3, <1>4, MayFall
<1>8. q \in Fine /\ Orderly(q, copied)
  BY <1>6, <1>7, FallOrderly
<1>9. page' = IF It \in q.reload /\ AcceptsSet(q, It)
              THEN [q EXCEPT !.reloadPage = TRUE, !.reload = @ \ {It}]
              ELSE IF It \in q.reload THEN [q EXCEPT !.reloadPage = TRUE] ELSE q
  BY <1>2, <1>3, <1>5 DEF ModalDiscard
<1>10. PICK S : S = q.reload \ {It}
  OBVIOUS
<1>11. S \in SUBSET Entity
  BY <1>8, <1>10 DEF Fine, Good, Page
<1>12. PICK a \in Fine : /\ a = [q EXCEPT !.reloadPage = TRUE, !.reload = S]
                         /\ Alike(q, a) /\ a.entity = q.entity /\ a.editor = q.editor
  BY <1>8, <1>11, ReloadIs
<1>13. PICK b \in Fine : /\ b = [q EXCEPT !.reloadPage = TRUE]
                         /\ Alike(q, b) /\ b.entity = q.entity /\ b.editor = q.editor
  BY <1>8, <1>11, ReloadIs
<1>14. page' \in {a, b, q}
  BY <1>9, <1>10, <1>12, <1>13
<1>15. Orderly(a, copied) /\ Orderly(b, copied)
  BY <1>8, <1>12, <1>13, AlikeOrderly
<1> QED
  BY <1>1, <1>8, <1>14, <1>15

(* The entity was saved: all its fields are ready, it is closed.           *)
LEMMA SavedOrderly ==
  ASSUME OneEntity, page \in Fine, Orderly(page, copied), NEW r \in page.requests, EntitySaved(r)
  PROVE  Orderly(page', copied')
<1>1. r.kind = "entity" /\ page \in Page /\ CommitsOK(page)
  BY DEF EntitySaved, EntitySave, Fine, Good
<1>2. r.x = It /\ It \in page.isCommitting
  BY <1>1, ItIs DEF CommitsOK, Page
<1>3. page.entity[It] = "committing"
  BY <1>2 DEF Orderly, Phase
<1>4. /\ AllIn(page, Ready) /\ It \in page.isActive /\ Calls(page) = {}
      /\ page.modal = NoEntity /\ Fits(page)
  BY <1>2, <1>3 DEF Orderly, Phase, Committing, Asked
<1>5. PICK p : p = [Answered(r) EXCEPT !.isCommitting = @ \ {It}]
  OBVIOUS
<1>6. /\ p \in Page /\ Shown(page, p) /\ p.requests = page.requests \ {r}
      /\ p.isCommitting = page.isCommitting \ {It}
      /\ p.isActive = page.isActive /\ p.deferred = page.deferred /\ p.modal = page.modal
      /\ p.typed = page.typed /\ p.activeField = page.activeField
  BY <1>1, <1>5, ItIs DEF Answered, Page, Shown
<1>7. p \in Fine
  BY <1>1, <1>2, <1>6, EntityAnswerGood
<1>8. SameWaits(page, p) /\ Calls(p) = Calls(page)
  BY <1>1, <1>6 DEF SameWaits, TasksOf, RequestsOf, Calls
<1>9. Fits(p)
  <2>1. ASSUME NEW f \in Field PROVE Sits(p, f) /\ Waits(p, f)
    <3>1. Sits(page, f) /\ Waits(page, f)
      BY <1>4 DEF Fits
    <3>2. Sits(p, f)
      BY <1>6, <3>1 DEF Sits, Shown
    <3> QED
      BY <1>6, <1>8, <3>1, <3>2, WaitsOn DEF SameWaits, Shown
  <2> QED
    BY <1>4, <1>6, <2>1 DEF Fits
<1>10. PICK m \in Fine : /\ m = [p EXCEPT !.entity[It] = "deactivating"]
                         /\ m.entity[It] = "deactivating" /\ Alike(p, m) /\ m.editor = p.editor
  BY <1>7, EntityAt DEF EntityState
<1>11. m.isCommitting = {}
  BY <1>1, <1>6, <1>10, ItIs DEF Page, Alike, Remembers
<1>12. Ordered(m.deferred)
  <2>1. m.deferred \in Queues
    BY DEF Fine, Good, Page
  <2>4. Calls(m) = {}
    BY <1>4, <1>8, <1>10, AlikeFits
  <2>2. \A i \in 1..Len(m.deferred) : m.deferred[i] \in ToSet(m.deferred)
    BY <2>1, ToSetElement
  <2>3. \A i \in 1..Len(m.deferred) : OfField(m.deferred[i])
    BY <2>2, <2>4 DEF Calls
  <2> QED
    BY <2>3 DEF Ordered, Goes, OfField
<1>13. Falling(m)
  <2>1. Fits(m) /\ Calls(m) = {}
    BY <1>4, <1>8, <1>9, <1>10, AlikeFits
  <2>2. m.isActive = page.isActive /\ m.modal = NoEntity /\ m.field = page.field
    BY <1>4, <1>6, <1>10 DEF Alike, Shown
  <2> QED
    BY <1>4, <1>10, <1>11, <1>12, <2>1, <2>2 DEF Falling, AllIn
<1>14. page' = Deactivate(m, It, "saved")
  <2>1. ~AcceptsSet(page, It)
    BY <1>2 DEF AcceptsSet
  <2>2. page' = EnterEntity(p, It, "deactivating", "saved")
    BY <1>2, <1>5, <2>1 DEF EntitySaved
  <2> QED
    BY <1>10, <2>2 DEF EnterEntity
<1>15. PICK q : q = Deactivate(m, It, "saved")
  OBVIOUS
<1>16. Orderly(q, copied')
  BY <1>13, <1>15, FallOrderly
<1> QED
  BY <1>14, <1>15, <1>16

-----------------------------------------------------------------------------
(* An entity that is committed saves the field that was changed last; all  *)
(* others have been saved before.                                          *)

LEMMA KeepHits ==
  ASSUME NEW F, NEW s \in Seq(F), NEW T, NEW i \in 1..Len(s), s[i] \in T
  PROVE  Keep(s, T) # <<>>
<1>1. PICK h :
        /\ Keep(s, T) = h[DOMAIN s] /\ h[{}] = <<>>
        /\ \A I \in SUBSET (1..Len(s)) : I # {} =>
             h[I] = (IF s[Max(I)] \in T THEN Append(h[Less(I)], s[Max(I)]) ELSE h[Less(I)])
  BY KeepSteps
<1> DEFINE V == {v \in Nat \X Seq(F) : v[1] >= i => v[2] # <<>>}
<1>2. Len(s) \in Nat
  OBVIOUS
<1>3. ASSUME NEW k \in 1..Len(s), <<k - 1, h[1..(k - 1)]>> \in V
      PROVE  <<k, h[1..k]>> \in V
  <2>1. /\ 1..k \in SUBSET (1..Len(s)) /\ 1..k # {}
        /\ Max(1..k) = k /\ Less(1..k) = 1..(k - 1)
    BY <1>2, LastOf
  <2>2. h[1..k] = IF s[k] \in T THEN Append(h[1..(k - 1)], s[k]) ELSE h[1..(k - 1)]
    BY <1>1, <2>1
  <2>3. PICK d \in Seq(F) : d = h[1..(k - 1)]
    BY <1>3
  <2>4. k - 1 >= i => d # <<>>
    BY <1>3, <2>3
  <2>5. s[k] \in F /\ Append(d, s[k]) \in Seq(F) /\ Append(d, s[k]) # <<>>
    OBVIOUS
  <2>6. h[1..k] \in Seq(F)
    BY <2>2, <2>3, <2>5
  <2>7. k >= i => h[1..k] # <<>>
    <3>1. CASE s[k] \in T
      BY <2>2, <2>3, <2>5, <3>1
    <3>2. CASE s[k] \notin T
      <4>1. k >= i => k - 1 >= i
        BY <1>2, <3>2
      <4> QED
        BY <2>2, <2>3, <2>4, <3>2, <4>1
    <3> QED
      BY <3>1, <3>2
  <2>8. PICK c \in Seq(F) : c = h[1..k]
    BY <2>6
  <2>9. k \in Nat /\ (k >= i => c # <<>>)
    BY <2>7, <2>8
  <2>10. <<k, c>> \in V
    BY <2>9
  <2> QED
    BY <2>8, <2>10
<1>4. <<0, h[{}]>> \in V
  <2>1. i \in Nat \ {0}
    BY <1>2
  <2>2. PICK d : d = <<>>
    OBVIOUS
  <2>3. d \in Seq(F)
    BY <2>2
  <2>4. <<0, d>> \in V
    BY <2>1, <2>3
  <2> QED
    BY <1>1, <2>2, <2>4
<1>5. <<Len(s), h[DOMAIN s]>> \in V
  <2> HIDE DEF V
  <2> QED
    BY <1>3, <1>4, FoldReaches
<1> QED
  BY <1>1, <1>2, <1>5

LEMMA SetNone ==
  ASSUME NEW p, NEW s \in Seq({}), NEW to, NEW why
  PROVE  SetEach(p, s, to, why) = p
<1> DEFINE S == {p}
           F == {}
           V == {<<k, p>> : k \in Nat}
<1>1. p \in S /\ s \in Seq(F) /\ \A q \in S, x \in F : SetField(q, x, to, why) \in S
  OBVIOUS
<1>2. <<0, p>> \in V
  OBVIOUS
<1>3. ASSUME NEW k \in 1..Len(s), NEW q \in S, <<k - 1, q>> \in V
      PROVE  <<k, SetField(q, s[k], to, why)>> \in V
  <2>1. s[k] \in {}
    OBVIOUS
  <2> QED
    BY <2>1
<1>4. <<Len(s), SetEach(p, s, to, why)>> \in V
  <2> HIDE DEF S, F, V
  <2> QED
    BY <1>1, <1>2, <1>3, SetFieldReaches
<1> QED
  BY <1>4

LEMMA SetOne ==
  ASSUME NEW p, NEW a, NEW s \in Seq({a}), s # <<>>, NEW to, NEW why,
         NEW m, m = SetField(p, a, to, why), SetField(m, a, to, why) = m
  PROVE  SetEach(p, s, to, why) = m
<1> DEFINE S == {p, m}
           F == {a}
           V == {<<0, p>>} \union {<<k, m>> : k \in Nat \ {0}}
<1>1. p \in S /\ s \in Seq(F) /\ \A q \in S, x \in F : SetField(q, x, to, why) \in S
  OBVIOUS
<1>2. <<0, p>> \in V
  OBVIOUS
<1>3. ASSUME NEW k \in 1..Len(s), NEW q \in S, <<k - 1, q>> \in V
      PROVE  <<k, SetField(q, s[k], to, why)>> \in V
  <2>1. s[k] = a /\ k \in Nat \ {0}
    OBVIOUS
  <2>2. SetField(q, s[k], to, why) = m
    BY <2>1
  <2> QED
    BY <2>1, <2>2
<1>4. <<Len(s), SetEach(p, s, to, why)>> \in V
  <2> HIDE DEF S, F, V
  <2> QED
    BY <1>1, <1>2, <1>3, SetFieldReaches
<1>5. Len(s) # 0
  OBVIOUS
<1> QED
  BY <1>4, <1>5

(* The fields of the entity in some states, when there is one or none.     *)
LEMMA ThoseAre ==
  ASSUME OneEntity, NEW p, NEW S
  PROVE  /\ FieldsIn(p, It, S) = {f \in Field : p.field[f] \in S}
         /\ FieldsIn(p, It, S) = {} => Those(p, It, S) \in Seq({})
         /\ \A a \in Field : FieldsIn(p, It, S) = {a} =>
              Those(p, It, S) \in Seq({a}) /\ Those(p, It, S) # <<>>
<1>1. /\ FieldsOf[It] \in Seq(Field)
      /\ \A f \in Field : \E k \in 1..Len(FieldsOf[It]) : f = FieldsOf[It][k]
  BY SequenceOfFields
<1>2. FieldsIn(p, It, S) = {f \in Field : p.field[f] \in S}
  BY ItIs DEF FieldsIn
<1> DEFINE T == FieldsIn(p, It, S)
<1>3. Those(p, It, S) \in Seq(Field \cap T)
  BY <1>1, KeepIs DEF Those
<1>4. T = {} => Those(p, It, S) \in Seq({})
  <2>1. T = {} => Field \cap T = {}
    OBVIOUS
  <2> QED
    BY <1>3, <2>1
<1>5. ASSUME NEW a \in Field, T = {a} PROVE Those(p, It, S) \in Seq({a}) /\ Those(p, It, S) # <<>>
  <2>1. Field \cap T = {a}
    BY <1>5
  <2>2. PICK k \in 1..Len(FieldsOf[It]) : a = FieldsOf[It][k]
    BY <1>1
  <2>3. FieldsOf[It][k] \in T
    BY <1>5, <2>2
  <2>4. Keep(FieldsOf[It], T) # <<>>
    BY <1>1, <2>3, KeepHits
  <2> QED
    BY <1>3, <2>1, <2>4 DEF Those
<1> QED
  BY <1>2, <1>4, <1>5

LEMMA SetAgain ==
  ASSUME NEW p, NEW f, NEW to, p.field[f] = to, NEW why
  PROVE  SetField(p, f, to, why) = p
BY DEF SetField

(* The field that is active while there is something to ask about.         *)
LEMMA LastChanged ==
  ASSUME NEW p \in Fine, Fits(p), Settles(p), Asks(p),
         \A f \in Field : p.field[f] \in Ready \union {"active", "changed"}
  PROVE  \E a \in Field : /\ p.field[a] \in {"active", "changed"}
                          /\ \A g \in Field \ {a} : p.field[g] \in Ready
                          /\ p.field[a] = "active" => Kept(p, It) # {}
<1>1. p.activeField # NoField
  <2>1. CASE Kept(p, It) # {}
    BY <2>1 DEF Settles, Clean
  <2>2. CASE Kept(p, It) = {}
    <3>1. PICK f \in Field : p.field[f] = "changed"
      BY <2>2 DEF Asks
    <3>2. p.activeField = f
      BY <3>1 DEF Fits, Sits
    <3> QED
      BY <3>2, NotAField
  <2> QED
    BY <2>1, <2>2
<1>2. PICK a \in Field : a = p.activeField
  BY <1>1, ActiveOne
<1>3. /\ p.field[a] \notin Still
      /\ \A g \in Field : p.field[g] \in Active \union {"changed"} => g = a
  BY <1>1, <1>2, ActiveOne
<1>4. p.field[a] \in {"active", "changed"}
  BY <1>3 DEF Ready, Still
<1>5. \A g \in Field \ {a} : p.field[g] \in Ready
  BY <1>3 DEF Active
<1>6. p.field[a] = "active" => Kept(p, It) # {}
  BY <1>5 DEF Asks, Ready
<1> QED
  BY <1>4, <1>5, <1>6

(* An entity that is being committed is in order.                          *)
LEMMA CommittingOrderly ==
  ASSUME OneEntity, NEW q, NEW C, Fits(q), q.entity[It] = "committing", q.modal = NoEntity,
         Committing(q), ContentOf[It] \in C \/ \E f \in Field : q.field[f] = "saving"
  PROVE  Orderly(q, C)
BY DEF Orderly, Phase, Copied, Asked

LEMMA CommitOrderly ==
  ASSUME OneEntity, NEW p \in Fine, NEW C, OpenFor(p), Rest(p), Fits(p), Settles(p), Asks(p),
         Kept(p, It) # {} => ContentOf[It] \in C,
         \A f \in Field : p.field[f] \in Ready \union {"active", "changed"},
         NEW m \in Fine, Alike(p, m), m.entity[It] = "committing", m.editor = p.editor,
         NEW q, q = Commit(m, It)
  PROVE  Orderly(q, C)
<1>1. PICK a \in Field : /\ p.field[a] \in {"active", "changed"}
                         /\ \A g \in Field \ {a} : p.field[g] \in Ready
                         /\ p.field[a] = "active" => Kept(p, It) # {}
  BY LastChanged
<1>2. /\ m.field = p.field /\ Fits(m) /\ m.isCommitting = {} /\ Calls(m) = {}
      /\ It \in m.isActive /\ m.modal = NoEntity
  <2>1. Fits(m) /\ Calls(m) = Calls(p)
    BY AlikeFits
  <2>2. Calls(p) = {}
    BY DEF Rest, Calls, ToSet
  <2> QED
    BY <2>1, <2>2 DEF Alike, Remembers, OpenFor
<1>3. FitsBut(m, a) /\ Sits(m, a) /\ Free(m, a)
  BY <1>1, <1>2, FitsParts DEF Waits
<1>4. ASSUME NEW to \in {"candidate", "saving"}, <<m.field[a], to>> \in Moves,
             NEW n, n = SetField(m, a, to, "none")
      PROVE  After(m, n, a, to)
  <2>1. Handed(m, a, to) /\ ~HopsTo(m, a, to, "none")
    BY <1>4 DEF Handed, HopsTo, Active
  <2>2. to \notin {"activating", "saved", "inactive"}
    BY <1>4
  <2> QED
    BY <1>3, <1>4, <2>1, <2>2, MoveFits
<1>5. CASE p.field[a] = "active"
  <2>1. PICK n : n = SetField(m, a, "candidate", "none")
    OBVIOUS
  <2>2. <<m.field[a], "candidate">> \in Moves
    BY <1>2, <1>5 DEF Moves
  <2>3. After(m, n, a, "candidate")
    BY <1>4, <2>1, <2>2
  <2>4. n.field[a] = "candidate" /\ \A g \in Field \ {a} : n.field[g] \in Ready
    BY <1>1, <1>2, <2>3, FieldsAfter
  <2>5. SetEach(m, Those(m, It, {"active"}), "candidate", "none") = n
    <3>1. {f \in Field : m.field[f] \in {"active"}} = {a}
      BY <1>1, <1>2, <1>5 DEF Ready
    <3>2. Those(m, It, {"active"}) \in Seq({a}) /\ Those(m, It, {"active"}) # <<>>
      BY <3>1, ThoseAre
    <3>3. SetField(n, a, "candidate", "none") = n
      BY <2>4, SetAgain
    <3> QED
      BY <2>1, <3>2, <3>3, SetOne
  <2>6. AllIn(n, Ready)
    BY <2>4 DEF AllIn, Ready
  <2>7. SetEach(n, Those(n, It, Changed), "saving", "none") = n
    <3>1. {f \in Field : n.field[f] \in Changed} = {}
      BY <2>6 DEF AllIn, Ready, Changed
    <3>2. Those(n, It, Changed) \in Seq({})
      BY <3>1, ThoseAre
    <3> QED
      BY <3>2, SetNone
  <2>8. q = n
    BY <2>5, <2>7 DEF Commit
  <2>9. /\ Fits(n) /\ Calls(n) = {} /\ n.entity[It] = "committing" /\ n.modal = NoEntity
        /\ It \in n.isActive /\ It \in n.isCommitting
    BY <1>2, <2>3, <2>6 DEF After, Told, Moved
  <2>10. Committing(n)
    BY <2>6, <2>9 DEF Committing, AllIn
  <2> QED
    BY <1>1, <1>5, <2>8, <2>9, <2>10, CommittingOrderly
<1>6. CASE p.field[a] = "changed"
  <2>1. PICK n : n = SetField(m, a, "saving", "none")
    OBVIOUS
  <2>2. <<m.field[a], "saving">> \in Moves
    BY <1>2, <1>6 DEF Moves
  <2>3. After(m, n, a, "saving")
    BY <1>4, <2>1, <2>2
  <2>4. n.field[a] = "saving" /\ \A g \in Field \ {a} : n.field[g] \in Ready
    BY <1>1, <1>2, <2>3, FieldsAfter
  <2>5. SetEach(m, Those(m, It, {"active"}), "candidate", "none") = m
    <3>1. {f \in Field : m.field[f] \in {"active"}} = {}
      BY <1>1, <1>2, <1>6 DEF Ready
    <3>2. Those(m, It, {"active"}) \in Seq({})
      BY <3>1, ThoseAre
    <3> QED
      BY <3>2, SetNone
  <2>6. SetEach(m, Those(m, It, Changed), "saving", "none") = n
    <3>1. {f \in Field : m.field[f] \in Changed} = {a}
      BY <1>1, <1>2, <1>6 DEF Ready, Changed
    <3>2. Those(m, It, Changed) \in Seq({a}) /\ Those(m, It, Changed) # <<>>
      BY <3>1, ThoseAre
    <3>3. SetField(n, a, "saving", "none") = n
      BY <2>4, SetAgain
    <3> QED
      BY <2>1, <3>2, <3>3, SetOne
  <2>7. q = n
    BY <2>5, <2>6 DEF Commit
  <2>8. ~AllIn(n, Ready) /\ AllIn(n, Ready \union Busy)
    BY <2>4 DEF AllIn, Ready, Busy
  <2>9. /\ Fits(n) /\ Calls(n) = {} /\ n.entity[It] = "committing" /\ n.modal = NoEntity
        /\ It \in n.isActive /\ It \notin n.isCommitting
    BY <1>2, <2>3, <2>8 DEF After, Told, Moved
  <2>10. Committing(n)
    BY <2>8, <2>9 DEF Committing
  <2> QED
    BY <2>4, <2>7, <2>9, <2>10, CommittingOrderly
<1> QED
  BY <1>1, <1>5, <1>6

LEMMA CommitEntered ==
  ASSUME OneEntity, NEW p \in Fine, OpenFor(p), NEW why
  PROVE  SetEntity(p, It, "committing", why, {})
           = Commit([p EXCEPT !.entity[It] = "committing"], It)
<1>1. AcceptsSet(p, It) /\ p.entity[It] # "committing"
  BY DEF AcceptsSet, OpenFor
<1>2. EntityPosition[p.entity[It]] < EntityPosition["committing"]
  BY EntityPositionIs DEF OpenFor
<1>3. AcceptsState(p, It, "committing", why, {})
  BY <1>2 DEF AcceptsState
<1>4. SetEntity(p, It, "committing", why, {}) = EnterEntity(p, It, "committing", why)
  BY <1>1, <1>3 DEF SetEntity
<1> QED
  BY <1>4 DEF EnterEntity

LEMMA SaveOrderly ==
  ASSUME OneEntity, page \in Fine, Orderly(page, copied), trouble = {}, ClickSave(It)
  PROVE  Orderly(page', copied')
<1>1. /\ Hands /\ It \in page.isDirty /\ page.entity[It] = "opened" /\ copied' = copied
      /\ page' = SetEntity(page, It, "committing", "none", {})
  BY DEF ClickSave, Stored
<1>2. /\ Rest(page)
      /\ OpenFor(page) /\ Settles(page) /\ Fits(page)
      /\ Kept(page, It) # {} => ContentOf[It] \in copied
      /\ \A f \in Field : page.field[f] \in Still \union {"active", "changed"}
  BY <1>1, HandsAre
<1>3. \A f \in Field : page.field[f] \in Ready \union {"active", "changed"}
  BY <1>2 DEF OpenFor, Still, Ready
<1>4. Asks(page)
  <2>1. \A f \in Field : page.field[f] # "saving"
    BY <1>3 DEF Ready
  <2> QED
    BY <1>1, <1>2, <2>1 DEF Settles, Asks
<1>5. PICK m \in Fine : /\ m = [page EXCEPT !.entity[It] = "committing"]
                        /\ m.entity[It] = "committing" /\ Alike(page, m) /\ m.editor = page.editor
  BY EntityAt DEF EntityState
<1>6. page' = Commit(m, It)
  BY <1>1, <1>2, <1>5, CommitEntered
<1>7. PICK q : q = Commit(m, It)
  OBVIOUS
<1>8. Orderly(q, copied)
  BY <1>2, <1>3, <1>4, <1>5, <1>7, CommitOrderly
<1> QED
  BY <1>1, <1>6, <1>7, <1>8

LEMMA ModalSaveOrderly ==
  ASSUME OneEntity, page \in Fine, Orderly(page, copied), ModalSave
  PROVE  Orderly(page', copied')
<1>1. page.modal # NoEntity /\ copied' = copied
  BY DEF ModalSave, Stored
<1>2. page.modal = It
  BY <1>1, ModalClosed
<1>3. PICK p \in Fine :
        /\ p = [page EXCEPT !.modal = NoEntity]
        /\ OpenFor(p) /\ Rest(p) /\ Fits(p) /\ Settles(p) /\ Asks(p)
        /\ Kept(p, It) # {} => ContentOf[It] \in copied
        /\ \A f \in Field : p.field[f] \in Ready \union {"active", "changed"}
  BY <1>1, ModalClosed
<1>4. PICK m \in Fine : /\ m = [p EXCEPT !.entity[It] = "committing"]
                        /\ m.entity[It] = "committing" /\ Alike(p, m) /\ m.editor = p.editor
  BY EntityAt DEF EntityState
<1>5. PICK q : q = Commit(m, It)
  OBVIOUS
<1>6. page' = q
  BY <1>2, <1>3, <1>4, <1>5, CommitEntered DEF ModalSave
<1>7. Orderly(q, copied)
  BY <1>3, <1>4, <1>5, CommitOrderly
<1> QED
  BY <1>1, <1>6, <1>7

-----------------------------------------------------------------------------
(* The oldest callback is taken from the queue.                            *)

Stays(p, q) ==
  /\ Steady(p, q) /\ Remembers(p, q)
  /\ q.form = p.form /\ q.typed = p.typed /\ q.activeField = p.activeField

LEMMA StaysIs ==
  ASSUME NEW p, NEW q, Stays(p, q)
  PROVE  /\ Settles(p) <=> Settles(q)
         /\ Asks(p) <=> Asks(q)
         /\ Clean(p) <=> Clean(q)
         /\ Kept(q, It) = Kept(p, It)
         /\ \A S : AllIn(p, S) <=> AllIn(q, S)
         /\ \A f \in Field : Sits(p, f) <=> Sits(q, f)
         /\ OpenFor(p) /\ Calls(q) \subseteq Calls(p) => OpenFor(q)
<1>1. Kept(q, It) = Kept(p, It) /\ \A S : AllIn(p, S) <=> AllIn(q, S)
  BY DEF Stays, Remembers, Kept, Steady, AllIn
<1>2. /\ Settles(p) <=> Settles(q)
      /\ Asks(p) <=> Asks(q)
      /\ Clean(p) <=> Clean(q)
  BY <1>1 DEF Settles, Asks, Clean, Stays, Steady, Remembers
<1>3. \A f \in Field : Sits(p, f) <=> Sits(q, f)
  BY DEF Sits, Stays, Steady
<1>4. OpenFor(p) /\ Calls(q) \subseteq Calls(p) => OpenFor(q)
  BY DEF OpenFor, Stays, Steady, Remembers
<1> QED
  BY <1>1, <1>2, <1>3, <1>4

LEMMA StaysFits ==
  ASSUME NEW p, NEW q, Stays(p, q), NEW f \in Field, FitsBut(p, f), Once(q.deferred),
         \A g \in Field \ {f} :
           TasksOf(q, g) = TasksOf(p, g) /\ RequestsOf(q, g) = RequestsOf(p, g)
  PROVE  FitsBut(q, f)
<1>1. ASSUME NEW g \in Field \ {f} PROVE Sits(q, g) /\ Waits(q, g)
  <2>1. Sits(p, g) /\ Waits(p, g)
    BY DEF FitsBut
  <2>2. Sits(q, g)
    BY <2>1, StaysIs
  <2> QED
    BY <2>1, <2>2, WaitsOn DEF Stays, Steady
<1> QED
  BY <1>1 DEF FitsBut, Stays

LEMMA PopIs ==
  ASSUME NEW p \in Fine, p.deferred # <<>>
  PROVE  \E q \in Fine : /\ q = [p EXCEPT !.deferred = Tail(@)]
                         /\ Stays(p, q) /\ q.requests = p.requests /\ q.deferred = Tail(p.deferred)
<1>1. p \in Page /\ p.deferred \in Queues
  BY DEF Fine, Good, Page
<1>2. PICK d \in Queues : d = Tail(p.deferred)
  BY <1>1, TailIs
<1>3. PICK q : q = [p EXCEPT !.deferred = d]
  OBVIOUS
<1>4. /\ q \in Page /\ Same(p, q) /\ Stays(p, q)
      /\ q.requests = p.requests /\ q.deferred = d
  BY <1>1, <1>3 DEF Page, Same, Shown, Stays, Steady, Remembers
<1>5. q \in Fine
  BY <1>4, SameGood DEF Fine
<1> QED
  BY <1>2, <1>3, <1>4, <1>5

LEMMA PopCall ==
  ASSUME OneEntity, NEW p \in Fine, Fits(p), p.deferred # <<>>, ~OfField(Head(p.deferred)),
         NEW q, Stays(p, q), q.requests = p.requests, q.deferred = Tail(p.deferred)
  PROVE  /\ Fits(q) /\ SameWaits(p, q) /\ Calls(p) = Calls(q) \union {Head(p.deferred)}
         /\ Head(p.deferred) \in Tasks
<1>1. p.deferred \in Queues
  BY DEF Fine, Good, Page
<1>2. PICK t \in Tasks : t = Head(p.deferred)
  BY <1>1, TailIs
<1>3. ToSet(p.deferred) = {t} \union ToSet(q.deferred)
  BY <1>1, <1>2, TailIs
<1>4. ~OfField(t)
  BY <1>2
<1>5. \A g \in Field : TasksOf(q, g) = TasksOf(p, g) /\ RequestsOf(q, g) = RequestsOf(p, g)
  BY <1>3, <1>4 DEF TasksOf, RequestsOf
<1>6. Calls(p) = Calls(q) \union {t}
  BY <1>3, <1>4 DEF Calls
<1>7. Once(q.deferred)
  BY <1>1, OnceTail DEF Fits
<1>8. PICK f \in Field : TRUE
  BY DEF OneEntity
<1>9. FitsBut(q, f)
  BY <1>5, <1>7, FitsParts, StaysFits
<1>10. Sits(q, f) /\ Waits(q, f)
  <2>1. Sits(p, f) /\ Waits(p, f)
    BY DEF Fits
  <2> QED
    BY <1>5, <2>1, StaysIs, WaitsOn DEF Stays, Steady
<1> QED
  BY <1>2, <1>5, <1>6, <1>9, <1>10, FitsParts DEF SameWaits

(* What a field waits for tells the state it is in.                        *)
LEMMA TaskTells ==
  ASSUME NEW p \in Fine, NEW f \in Field, Waits(p, f), Sits(p, f), NEW t, t \in TasksOf(p, f)
  PROVE  /\ TasksOf(p, f) = {t} /\ RequestsOf(p, f) = {}
         /\ t.do = "field" => p.field[f] = "activating"
         /\ t.do \in {"html", "rerender"} => p.field[f] = "saved"
         /\ t.do = "replace" => p.field[f] \in Ready
<1>1. p.field[f] \in FieldState /\ p.field[f] # "invalid"
  BY DEF Sits, Fine, Good, Page
<1>2. TasksOf(p, f) # {} /\ ~Free(p, f)
  BY DEF Free
<1>3. p.field[f] \notin {"inactive", "active", "changed", "saving"}
  BY <1>2 DEF Waits, WaitsForAnswer
<1>4. CASE p.field[f] \in Ready
  BY <1>2, <1>4 DEF Waits, WaitsForTask, Ready
<1>5. CASE p.field[f] = "activating"
  BY <1>2, <1>5 DEF Waits, WaitsForTask, WaitsForAnswer
<1>6. CASE p.field[f] = "saved"
  BY <1>2, <1>6 DEF Waits, WaitsForTask
<1> QED
  BY <1>1, <1>3, <1>4, <1>5, <1>6 DEF FieldState, Ready

LEMMA PopField ==
  ASSUME OneEntity, NEW p \in Fine, Fits(p), p.deferred # <<>>, OfField(Head(p.deferred)),
         NEW f, f = About(Head(p.deferred)),
         NEW q, Stays(p, q), q.requests = p.requests, q.deferred = Tail(p.deferred)
  PROVE  /\ f \in Field /\ Free(q, f) /\ FitsBut(q, f) /\ Sits(q, f) /\ Calls(q) = Calls(p)
         /\ Head(p.deferred).do = "field" => p.field[f] = "activating"
         /\ Head(p.deferred).do \in {"html", "rerender"} => p.field[f] = "saved"
         /\ Head(p.deferred).do = "replace" => p.field[f] \in Ready
<1>1. p.deferred \in Queues
  BY DEF Fine, Good, Page
<1>2. PICK t \in Tasks : t = Head(p.deferred)
  BY <1>1, TailIs
<1>3. ToSet(p.deferred) = {t} \union ToSet(q.deferred)
  BY <1>1, <1>2, TailIs
<1>4. OfField(t) /\ f = About(t)
  BY <1>2
<1>5. f \in Field
  BY <1>4 DEF Tasks, EntityTasks, OfField, About
<1>6. t \in TasksOf(p, f)
  BY <1>3, <1>4 DEF TasksOf
<1>7. /\ TasksOf(p, f) = {t} /\ RequestsOf(p, f) = {}
      /\ t.do = "field" => p.field[f] = "activating"
      /\ t.do \in {"html", "rerender"} => p.field[f] = "saved"
      /\ t.do = "replace" => p.field[f] \in Ready
  BY <1>5, <1>6, TaskTells DEF Fits
<1>8. Once(q.deferred) /\ \A u \in ToSet(q.deferred) : OfField(u) => About(u) # f
  BY <1>1, <1>2, <1>4, OnceTail DEF Fits
<1>9. TasksOf(q, f) = {}
  BY <1>8 DEF TasksOf
<1>10. Free(q, f)
  BY <1>7, <1>9 DEF Free, RequestsOf
<1>11. \A g \in Field \ {f} : TasksOf(q, g) = TasksOf(p, g) /\ RequestsOf(q, g) = RequestsOf(p, g)
  BY <1>3, <1>4 DEF TasksOf, RequestsOf
<1>12. FitsBut(q, f)
  BY <1>5, <1>8, <1>11, FitsParts, StaysFits
<1>13. Sits(q, f)
  BY <1>5, StaysIs DEF Fits
<1>14. Calls(q) = Calls(p)
  BY <1>3, <1>4 DEF Calls
<1> QED
  BY <1>2, <1>5, <1>7, <1>10, <1>12, <1>13, <1>14

(* The callbacks on behalf of the entity, by its state.                    *)
LEMMA CallsKnown ==
  ASSUME OneEntity, NEW p \in Fine, NEW C, Orderly(p, C), NEW t \in Calls(p)
  PROVE  \/ t = Task("confirm", It) /\ p.deferred = <<t>> /\ p.requests = {} /\ p.entity[It] = "opened"
         \/ /\ t \in EntityTasks /\ t.e = It
            /\ \/ Goes(t, "opening") /\ p.entity[It] = "launching" /\ p.deferred = <<t>> /\ t.ready = {}
               \/ Goes(t, "opened") /\ p.entity[It] \in {"opening", "opened"} /\ t.ready = Ready
               \/ /\ Goes(t, "closing") /\ t.ready = Ready
                  /\ p.entity[It] \in {"closed", "deactivating", "closing"}
               \/ /\ Goes(t, "closed") /\ p.entity[It] \in {"closed", "closing"}
                  /\ t.ready = {"inactive"}
<1>1. p.deferred \in Queues /\ p.entity[It] \in EntityState
  BY ItIs DEF Fine, Good, Page
<1>2. t \in ToSet(p.deferred) /\ t \in Tasks /\ ~OfField(t)
  BY <1>1, ToSetElement DEF Calls
<1>3. Goes(t, "opening") \/ Goes(t, "opened") \/ Goes(t, "closing") \/ Goes(t, "closed")
        => t \in EntityTasks /\ t.e = It /\ <<t.to, t.ready>> \in Ways
  <2>1. t.do = "entity" => t \in EntityTasks
    BY <1>2 DEF Tasks
  <2> QED
    BY <2>1, ItIs DEF Goes, EntityTasks
<1>4. CASE p.entity[It] \in {"closed", "closing", "deactivating"}
  BY <1>3, <1>4 DEF Orderly, Phase, Closed, Closing, Deactivating, Goes, Ways
<1>5. CASE p.entity[It] = "launching"
  <2>1. p.deferred = <<EntityTask(It, "opening", {})>>
    BY <1>5 DEF Orderly, Phase, Launching
  <2>2. t = EntityTask(It, "opening", {})
    BY <1>2, <2>1 DEF ToSet
  <2>3. Goes(t, "opening") /\ t.ready = {}
    BY <2>2 DEF Goes, EntityTask
  <2> QED
    BY <1>3, <1>5, <2>1, <2>2, <2>3
<1>6. CASE p.entity[It] = "opening"
  BY <1>2, <1>3, <1>6 DEF Orderly, Phase, Opening, Goes, Ways
<1>7. CASE p.entity[It] = "committing"
  BY <1>7 DEF Orderly, Phase, Committing
<1>8. CASE p.entity[It] = "opened"
  <2>1. CASE \A u \in Calls(p) : Goes(u, "opened")
    BY <1>3, <1>8, <2>1 DEF Goes, Ways
  <2>2. CASE p.deferred = <<Task("confirm", It)>> /\ p.requests = {}
    <3>1. t = Task("confirm", It)
      BY <1>2, <2>2 DEF ToSet
    <3> QED
      BY <1>8, <2>2, <3>1
  <2> QED
    BY <1>8, <2>1, <2>2 DEF Orderly, Phase, Opened
<1> QED
  BY <1>1, <1>4, <1>5, <1>6, <1>7, <1>8 DEF EntityState

-----------------------------------------------------------------------------
(* While a field waits for its value, or to be replaced after it was saved,*)
(* its entity is opened or being committed.                                *)

Lively(p, C) ==
  /\ p.modal = NoEntity
  /\ \/ OpenFor(p) /\ Settles(p) /\ (Kept(p, It) # {} => ContentOf[It] \in C)
     \/ /\ p.entity[It] = "committing" /\ Committing(p)
        /\ ContentOf[It] \in C \/ \E f \in Field : p.field[f] = "saving"

LEMMA LivelyOrderly ==
  ASSUME OneEntity, NEW p, NEW C, Fits(p), Lively(p, C)
  PROVE  Orderly(p, C)
BY OpenOrderly, CommittingOrderly DEF Lively

LEMMA CommittingStays ==
  ASSUME NEW p, NEW q, Stays(p, q), Calls(q) = Calls(p), Committing(p)
  PROVE  Committing(q)
<1>1. q.isActive = p.isActive /\ q.isCommitting = p.isCommitting
  BY DEF Stays, Steady, Remembers
<1>2. \A S : AllIn(p, S) <=> AllIn(q, S)
  BY StaysIs
<1> QED
  BY <1>1, <1>2 DEF Committing

LEMMA LivelyStays ==
  ASSUME NEW p, NEW q, NEW C, Stays(p, q), Calls(q) = Calls(p), Lively(p, C)
  PROVE  Lively(q, C)
<1>1. q.modal = p.modal /\ q.entity = p.entity /\ q.field = p.field /\ Kept(q, It) = Kept(p, It)
  BY StaysIs DEF Stays, Steady
<1>2. /\ OpenFor(p) => OpenFor(q)
      /\ Settles(p) => Settles(q)
      /\ Committing(p) => Committing(q)
  BY StaysIs, CommittingStays
<1> QED
  BY <1>1, <1>2 DEF Lively

LEMMA LivelyIs ==
  ASSUME OneEntity, NEW p \in Fine, NEW C, Orderly(p, C), NEW f \in Field, ~Free(p, f),
         p.field[f] \in {"activating", "saving", "saved"}
  PROVE  /\ Lively(p, C) /\ Fits(p) /\ p.modal = NoEntity
         /\ p.field[f] = "activating" => OpenFor(p)
<1>1. p.entity[It] \in EntityState /\ p.deferred \in Queues
  BY ItIs DEF Fine, Good, Page
<1>2. p.entity[It] \notin {"closed", "launching", "opening", "deactivating", "closing"}
  BY DEF Orderly, Phase, Closed, Launching, Opening, Deactivating, Closing, AllIn, Ready
<1>3. p.deferred # <<Task("confirm", It)>> \/ p.requests # {}
  <2>1. RequestsOf(p, f) # {} => p.requests # {}
    BY DEF RequestsOf
  <2>2. TasksOf(p, f) # {} => p.deferred # <<Task("confirm", It)>>
    <3>1. ASSUME p.deferred = <<Task("confirm", It)>>, NEW t \in TasksOf(p, f) PROVE FALSE
      <4>1. t = Task("confirm", It) /\ OfField(t)
        BY <3>1 DEF TasksOf, ToSet
      <4> QED
        BY <4>1 DEF OfField, Task
    <3> QED
      BY <3>1
  <2> QED
    BY <2>1, <2>2 DEF Free
<1>4. p.modal = NoEntity
  <2>1. p.deferred = <<>> => TasksOf(p, f) = {}
    BY DEF TasksOf, ToSet
  <2>2. p.requests = {} => RequestsOf(p, f) = {}
    BY DEF RequestsOf
  <2> QED
    BY <2>1, <2>2 DEF Orderly, Asked, Free
<1>5. CASE p.entity[It] = "opened"
  BY <1>3, <1>4, <1>5, OpenWhen DEF Lively
<1>6. CASE p.entity[It] = "committing"
  <2>1. p.field[f] # "activating"
    BY <1>6 DEF Orderly, Phase, Committing, AllIn, Ready, Busy
  <2> QED
    BY <1>4, <1>6, <2>1 DEF Lively, Orderly, Phase, Copied
<1> QED
  BY <1>1, <1>2, <1>5, <1>6 DEF EntityState

LEMMA OpenLively ==
  ASSUME NEW p, NEW C, OpenFor(p), Settles(p), Kept(p, It) # {} => ContentOf[It] \in C
  PROVE  Lively(p, C)
BY DEF Lively, OpenFor

LEMMA LivelyOpen ==
  ASSUME NEW p, NEW C, OpenFor(p), Lively(p, C)
  PROVE  Settles(p) /\ (Kept(p, It) # {} => ContentOf[It] \in C)
BY DEF Lively, OpenFor

(* A field that was activated becomes active.                              *)
LEMMA ActiveOrderly ==
  ASSUME OneEntity, NEW p \in Fine, NEW C, OpenFor(p), Lively(p, C), NEW f \in Field,
         FitsBut(p, f), Sits(p, f), Free(p, f), p.field[f] = "activating",
         NEW q, q = SetField(p, f, "active", "none")
  PROVE  Orderly(q, C)
<1>1. Settles(p) /\ (Kept(p, It) # {} => ContentOf[It] \in C)
  BY LivelyOpen
<1>2. <<p.field[f], "active">> \in Moves
  BY DEF Moves
<1>3. Handed(p, f, "active")
  <2>1. ASSUME NEW g \in Field \ {f} PROVE p.field[g] \notin Active \union {"changed"}
    <3>1. p.activeField = f
      BY DEF Sits, Active
    <3>2. Sits(p, g)
      BY DEF FitsBut
    <3> QED
      BY <3>1, <3>2 DEF Sits
  <2> QED
    BY <2>1 DEF Handed
<1>4. ~HopsTo(p, f, "active", "none")
  BY DEF HopsTo, Ready
<1>5. After(p, q, f, "active")
  BY <1>2, <1>3, <1>4, MoveFits
<1>6. OpenFor(q) /\ Settles(q) /\ Fits(q) /\ Kept(q, It) = Kept(p, It)
  BY <1>1, <1>2, <1>5, OpenStep
<1> QED
  BY <1>1, <1>6, OpenOrderly

(* A callback is deferred for a field that waits for nothing.              *)
Awaits(p, f, do) ==
  \/ p.field[f] = "saved" /\ do \in {"html", "rerender"}
  \/ p.field[f] \in Ready /\ do = "replace"

LEMMA NoteOrderly ==
  ASSUME OneEntity, NEW p \in Fine, NEW C, Lively(p, C), NEW f \in Field,
         FitsBut(p, f), Sits(p, f), Free(p, f), NEW do, Awaits(p, f, do),
         NEW q, q = Defer(p, Task(do, f))
  PROVE  Orderly(q, C)
<1>1. PICK t : t = Task(do, f)
  OBVIOUS
<1>2. t \in Tasks /\ OfField(t) /\ About(t) = f /\ t.do = do
  BY <1>1 DEF Tasks, Task, Awaits, OfField, About
<1>3. p \in Page /\ TasksOf(p, f) = {} /\ RequestsOf(p, f) = {}
  BY DEF Fine, Good, Free
<1>4. Stays(p, q) /\ q.requests = p.requests /\ q.deferred = Append(p.deferred, t)
  BY <1>1, <1>3 DEF Page, Defer, Stays, Steady, Remembers
<1>5. /\ Calls(q) = Calls(p) /\ Once(q.deferred)
      /\ TasksOf(q, f) = {t} /\ \A g \in Field \ {f} : TasksOf(q, g) = TasksOf(p, g)
  <2>1. Once(p.deferred) /\ TasksOf(p, About(t)) = {}
    BY <1>2, <1>3 DEF FitsBut
  <2>2. /\ Calls(q) = Calls(p) /\ Once(q.deferred)
        /\ TasksOf(q, About(t)) = {t} /\ SameTasks(p, q, About(t))
    BY <1>2, <1>3, <1>4, <2>1, TaskNews
  <2> QED
    BY <1>2, <2>2 DEF SameTasks
<1>6. \A g \in Field : RequestsOf(q, g) = RequestsOf(p, g)
  BY <1>4 DEF RequestsOf
<1>7. FitsBut(q, f) /\ Sits(q, f)
  BY <1>4, <1>5, <1>6, StaysFits, StaysIs
<1>8. q.field[f] = p.field[f]
  BY <1>4 DEF Stays, Steady
<1>9. WaitsForTask(q, f, {do})
  BY <1>2, <1>3, <1>5, <1>6 DEF WaitsForTask
<1>10. Waits(q, f)
  BY <1>2, <1>5, <1>8, <1>9 DEF Waits, WaitsForTask, Awaits, Ready
<1>11. Fits(q)
  BY <1>7, <1>10, FitsParts
<1>12. Lively(q, C)
  BY <1>4, <1>5, LivelyStays
<1> QED
  BY <1>11, <1>12, LivelyOrderly

(* The oldest callback is one of a field.                                  *)
Popped(p, q) ==
  /\ p.deferred # <<>> /\ Stays(p, q)
  /\ q.requests = p.requests /\ q.deferred = Tail(p.deferred)

LEMMA FieldPopped ==
  ASSUME OneEntity, NEW p \in Fine, NEW C, Orderly(p, C), NEW q, Popped(p, q),
         OfField(Head(p.deferred)), NEW f, f = About(Head(p.deferred))
  PROVE  /\ f \in Field /\ Free(q, f) /\ FitsBut(q, f) /\ Sits(q, f) /\ Calls(q) = Calls(p)
         /\ Head(p.deferred).do = "field" => q.field[f] = "activating" /\ Lively(q, C) /\ OpenFor(q)
         /\ Head(p.deferred).do \in {"html", "rerender"} => q.field[f] = "saved" /\ Lively(q, C)
         /\ Head(p.deferred).do = "replace" => q.field[f] \in Ready
<1>1. p.deferred # <<>> /\ Stays(p, q) /\ q.requests = p.requests /\ q.deferred = Tail(p.deferred)
  BY DEF Popped
<1>2. Fits(p)
  BY DEF Orderly
<1>3. PICK t : t = Head(p.deferred)
  OBVIOUS
<1>4. /\ f \in Field /\ Free(q, f) /\ FitsBut(q, f) /\ Sits(q, f) /\ Calls(q) = Calls(p)
      /\ t.do = "field" => p.field[f] = "activating"
      /\ t.do \in {"html", "rerender"} => p.field[f] = "saved"
      /\ t.do = "replace" => p.field[f] \in Ready
  BY <1>1, <1>2, <1>3, PopField
<1>5. t \in TasksOf(p, f)
  <2>1. p.deferred \in Queues
    BY DEF Fine, Good, Page
  <2>2. t \in ToSet(p.deferred)
    BY <1>1, <1>3, <2>1, TailIs
  <2> QED
    BY <1>3, <2>2 DEF TasksOf
<1>6. ~Free(p, f)
  BY <1>5 DEF Free
<1>7. p.field[f] \in {"activating", "saved"} => Lively(q, C)
  <2>1. p.field[f] \in {"activating", "saved"} => Lively(p, C)
    BY <1>4, <1>6, LivelyIs
  <2> QED
    BY <1>1, <1>4, <2>1, LivelyStays
<1>8. p.field[f] = "activating" => OpenFor(q)
  <2>1. p.field[f] = "activating" => OpenFor(p)
    BY <1>4, <1>6, LivelyIs
  <2> QED
    BY <1>1, <1>4, <2>1, StaysIs
<1>9. q.field = p.field
  BY <1>1 DEF Stays, Steady
<1> QED
  BY <1>3, <1>4, <1>7, <1>8, <1>9

LEMMA FieldRuns ==
  ASSUME OneEntity, NEW p \in Fine, NEW C, Orderly(p, C), NEW q \in Fine, Popped(p, q),
         NEW t, t = Head(p.deferred), t.do = "field", NEW n, n = SetField(q, t.f, "active", "none")
  PROVE  Orderly(n, C)
<1>1. OfField(t) /\ About(t) = t.f
  BY DEF OfField, About
<1>2. PICK f : f = t.f
  OBVIOUS
<1>3. /\ f \in Field /\ Free(q, f) /\ FitsBut(q, f) /\ Sits(q, f)
      /\ q.field[f] = "activating" /\ Lively(q, C) /\ OpenFor(q)
  BY <1>1, <1>2, FieldPopped
<1> QED
  BY <1>2, <1>3, ActiveOrderly

LEMMA HtmlIs ==
  ASSUME OneMode, NEW p, NEW f \in Field
  PROVE  SetHtml(p, f) = Defer(p, Task("rerender", f))
<1>1. PICK b : b = Defer(p, Task("rerender", f))
  OBVIOUS
<1> DEFINE S == {b}
           F == {}
<1>2. OtherModes[f] \in Seq(F) /\ b \in S /\ \A q \in S, x \in F : RenderField(q, x) \in S
  <2>1. OtherModes[f] = <<>>
    BY DEF OneMode
  <2>2. OtherModes[f] \in Seq(F)
    BY <2>1
  <2> QED
    BY <2>2
<1>3. RenderAll(b, OtherModes[f]) \in S
  <2> HIDE DEF S, F
  <2> QED
    BY <1>2, RenderFold
<1> QED
  BY <1>1, <1>3 DEF SetHtml, RenderAll

LEMMA HtmlRuns ==
  ASSUME OneEntity, OneMode, NEW p \in Fine, NEW C, Orderly(p, C), NEW q \in Fine, Popped(p, q),
         NEW t, t = Head(p.deferred), t.do = "html", NEW n, n = SetHtml(q, t.x)
  PROVE  Orderly(n, C)
<1>1. OfField(t) /\ About(t) = t.x
  BY DEF OfField, About
<1>2. PICK f : f = t.x
  OBVIOUS
<1>3. /\ f \in Field /\ Free(q, f) /\ FitsBut(q, f) /\ Sits(q, f)
      /\ q.field[f] = "saved" /\ Lively(q, C)
  BY <1>1, <1>2, FieldPopped
<1>4. Awaits(q, f, "rerender")
  BY <1>3 DEF Awaits
<1>5. n = Defer(q, Task("rerender", f))
  BY <1>2, <1>3, HtmlIs
<1> QED
  BY <1>3, <1>4, <1>5, NoteOrderly

(* A field that was saved is ready again, and is going to be replaced.     *)
LEMMA LivelyMoves ==
  ASSUME OneEntity, NEW p \in Fine, NEW C, Lively(p, C), NEW f \in Field, Sits(p, f),
         p.field[f] = "saved", NEW q, After(p, q, f, "candidate")
  PROVE  Lively(q, C) /\ Fits(q)
<1>1. Fits(q) /\ q.entity = p.entity /\ q.modal = p.modal /\ q.isActive = p.isActive
  BY DEF After, Moved
<1>2. CASE OpenFor(p)
  <2>1. Settles(p) /\ (Kept(p, It) # {} => ContentOf[It] \in C)
    BY <1>2, LivelyOpen
  <2>2. <<p.field[f], "candidate">> \in Moves
    BY DEF Moves
  <2>3. OpenFor(q) /\ Settles(q) /\ Fits(q) /\ Kept(q, It) = Kept(p, It)
    BY <1>2, <2>1, <2>2, OpenStep
  <2> QED
    BY <2>1, <2>3, OpenLively
<1>3. CASE p.entity[It] = "committing"
  <2>1. Committing(p) /\ (ContentOf[It] \in C \/ \E g \in Field : p.field[g] = "saving")
        /\ p.modal = NoEntity
    BY <1>3 DEF Lively, OpenFor
  <2>2. q.field[f] = "candidate" /\ \A g \in Field \ {f} : q.field[g] = p.field[g]
    BY FieldsAfter
  <2>3. Calls(q) = Calls(p) /\ (It \in q.isCommitting <=> It \in p.isCommitting \/ AllIn(q, Ready))
    BY <1>3 DEF After, Told
  <2>4. ~AllIn(p, Ready) /\ AllIn(q, Ready \union Busy)
    BY <2>1, <2>2 DEF Committing, AllIn, Ready, Busy
  <2>5. Committing(q)
    BY <1>1, <2>1, <2>3, <2>4 DEF Committing
  <2>6. ContentOf[It] \in C \/ \E g \in Field : q.field[g] = "saving"
    BY <2>1, <2>2
  <2> QED
    BY <1>1, <1>3, <2>1, <2>5, <2>6 DEF Lively
<1> QED
  BY <1>1, <1>2, <1>3 DEF Lively

LEMMA RerenderRuns ==
  ASSUME OneEntity, NEW p \in Fine, NEW C, Orderly(p, C), NEW q \in Fine, Popped(p, q),
         NEW t, t = Head(p.deferred), t.do = "rerender",
         NEW n, n = Defer(SetField(q, t.x, "candidate", "none"), Task("replace", t.x))
  PROVE  Orderly(n, C)
<1>1. OfField(t) /\ About(t) = t.x
  BY DEF OfField, About
<1>2. PICK f : f = t.x
  OBVIOUS
<1>3. /\ f \in Field /\ Free(q, f) /\ FitsBut(q, f) /\ Sits(q, f)
      /\ q.field[f] = "saved" /\ Lively(q, C)
  BY <1>1, <1>2, FieldPopped
<1>4. PICK a : a = SetField(q, f, "candidate", "none")
  OBVIOUS
<1>5. After(q, a, f, "candidate")
  <2>1. <<q.field[f], "candidate">> \in Moves
    BY <1>3 DEF Moves
  <2>2. Handed(q, f, "candidate") /\ ~HopsTo(q, f, "candidate", "none")
    BY DEF Handed, HopsTo, Active
  <2> QED
    BY <1>3, <1>4, <2>1, <2>2, MoveFits
<1>6. Lively(a, C)
  BY <1>3, <1>5, LivelyMoves
<1>7. a \in Fine /\ FitsBut(a, f) /\ Sits(a, f) /\ Free(a, f) /\ a.field[f] = "candidate"
  BY <1>5 DEF After, Moved
<1>8. Awaits(a, f, "replace")
  BY <1>7 DEF Awaits, Ready
<1>9. n = Defer(a, Task("replace", f))
  BY <1>2, <1>4
<1> QED
  BY <1>3, <1>6, <1>7, <1>8, <1>9, NoteOrderly

-----------------------------------------------------------------------------
(* A field is replaced: stopped, destroyed, made anew and a candidate.     *)

(* A field without a form is destroyed and made anew: as it was.           *)
LEMMA DestroyedAlike ==
  ASSUME NEW p \in Fine, NEW f \in Field, Free(p, f), p.form[f] = "none", f \notin p.typed,
         p.activeField # f, p.field[f] = "inactive", NEW q, Forgets(TeardownEditor(p, f), q, f)
  PROVE  /\ Stays([p EXCEPT !.editor = @ \ {f}], q) /\ q.deferred = p.deferred
         /\ \A g \in Field : RequestsOf(q, g) = RequestsOf(p, g)
<1>1. p \in Page /\ TasksOf(p, f) = {} /\ RequestsOf(p, f) = {}
  BY DEF Fine, Good, Free
<1>2. PICK a : a = RemoveForm(p, f)
  OBVIOUS
<1>3. Alike(p, a) /\ a.entity = p.entity /\ a.editor = p.editor
  BY <1>1, <1>2, FormlessAlike
<1>4. a \in Page
  <2>1. p.field[f] \notin Unsaved
    BY DEF Unsaved
  <2>2. RemoveForm(p, f) \in Good({})
    BY <2>1, RemoveFormGood DEF Fine
  <2> QED
    BY <1>2, <2>2 DEF Good
<1>5. PICK m : m = TeardownEditor(p, f)
  OBVIOUS
<1>6. m = [a EXCEPT !.editor = @ \ {f}]
  BY <1>2, <1>5 DEF TeardownEditor
<1>7. Alike(a, m) /\ m.entity = a.entity /\ m.editor = a.editor \ {f}
  BY <1>4, <1>6 DEF Page, Alike, Remembers
<1>8. Alike(p, m) /\ m.entity = p.entity /\ m.editor = p.editor \ {f}
  BY <1>3, <1>7 DEF Alike, Remembers
<1>9. Forgets(m, q, f)
  BY <1>5
<1>10. q.deferred = p.deferred
  <2>1. p.deferred \in Seq(Tasks)
    BY <1>1 DEF Page, Queues
  <2>2. m.deferred = p.deferred
    BY <1>8 DEF Alike
  <2>3. \A t \in ToSet(p.deferred) : ~AboutModel(t, f)
    BY <1>1 DEF TasksOf, AboutModel, OfField, About
  <2> DEFINE T == {t \in ToSet(p.deferred) : ~AboutModel(t, f)}
  <2>4. q.deferred = Keep(p.deferred, T)
    BY <1>9, <2>2 DEF Forgets
  <2>5. \A i \in 1..Len(p.deferred) : p.deferred[i] \in T
    <3>1. \A i \in 1..Len(p.deferred) : p.deferred[i] \in ToSet(p.deferred)
      BY <2>1, ToSetElement DEF Queues
    <3> QED
      BY <2>3, <3>1
  <2> HIDE DEF T
  <2> QED
    BY <2>1, <2>4, <2>5, KeepAll
<1>11. ASSUME NEW g \in Field PROVE RequestsOf(q, g) = RequestsOf(p, g)
  <2>1. m.requests = p.requests /\ p.requests \subseteq Requests
    BY <1>1, <1>8 DEF Alike, Page
  <2>2. q.requests = {IF r.x = f THEN [r EXCEPT !.of = "destroyed"] ELSE r : r \in p.requests}
    BY <1>9, <2>1 DEF Forgets
  <2>3. \A r \in p.requests : r.kind # "entity" => r.x # f
    BY <1>1 DEF RequestsOf
  <2>4. ASSUME NEW r \in p.requests, r.x = f
        PROVE  r.kind = "entity" /\ [r EXCEPT !.of = "destroyed"].kind = "entity"
    BY <2>1, <2>3, <2>4 DEF Requests
  <2>5. ASSUME NEW r \in q.requests, r.kind # "entity" PROVE r \in p.requests
    <3>1. PICK u \in p.requests : r = IF u.x = f THEN [u EXCEPT !.of = "destroyed"] ELSE u
      BY <2>2
    <3>2. u.x # f
      BY <2>4, <2>5, <3>1
    <3> QED
      BY <3>1, <3>2
  <2>6. ASSUME NEW r \in p.requests, r.kind # "entity" PROVE r \in q.requests
    BY <2>2, <2>3, <2>6
  <2> QED
    BY <2>5, <2>6 DEF RequestsOf
<1>12. PICK n : n = [p EXCEPT !.editor = @ \ {f}]
  OBVIOUS
<1>13. /\ n.entity = p.entity /\ n.isActive = p.isActive /\ n.modal = p.modal
       /\ n.editor = p.editor \ {f} /\ n.field = p.field /\ n.form = p.form /\ n.typed = p.typed
       /\ n.activeField = p.activeField /\ Remembers(p, n)
  BY <1>1, <1>12 DEF Page, Remembers
<1>14. q.activeField = p.activeField
  BY <1>8, <1>9 DEF Forgets, Alike
<1>15. Stays(n, q)
  BY <1>8, <1>9, <1>13, <1>14 DEF Forgets, Alike, Stays, Steady, Remembers
<1> QED
  BY <1>10, <1>11, <1>12, <1>15

(* The new model of f has an editor, as the old one had.                   *)
Renewed(p, q, f) ==
  /\ Remembers(p, q) /\ q.entity = p.entity /\ q.isActive = p.isActive /\ q.modal = p.modal
  /\ q.editor = p.editor \union {f} /\ q.field = p.field /\ q.form = p.form
  /\ q.typed = p.typed /\ q.activeField = p.activeField /\ q.deferred = p.deferred
  /\ Fits(q) /\ Calls(q) = Calls(p)

LEMMA ActiveEntity ==
  ASSUME OneEntity, NEW p \in Page, It \in p.isActive
  PROVE  Keep(PageOrder, p.isActive) = PageOrder /\ PageOrder # <<>> /\ Head(PageOrder) = It
<1>1. PageOrder \in Seq(Entity) /\ Len(PageOrder) = 1
  BY PageAssumption DEF OneEntity
<1>2. \A i \in 1..Len(PageOrder) : PageOrder[i] \in p.isActive
  BY <1>1 DEF It
<1>3. Keep(PageOrder, p.isActive) = PageOrder
  BY <1>1, <1>2, KeepAll
<1>4. PageOrder # <<>> /\ Head(PageOrder) = PageOrder[1]
  BY <1>1
<1> QED
  BY <1>3, <1>4 DEF It

LEMMA RenewedIs ==
  ASSUME OneEntity, NEW p \in Fine, Fits(p), NEW f \in Field, p.field[f] = "inactive",
         It \in p.isActive, NEW n, n = RenderField(p, f)
  PROVE  \E m \in Fine : Renewed(p, m, f) /\ n = SetField(m, f, "candidate", "none")
<1>1. /\ Free(p, f) /\ p.form[f] = "none" /\ f \notin p.typed /\ p.activeField # f
      /\ p \in Page /\ p \in Good({f})
  <2>1. Sits(p, f) /\ Waits(p, f)
    BY DEF Fits
  <2>2. Free(p, f) /\ p.form[f] = "none" /\ f \notin p.typed /\ p.activeField # f
    BY <2>1 DEF Sits, Waits, Still
  <2> QED
    BY <2>2, FineIsGood DEF Fine, Good
<1>2. PICK q \in Fine : /\ Forgets(TeardownEditor(p, f), q, f)
                        /\ RenderField(p, f) = RerenderedFieldToCandidate(q, f)
  BY <1>1, RenderIs
<1>3. PICK e : e = [p EXCEPT !.editor = @ \ {f}]
  OBVIOUS
<1>4. /\ Stays(e, q) /\ q.deferred = p.deferred
      /\ \A g \in Field : RequestsOf(q, g) = RequestsOf(p, g)
  BY <1>1, <1>2, <1>3, DestroyedAlike
<1>5. /\ e.entity = p.entity /\ e.isActive = p.isActive /\ e.modal = p.modal
      /\ e.editor = p.editor \ {f} /\ e.field = p.field /\ e.form = p.form /\ e.typed = p.typed
      /\ e.activeField = p.activeField /\ Remembers(p, e)
  BY <1>1, <1>3 DEF Page, Remembers
<1>6. PICK m : m = SetupEditor(q, f)
  OBVIOUS
<1>7. m \in Fine
  BY <1>6, SetupGood DEF Fine
<1>8. /\ m.entity = q.entity /\ m.isActive = q.isActive /\ m.modal = q.modal
      /\ m.editor = q.editor \union {f} /\ m.field = q.field /\ m.form = q.form /\ m.typed = q.typed
      /\ m.activeField = q.activeField /\ Remembers(q, m)
      /\ m.deferred = q.deferred /\ m.requests = q.requests
  <2>1. q \in Page
    BY DEF Fine, Good
  <2> QED
    BY <1>6, <2>1 DEF SetupEditor, Page, Remembers
<1>9. /\ m.entity = p.entity /\ m.isActive = p.isActive /\ m.modal = p.modal
      /\ m.editor = p.editor \union {f} /\ m.field = p.field /\ m.form = p.form /\ m.typed = p.typed
      /\ m.activeField = p.activeField /\ m.deferred = p.deferred
  BY <1>4, <1>5, <1>8 DEF Stays, Steady
<1>10. Remembers(p, m)
  BY <1>4, <1>5, <1>8 DEF Stays, Remembers
<1>11. Calls(m) = Calls(p) /\ \A g \in Field : TasksOf(m, g) = TasksOf(p, g)
                                            /\ RequestsOf(m, g) = RequestsOf(p, g)
  BY <1>4, <1>8, <1>9 DEF Calls, TasksOf, RequestsOf
<1>12. Fits(m)
  <2>1. ASSUME NEW g \in Field PROVE Sits(m, g) /\ Waits(m, g)
    <3>1. Sits(p, g) /\ Waits(p, g)
      BY DEF Fits
    <3>2. Sits(m, g)
      BY <1>9, <3>1 DEF Sits
    <3> QED
      BY <1>9, <1>11, <3>1, <3>2, WaitsOn
  <2> QED
    BY <1>9, <2>1 DEF Fits
<1>13. Renewed(p, m, f)
  BY <1>9, <1>10, <1>11, <1>12 DEF Renewed
<1>14. n = SetField(m, f, "candidate", "none")
  <2>1. q \in Page /\ It \in q.isActive
    BY <1>8, <1>9 DEF Fine, Good
  <2>2. /\ Keep(PageOrder, q.isActive) = PageOrder /\ PageOrder # <<>>
        /\ Head(PageOrder) = EntityOf(f)
    BY <2>1, ActiveEntity, ItIs
  <2> QED
    BY <1>2, <1>6, <2>2 DEF RerenderedFieldToCandidate
<1> QED
  BY <1>7, <1>13, <1>14

(* The field was stopped, and is a candidate again.                        *)
Replaced(q, n, f) ==
  /\ n.entity = q.entity /\ n.isActive = q.isActive /\ n.modal = q.modal
  /\ n.activeField = q.activeField /\ Fits(n)
  /\ n.field[f] = "candidate" /\ \A g \in Field \ {f} : n.field[g] = q.field[g]
  /\ q.entity[It] = "opened" => Remembers(q, n) /\ Calls(n) = Calls(q)
  /\ q.entity[It] = "committing" =>
       /\ Calls(n) = Calls(q)
       /\ It \in n.isCommitting <=> It \in q.isCommitting \/ AllIn(n, Ready)
  /\ q.entity[It] = "deactivating" =>
       /\ Remembers(q, n)
       /\ n.deferred = Append(Append(q.deferred, EntityTask(It, "closing", Ready)),
                              EntityTask(It, "closing", Ready))

LEMMA ReplacedIs ==
  ASSUME OneEntity, NEW q \in Fine, NEW f \in Field, FitsBut(q, f), Sits(q, f), Free(q, f),
         q.field[f] \in Ready, It \in q.isActive,
         NEW n, n = RenderField(SetField(q, f, "inactive", "rerender"), f)
  PROVE  Replaced(q, n, f)
<1>1. PICK a : a = SetField(q, f, "inactive", "rerender")
  OBVIOUS
<1>2. After(q, a, f, "inactive")
  <2>1. <<q.field[f], "inactive">> \in Moves
    BY DEF Moves, Ready
  <2>2. Handed(q, f, "inactive") /\ ~HopsTo(q, f, "inactive", "rerender")
    BY DEF Handed, HopsTo, Active
  <2>3. "rerender" \in AlwaysAccepted
    BY DEF AlwaysAccepted
  <2> QED
    BY <1>1, <2>1, <2>2, <2>3, MoveFits
<1>3. /\ a \in Fine /\ Fits(a) /\ a.field[f] = "inactive"
      /\ \A g \in Field \ {f} : a.field[g] = q.field[g]
      /\ a.entity = q.entity /\ a.isActive = q.isActive /\ a.modal = q.modal
      /\ a.activeField = q.activeField /\ Told(q, a, f, "inactive")
  <2>1. \A g \in Field \ {f} : a.field[g] = q.field[g]
    BY <1>2, FieldsAfter
  <2> QED
    BY <1>2, <2>1 DEF After, Moved, Active
<1>4. PICK m \in Fine : Renewed(a, m, f) /\ n = SetField(m, f, "candidate", "none")
  BY <1>1, <1>3, RenewedIs
<1>5. Fits(m) /\ m.field = a.field /\ m.activeField = a.activeField
  BY <1>4 DEF Renewed
<1>6. After(m, n, f, "candidate")
  <2>1. <<m.field[f], "candidate">> \in Moves
    BY <1>3, <1>5 DEF Moves
  <2>2. Handed(m, f, "candidate") /\ ~HopsTo(m, f, "candidate", "none")
    BY DEF Handed, HopsTo, Active
  <2>3. FitsBut(m, f) /\ Sits(m, f) /\ Free(m, f)
    BY <1>3, <1>5, FitsParts DEF Waits
  <2> QED
    BY <1>4, <2>1, <2>2, <2>3, MoveFits
<1>7. q.activeField # f
  BY DEF Sits, Ready, Still
<1>8. /\ Fits(n) /\ n.field[f] = "candidate" /\ Told(m, n, f, "candidate")
      /\ \A g \in Field \ {f} : n.field[g] = m.field[g]
      /\ n.entity = m.entity /\ n.isActive = m.isActive /\ n.modal = m.modal
      /\ n.activeField = m.activeField
  <2>1. \A g \in Field \ {f} : n.field[g] = m.field[g]
    BY <1>6, FieldsAfter, SMTT(30)
  <2>2. m.activeField # f
    BY <1>3, <1>5, <1>7
  <2> QED
    BY <1>6, <2>1, <2>2 DEF After, Moved, Active
<1>9. /\ m.entity = q.entity /\ m.isActive = q.isActive /\ m.modal = q.modal
      /\ m.activeField = q.activeField /\ Remembers(a, m)
      /\ m.deferred = a.deferred /\ Calls(m) = Calls(a)
  BY <1>3, <1>4 DEF Renewed
<1>10. \A g \in Field \ {f} : n.field[g] = q.field[g]
  BY <1>3, <1>5, <1>8
<1>11. CASE q.entity[It] = "opened"
  <2>1. Remembers(q, a) /\ Calls(a) = Calls(q) /\ Remembers(m, n) /\ Calls(n) = Calls(m)
    BY <1>3, <1>8, <1>9, <1>11 DEF Told
  <2>2. Remembers(q, n)
    BY <1>9, <2>1 DEF Remembers
  <2> QED
    BY <1>8, <1>9, <1>10, <1>11, <2>1, <2>2 DEF Replaced
<1>12. CASE q.entity[It] = "committing"
  <2>1. ~AllIn(a, Ready)
    BY <1>3 DEF AllIn, Ready
  <2>2. /\ Calls(a) = Calls(q) /\ (It \in a.isCommitting <=> It \in q.isCommitting)
        /\ Calls(n) = Calls(m)
        /\ (It \in n.isCommitting <=> It \in m.isCommitting \/ AllIn(n, Ready))
    BY <1>3, <1>8, <1>9, <1>12, <2>1 DEF Told
  <2>3. m.isCommitting = a.isCommitting
    BY <1>9 DEF Remembers
  <2> QED
    BY <1>8, <1>9, <1>10, <1>12, <2>2, <2>3 DEF Replaced
<1>13. CASE q.entity[It] = "deactivating"
  <2>1. /\ Remembers(q, a) /\ a.deferred = Append(q.deferred, EntityTask(It, "closing", Ready))
        /\ Remembers(m, n) /\ n.deferred = Append(m.deferred, EntityTask(It, "closing", Ready))
    BY <1>3, <1>8, <1>9, <1>13 DEF Told
  <2>2. Remembers(q, n)
    BY <1>9, <2>1 DEF Remembers
  <2> QED
    BY <1>8, <1>9, <1>10, <1>13, <2>1, <2>2 DEF Replaced
<1>14. CASE q.entity[It] \notin {"opened", "committing", "deactivating"}
  BY <1>8, <1>9, <1>10, <1>14 DEF Replaced
<1> QED
  BY <1>11, <1>12, <1>13, <1>14

LEMMA ReplacedOpen ==
  ASSUME NEW q, NEW f \in Field, q.field[f] \in Ready, OpenFor(q), Settles(q),
         NEW n, Replaced(q, n, f)
  PROVE  OpenFor(n) /\ Settles(n) /\ Kept(n, It) = Kept(q, It)
<1>1. /\ n.entity = q.entity /\ n.isActive = q.isActive /\ n.modal = q.modal
      /\ n.activeField = q.activeField /\ n.field[f] = "candidate"
      /\ \A g \in Field \ {f} : n.field[g] = q.field[g]
      /\ Remembers(q, n) /\ Calls(n) = Calls(q)
  BY DEF Replaced, OpenFor
<1>2. \A g \in Field : n.field[g] # "inactive"
  BY <1>1 DEF OpenFor
<1>3. OpenFor(n)
  BY <1>1, <1>2 DEF OpenFor, Remembers
<1>4. Kept(n, It) = Kept(q, It) /\ n.isDirty = q.isDirty
  BY <1>1 DEF Remembers, Kept
<1>5. \A g \in Field : n.field[g] \in Busy \union {"changed", "saving"} => n.field[g] = q.field[g]
  BY <1>1 DEF Busy
<1>6. \A g \in Field : q.field[g] \in {"changed", "saving"} => n.field[g] = q.field[g]
  BY <1>1 DEF Ready
<1>7. Settles(n)
  BY <1>1, <1>4, <1>5, <1>6 DEF Settles, Clean
<1> QED
  BY <1>3, <1>4, <1>7

LEMMA ReplacedCommitting ==
  ASSUME NEW q, NEW f \in Field, q.field[f] \in Ready, q.entity[It] = "committing", Committing(q),
         NEW n, Replaced(q, n, f)
  PROVE  Committing(n)
<1>1. /\ n.isActive = q.isActive /\ n.field[f] = "candidate"
      /\ \A g \in Field \ {f} : n.field[g] = q.field[g]
      /\ Calls(n) = Calls(q)
      /\ It \in n.isCommitting <=> It \in q.isCommitting \/ AllIn(n, Ready)
  BY DEF Replaced
<1>2. /\ AllIn(n, Ready) <=> AllIn(q, Ready)
      /\ AllIn(q, Ready \union Busy) => AllIn(n, Ready \union Busy)
  BY <1>1 DEF AllIn, Ready
<1> QED
  BY <1>1, <1>2 DEF Committing

LEMMA ReplaceRuns ==
  ASSUME OneEntity, NEW p \in Fine, NEW C, Orderly(p, C), NEW q \in Fine, Popped(p, q),
         NEW t, t = Head(p.deferred), t.do = "replace",
         NEW n, n = RenderField(SetField(q, t.x, "inactive", "rerender"), t.x)
  PROVE  Orderly(n, C)
<1>1. OfField(t) /\ About(t) = t.x
  BY DEF OfField, About
<1>2. PICK f : f = t.x
  OBVIOUS
<1>3. /\ f \in Field /\ Free(q, f) /\ FitsBut(q, f) /\ Sits(q, f)
      /\ q.field[f] \in Ready /\ Calls(q) = Calls(p)
  BY <1>1, <1>2, FieldPopped
<1>4. /\ p.deferred \in Queues /\ p.deferred # <<>> /\ p.entity[It] \in EntityState
      /\ Stays(p, q) /\ q.requests = p.requests /\ q.deferred = Tail(p.deferred)
  BY ItIs DEF Fine, Good, Page, Popped
<1>5. q.field = p.field /\ q.entity = p.entity /\ q.isActive = p.isActive /\ q.modal = p.modal
  BY <1>4 DEF Stays, Steady
<1>6. p.modal = NoEntity
  BY <1>4 DEF Orderly, Asked
<1>7. p.entity[It] \in {"opened", "committing", "deactivating"}
  <2>1. p.entity[It] \notin {"closed", "launching", "closing"}
    BY <1>3, <1>5 DEF Orderly, Phase, Closed, Launching, Closing, AllIn, Ready
  <2>2. p.entity[It] # "opening"
    <3>1. t \in ToSet(p.deferred)
      BY <1>4, TailIs
    <3> QED
      BY <3>1 DEF Orderly, Phase, Opening, Goes
  <2> QED
    BY <1>4, <2>1, <2>2 DEF EntityState
<1>8. It \in q.isActive
  BY <1>5, <1>7 DEF Orderly, Phase, Opened, Committing, Deactivating
<1>9. Replaced(q, n, f)
  BY <1>2, <1>3, <1>8, ReplacedIs
<1>10. CASE p.entity[It] = "opened"
  <2>1. p.deferred # <<Task("confirm", It)>>
    <3>1. t \in ToSet(p.deferred)
      BY <1>4, TailIs
    <3>2. ASSUME p.deferred = <<Task("confirm", It)>> PROVE FALSE
      <4>1. t = Task("confirm", It)
        BY <3>1, <3>2 DEF ToSet
      <4> QED
        BY <4>1 DEF Task
    <3> QED
      BY <3>2
  <2>2. OpenFor(p) /\ Settles(p) /\ (Kept(p, It) # {} => ContentOf[It] \in C)
    BY <1>6, <1>10, <2>1, OpenWhen
  <2>3. OpenFor(q) /\ Settles(q) /\ (Kept(q, It) # {} => ContentOf[It] \in C)
    BY <1>3, <1>4, <2>2, StaysIs
  <2>4. OpenFor(n) /\ Settles(n) /\ Kept(n, It) = Kept(q, It)
    BY <1>3, <1>9, <2>3, ReplacedOpen
  <2>5. Fits(n)
    BY <1>9 DEF Replaced
  <2> QED
    BY <2>3, <2>4, <2>5, OpenOrderly
<1>11. CASE p.entity[It] = "committing"
  <2>1. Committing(p) /\ (ContentOf[It] \in C \/ \E g \in Field : p.field[g] = "saving")
    BY <1>11 DEF Orderly, Phase, Copied
  <2>2. Committing(q)
    BY <1>3, <1>4, <2>1, CommittingStays
  <2>3. Committing(n)
    BY <1>3, <1>5, <1>9, <1>11, <2>2, ReplacedCommitting
  <2>4. /\ Fits(n) /\ n.entity = q.entity /\ n.modal = q.modal
        /\ \A g \in Field \ {f} : n.field[g] = q.field[g]
    BY <1>9 DEF Replaced
  <2>5. ContentOf[It] \in C \/ \E g \in Field : n.field[g] = "saving"
    <3>1. q.field[f] # "saving"
      BY <1>3 DEF Ready
    <3> QED
      BY <1>5, <2>1, <2>4, <3>1
  <2> QED
    BY <1>5, <1>6, <1>11, <2>3, <2>4, <2>5, CommittingOrderly
<1>12. CASE p.entity[It] = "deactivating"
  <2>1. Deactivating(p) /\ p.isCommitting = {}
    BY <1>12 DEF Orderly, Phase
  <2>2. PICK c \in EntityTasks : c = EntityTask(It, "closing", Ready)
    BY CallsAre
  <2>3. c \in Tasks /\ ~OfField(c) /\ Goes(c, "closing")
    BY <2>2 DEF Tasks, OfField, Goes, EntityTask
  <2>4. /\ Fits(n) /\ n.entity = q.entity /\ n.isActive = q.isActive /\ n.modal = q.modal
        /\ n.field[f] = "candidate" /\ \A g \in Field \ {f} : n.field[g] = q.field[g]
        /\ Remembers(q, n) /\ n.deferred = Append(Append(q.deferred, c), c)
    BY <1>5, <1>9, <1>12, <2>2 DEF Replaced
  <2>5. q.deferred \in Queues /\ Ordered(q.deferred)
    BY <1>4, <2>1, TailIs, OrderedTail DEF Deactivating
  <2>6. PICK d \in Queues : d = Append(q.deferred, c)
    BY <2>3, <2>5, AppendIs
  <2>7. Ordered(d) /\ ToSet(d) = ToSet(q.deferred) \union {c}
    BY <2>3, <2>5, <2>6, AppendIs, OrderedAppend
  <2>8. n.deferred = Append(d, c)
    BY <2>4, <2>6
  <2>9. Ordered(n.deferred) /\ ToSet(n.deferred) = ToSet(d) \union {c}
    BY <2>3, <2>7, <2>8, AppendIs, OrderedAppend
  <2>10. Calls(n) = Calls(q) \union {c}
    BY <2>3, <2>7, <2>9 DEF Calls
  <2>11. AllIn(n, Ready)
    BY <1>5, <2>1, <2>4 DEF Deactivating, AllIn, Ready
  <2>12. Deactivating(n)
    BY <1>3, <1>5, <2>1, <2>3, <2>4, <2>9, <2>10, <2>11 DEF Deactivating
  <2>13. n.isCommitting = {}
    BY <1>4, <2>1, <2>4 DEF Stays, Remembers
  <2> QED
    BY <1>5, <1>6, <1>12, <2>4, <2>12, <2>13 DEF Orderly, Phase, Copied, Asked
<1> QED
  BY <1>7, <1>10, <1>11, <1>12

-----------------------------------------------------------------------------
(* The oldest callback is one of the entity.                               *)
LEMMA CallPopped ==
  ASSUME OneEntity, NEW p \in Fine, NEW C, Orderly(p, C), NEW q, Popped(p, q),
         NEW t, t = Head(p.deferred), ~OfField(t)
  PROVE  /\ Fits(q) /\ SameWaits(p, q) /\ Calls(p) = Calls(q) \union {t} /\ t \in Calls(p)
         /\ q.entity = p.entity /\ q.modal = NoEntity /\ q.isCommitting = {}
<1>1. Fits(p) /\ Phase(p) /\ Asked(p)
  BY DEF Orderly
<1>2. /\ p.deferred # <<>> /\ Stays(p, q)
      /\ q.requests = p.requests /\ q.deferred = Tail(p.deferred)
  BY DEF Popped
<1>3. Fits(q) /\ SameWaits(p, q) /\ Calls(p) = Calls(q) \union {t} /\ t \in Calls(p)
  BY <1>1, <1>2, PopCall
<1>4. q.entity = p.entity /\ q.modal = p.modal /\ q.isCommitting = p.isCommitting
  BY <1>2 DEF Stays, Steady, Remembers
<1>5. p.modal = NoEntity
  BY <1>1, <1>2 DEF Asked
<1>6. p.entity[It] # "committing"
  BY <1>1, <1>3 DEF Phase, Committing
<1>7. p.isCommitting = {}
  BY <1>1, <1>6 DEF Phase
<1> QED
  BY <1>3, <1>4, <1>5, <1>7

(* The modal is shown.                                                     *)
LEMMA ConfirmRuns ==
  ASSUME OneEntity, NEW p \in Fine, NEW C, Orderly(p, C), NEW q \in Fine, Popped(p, q),
         NEW t, t = Head(p.deferred), t.do = "confirm",
         NEW n, n = IF q.modal # NoEntity THEN q ELSE [q EXCEPT !.modal = t.x]
  PROVE  Orderly(n, C)
<1>1. ~OfField(t)
  BY DEF OfField
<1>2. /\ Fits(q) /\ Calls(p) = Calls(q) \union {t} /\ t \in Calls(p)
      /\ q.entity = p.entity /\ q.modal = NoEntity /\ q.isCommitting = {}
  BY <1>1, CallPopped
<1>3. ~Goes(t, "opened") /\ t \notin EntityTasks
  BY DEF Goes, EntityTasks
<1>4. t = Task("confirm", It) /\ p.deferred = <<t>> /\ p.requests = {} /\ p.entity[It] = "opened"
  BY <1>2, <1>3, CallsKnown
<1>5. /\ \A f \in Field : p.field[f] # "inactive"
      /\ It \in p.isActive /\ Asks(p) /\ Settles(p)
      /\ Kept(p, It) # {} => ContentOf[It] \in C
  BY <1>2, <1>3, <1>4 DEF Orderly, Phase, Opened, Copied
<1>6. Stays(p, q) /\ q.deferred = <<>> /\ q.requests = {}
  BY <1>4 DEF Popped
<1>7. /\ Asks(q) /\ Settles(q) /\ Kept(q, It) = Kept(p, It)
  BY <1>5, <1>6, StaysIs
<1>8. PICK m \in Fine : m = [q EXCEPT !.modal = It] /\ m.modal = It /\ Covers(q, m)
  BY ItIs, ModalIs
<1>9. n = m
  BY <1>2, <1>4, <1>8 DEF Task
<1>10. Fits(m) /\ Settles(m) /\ Asks(m) /\ Kept(m, It) = Kept(q, It) /\ Calls(m) = Calls(q)
  BY <1>2, <1>7, <1>8, CoversFits
<1>11. m.deferred = <<>> /\ m.requests = {}
  BY <1>6, <1>8 DEF Covers
<1>12. Calls(m) = {}
  BY <1>11 DEF Calls, ToSet
<1>13. /\ m.entity[It] = "opened" /\ It \in m.isActive /\ m.isCommitting = {}
       /\ \A f \in Field : m.field[f] # "inactive"
  BY <1>2, <1>4, <1>5, <1>6, <1>8 DEF Covers, Stays, Steady, Remembers
<1>14. Opened(m)
  BY <1>10, <1>12, <1>13 DEF Opened
<1>15. Phase(m)
  BY <1>13, <1>14 DEF Phase
<1>16. Asked(m)
  BY <1>10, <1>11, <1>13 DEF Asked
<1>17. Copied(m, C)
  BY <1>5, <1>7, <1>10, <1>13 DEF Copied
<1> QED
  BY <1>9, <1>10, <1>15, <1>16, <1>17 DEF Orderly

(* The entity opens or closes: its fields become candidates, or inactive,  *)
(* one after the other.                                                    *)
Rising(p) ==
  /\ p.entity[It] = "opening" /\ p.modal = NoEntity /\ p.isCommitting = {}
  /\ Fits(p) /\ Clean(p) /\ AllIn(p, {"inactive", "candidate"})
  /\ \A t \in ToSet(p.deferred) : Goes(t, "opened")
  /\ p.deferred = <<>> => AllIn(p, {"inactive"})

Shutting(p) ==
  /\ p.entity[It] = "closing" /\ p.modal = NoEntity /\ p.isCommitting = {}
  /\ Fits(p) /\ AllIn(p, Ready \union {"inactive"})
  /\ \A t \in ToSet(p.deferred) : Goes(t, "closing") \/ Goes(t, "closed")
  /\ AllIn(p, Ready) \/ \E t \in ToSet(p.deferred) : Goes(t, "closed")

LEMMA RiseStep ==
  ASSUME OneEntity, NEW p \in Fine, Rising(p), NEW f \in Field,
         NEW q, q = SetField(p, f, "candidate", "none")
  PROVE  /\ q \in Fine /\ Rising(q) /\ q.field[f] \in Ready
         /\ \A g \in Field \ {f} : q.field[g] = p.field[g]
<1>1. Sits(p, f) /\ Waits(p, f) /\ FitsBut(p, f)
  BY FitsParts DEF Rising, Fits
<1>2. CASE p.field[f] = "inactive"
  <2>1. <<p.field[f], "candidate">> \in Moves
    BY <1>2 DEF Moves
  <2>2. Handed(p, f, "candidate") /\ ~HopsTo(p, f, "candidate", "none") /\ Free(p, f)
    BY <1>1, <1>2 DEF Handed, HopsTo, Active, Waits
  <2>3. After(p, q, f, "candidate")
    BY <1>1, <2>1, <2>2, MoveFits
  <2>4. q \in Fine /\ Moved(p, q, f, "candidate") /\ Told(p, q, f, "candidate") /\ Fits(q)
    BY <2>3 DEF After
  <2>5. PICK t \in EntityTasks : t = EntityTask(It, "opened", Ready)
    BY CallsAre
  <2>6. Remembers(p, q) /\ q.deferred = Append(p.deferred, t)
    BY <2>4, <2>5 DEF Told, Rising
  <2>7. t \in Tasks /\ Goes(t, "opened")
    BY <2>5 DEF Tasks, Goes, EntityTask
  <2>8. p.deferred \in Queues
    BY DEF Fine, Good, Page
  <2>9. q.deferred # <<>> /\ \A u \in ToSet(q.deferred) : Goes(u, "opened")
    <3>1. q.deferred # <<>> /\ ToSet(q.deferred) = ToSet(p.deferred) \union {t}
      BY <2>6, <2>7, <2>8, AppendIs
    <3>2. \A u \in ToSet(p.deferred) : Goes(u, "opened")
      BY DEF Rising
    <3> QED
      BY <2>7, <3>1, <3>2
  <2>10. q.entity = p.entity /\ q.modal = p.modal /\ q.isCommitting = p.isCommitting
    BY <2>4, <2>6 DEF Moved, Remembers
  <2>11. Clean(q)
    BY <2>6 DEF Rising, Clean, Kept, Remembers
  <2>12. q.field[f] = "candidate" /\ \A g \in Field \ {f} : q.field[g] = p.field[g]
    BY <2>3, FieldsAfter
  <2>13. q.field[f] \in Ready
    BY <2>12 DEF Ready
  <2>14. AllIn(q, {"inactive", "candidate"})
    BY <2>12, <2>13 DEF Rising, AllIn
  <2> QED
    BY <2>4, <2>9, <2>10, <2>11, <2>12, <2>13, <2>14 DEF Rising
<1>3. CASE p.field[f] = "candidate"
  <2>1. q = p
    BY <1>3, SetAgain
  <2> QED
    BY <1>3, <2>1 DEF Ready
<1> QED
  BY <1>2, <1>3 DEF Rising, AllIn

LEMMA ShutStep ==
  ASSUME OneEntity, NEW p \in Fine, Shutting(p), NEW f \in Field,
         NEW q, q = SetField(p, f, "inactive", "stop")
  PROVE  /\ q \in Fine /\ Shutting(q) /\ q.field[f] = "inactive"
         /\ \A g \in Field \ {f} : q.field[g] = p.field[g]
<1>1. Sits(p, f) /\ Waits(p, f) /\ FitsBut(p, f)
  BY FitsParts DEF Shutting, Fits
<1>2. CASE p.field[f] \in Ready
  <2>1. <<p.field[f], "inactive">> \in Moves
    BY <1>2 DEF Moves, Ready
  <2>2. Handed(p, f, "inactive") /\ ~HopsTo(p, f, "inactive", "stop")
    BY DEF Handed, HopsTo, Active
  <2>3. Free(p, f)
    <3>1. TasksOf(p, f) = {}
      BY DEF Shutting, TasksOf, Goes, OfField
    <3> QED
      BY <1>1, <1>2, <3>1 DEF Waits, WaitsForTask
  <2>4. "stop" \in AlwaysAccepted
    BY DEF AlwaysAccepted
  <2>5. After(p, q, f, "inactive")
    BY <1>1, <2>1, <2>2, <2>3, <2>4, MoveFits
  <2>6. q \in Fine /\ Moved(p, q, f, "inactive") /\ Told(p, q, f, "inactive") /\ Fits(q)
    BY <2>5 DEF After
  <2>7. PICK t \in EntityTasks : t = EntityTask(It, "closed", {"inactive"})
    BY CallsAre
  <2>8. Remembers(p, q) /\ q.deferred = Append(p.deferred, t)
    BY <2>6, <2>7 DEF Told, Shutting
  <2>9. t \in Tasks /\ Goes(t, "closed")
    BY <2>7 DEF Tasks, Goes, EntityTask
  <2>10. p.deferred \in Queues
    BY DEF Fine, Good, Page
  <2>11. ToSet(q.deferred) = ToSet(p.deferred) \union {t}
    BY <2>8, <2>9, <2>10, AppendIs
  <2>12. /\ \A u \in ToSet(q.deferred) : Goes(u, "closing") \/ Goes(u, "closed")
         /\ \E u \in ToSet(q.deferred) : Goes(u, "closed")
    <3>1. \A u \in ToSet(p.deferred) : Goes(u, "closing") \/ Goes(u, "closed")
      BY DEF Shutting
    <3> QED
      BY <2>9, <2>11, <3>1
  <2>13. q.entity = p.entity /\ q.modal = p.modal /\ q.isCommitting = p.isCommitting
    BY <2>6, <2>8 DEF Moved, Remembers
  <2>14. q.field[f] = "inactive" /\ \A g \in Field \ {f} : q.field[g] = p.field[g]
    BY <2>5, FieldsAfter
  <2>15. AllIn(q, Ready \union {"inactive"})
    BY <2>14 DEF Shutting, AllIn
  <2> QED
    BY <2>6, <2>12, <2>13, <2>14, <2>15 DEF Shutting
<1>3. CASE p.field[f] = "inactive"
  <2>1. q = p
    BY <1>3, SetAgain
  <2> QED
    BY <1>3, <2>1
<1> QED
  BY <1>2, <1>3 DEF Shutting, AllIn

LEMMA RiseAll ==
  ASSUME OneEntity, NEW p \in Fine, Rising(p),
         NEW q, q = SetEach(p, FieldsOf[It], "candidate", "none"), NEW C
  PROVE  Orderly(q, C)
<1> DEFINE s == FieldsOf[It]
           S == {r \in Fine : Rising(r)}
           V == {v \in Nat \X S : \A i \in 1..v[1] : v[2].field[s[i]] \in Ready}
<1>1. s \in Seq(Field) /\ Len(s) \in Nat \ {0} /\ \A k \in 1..Len(s) : s[k] \in Field
  BY SequenceOfFields
<1>2. \A r \in S, x \in Field : SetField(r, x, "candidate", "none") \in S
  BY RiseStep
<1>3. p \in S /\ <<0, p>> \in V
  OBVIOUS
<1>4. ASSUME NEW k \in 1..Len(s), NEW r \in S, <<k - 1, r>> \in V
      PROVE  <<k, SetField(r, s[k], "candidate", "none")>> \in V
  <2>1. PICK m : m = SetField(r, s[k], "candidate", "none")
    OBVIOUS
  <2>2. r \in Fine /\ Rising(r) /\ s[k] \in Field /\ \A i \in 1..(k - 1) : r.field[s[i]] \in Ready
    BY <1>1, <1>4
  <2>3. /\ m \in Fine /\ Rising(m) /\ m.field[s[k]] \in Ready
        /\ \A g \in Field \ {s[k]} : m.field[g] = r.field[g]
    BY <2>1, <2>2, RiseStep
  <2>4. ASSUME NEW i \in 1..k PROVE m.field[s[i]] \in Ready
    <3>1. s[i] \in Field
      BY <1>1
    <3>2. i = k \/ i \in 1..(k - 1)
      BY <1>1
    <3> QED
      BY <2>2, <2>3, <3>1, <3>2
  <2>5. k \in Nat
    BY <1>1
  <2> QED
    BY <2>1, <2>3, <2>4, <2>5
<1>5. <<Len(s), SetEach(p, s, "candidate", "none")>> \in V
  <2> HIDE DEF V, S, s
  <2> QED
    BY <1>1, <1>2, <1>3, <1>4, SetFieldReaches
<1>6. q \in Fine /\ Rising(q) /\ \A i \in 1..Len(s) : q.field[s[i]] \in Ready
  BY <1>1, <1>5
<1>7. AllIn(q, Ready)
  BY <1>6, SequenceOfFields DEF AllIn
<1>8. Opening(q)
  <2>1. PICK f \in Field : TRUE
    BY DEF OneEntity
  <2>2. q.field[f] # "inactive"
    BY <1>7 DEF AllIn, Ready
  <2> QED
    BY <1>6, <1>7, <2>2 DEF Opening, Rising, AllIn
<1> QED
  BY <1>6, <1>8 DEF Orderly, Rising, Phase, Copied, Asked

LEMMA ShutAll ==
  ASSUME OneEntity, NEW p \in Fine, Shutting(p),
         NEW q, q = SetEach(p, FieldsOf[It], "inactive", "stop"), NEW C
  PROVE  Orderly(q, C)
<1> DEFINE s == FieldsOf[It]
           S == {r \in Fine : Shutting(r)}
           V == {v \in Nat \X S : \A i \in 1..v[1] : v[2].field[s[i]] = "inactive"}
<1>1. s \in Seq(Field) /\ Len(s) \in Nat \ {0} /\ \A k \in 1..Len(s) : s[k] \in Field
  BY SequenceOfFields
<1>2. \A r \in S, x \in Field : SetField(r, x, "inactive", "stop") \in S
  BY ShutStep
<1>3. p \in S /\ <<0, p>> \in V
  OBVIOUS
<1>4. ASSUME NEW k \in 1..Len(s), NEW r \in S, <<k - 1, r>> \in V
      PROVE  <<k, SetField(r, s[k], "inactive", "stop")>> \in V
  <2>1. PICK m : m = SetField(r, s[k], "inactive", "stop")
    OBVIOUS
  <2>2. r \in Fine /\ Shutting(r) /\ s[k] \in Field /\ \A i \in 1..(k - 1) : r.field[s[i]] = "inactive"
    BY <1>1, <1>4
  <2>3. /\ m \in Fine /\ Shutting(m) /\ m.field[s[k]] = "inactive"
        /\ \A g \in Field \ {s[k]} : m.field[g] = r.field[g]
    BY <2>1, <2>2, ShutStep
  <2>4. ASSUME NEW i \in 1..k PROVE m.field[s[i]] = "inactive"
    <3>1. s[i] \in Field
      BY <1>1
    <3>2. i = k \/ i \in 1..(k - 1)
      BY <1>1
    <3> QED
      BY <2>2, <2>3, <3>1, <3>2
  <2>5. k \in Nat
    BY <1>1
  <2> QED
    BY <2>1, <2>3, <2>4, <2>5
<1>5. <<Len(s), SetEach(p, s, "inactive", "stop")>> \in V
  <2> HIDE DEF V, S, s
  <2> QED
    BY <1>1, <1>2, <1>3, <1>4, SetFieldReaches
<1>6. q \in Fine /\ Shutting(q) /\ \A i \in 1..Len(s) : q.field[s[i]] = "inactive"
  BY <1>1, <1>5
<1>7. AllIn(q, {"inactive"})
  BY <1>6, SequenceOfFields DEF AllIn
<1>8. Closing(q)
  <2>1. PICK f \in Field : TRUE
    BY DEF OneEntity
  <2>2. q.field[f] = "inactive"
    BY <1>7 DEF AllIn
  <2>3. ~AllIn(q, Ready)
    BY <2>2 DEF AllIn, Ready
  <2>4. \E t \in ToSet(q.deferred) : Goes(t, "closed")
    BY <1>6, <2>3 DEF Shutting
  <2>5. \A t \in ToSet(q.deferred) : (Goes(t, "closing") \/ Goes(t, "closed")) /\ ~OfField(t)
    BY <1>6 DEF Shutting, Goes, OfField
  <2> QED
    BY <1>7, <2>4, <2>5 DEF Closing, Calls
<1> QED
  BY <1>6, <1>8 DEF Orderly, Shutting, Phase, Copied, Asked

(* The entity is told to open or to close, and does.                       *)
LEMMA OpeningRuns ==
  ASSUME OneEntity, NEW p \in Fine, NEW C, Orderly(p, C), NEW q \in Fine, Popped(p, q),
         NEW t, t = Head(p.deferred), Goes(t, "opening"),
         NEW n, n = SetEntity(q, t.e, t.to, "none", t.ready)
  PROVE  Orderly(n, C)
<1>1. ~OfField(t) /\ ~Goes(t, "opened") /\ ~Goes(t, "closing") /\ ~Goes(t, "closed")
      /\ t # Task("confirm", It) /\ t.to = "opening"
  BY DEF OfField, Goes, Task
<1>2. /\ Fits(q) /\ t \in Calls(p)
      /\ q.entity = p.entity /\ q.modal = NoEntity /\ q.isCommitting = {}
  BY <1>1, CallPopped
<1>3. t.e = It /\ p.entity[It] = "launching" /\ p.deferred = <<t>> /\ t.ready = {}
  BY <1>1, <1>2, CallsKnown
<1>4. AllIn(p, {"inactive"}) /\ Clean(p)
  BY <1>3 DEF Orderly, Phase, Launching
<1>5. Stays(p, q) /\ q.deferred = <<>>
  BY <1>3 DEF Popped
<1>6. AllIn(q, {"inactive"}) /\ Clean(q)
  BY <1>4, <1>5, StaysIs
<1>7. n = EnterEntity(q, It, "opening", "none")
  BY <1>1, <1>2, <1>3, EntityPositionIs DEF SetEntity, AcceptsState, AcceptsSet
<1>8. PICK m \in Fine : /\ m = [q EXCEPT !.entity[It] = "opening"]
                        /\ m.entity[It] = "opening" /\ Alike(q, m) /\ m.editor = q.editor
  BY EntityAt DEF EntityState
<1>9. n = SetEach(m, FieldsOf[It], "candidate", "none")
  BY <1>7, <1>8 DEF EnterEntity
<1>10. Fits(m) /\ Kept(m, It) = Kept(q, It)
  BY <1>2, <1>8, AlikeFits
<1>11. /\ m.deferred = <<>> /\ m.modal = NoEntity /\ m.isCommitting = {}
       /\ m.field = q.field /\ m.isDirty = q.isDirty
  BY <1>2, <1>5, <1>8 DEF Alike, Remembers
<1>12. Rising(m)
  BY <1>6, <1>8, <1>10, <1>11 DEF Rising, AllIn, Clean, ToSet
<1> QED
  BY <1>9, <1>12, RiseAll

LEMMA ClosingRuns ==
  ASSUME OneEntity, NEW p \in Fine, NEW C, Orderly(p, C), NEW q \in Fine, Popped(p, q),
         NEW t, t = Head(p.deferred), Goes(t, "closing"),
         NEW n, n = SetEntity(q, t.e, t.to, "none", t.ready)
  PROVE  Orderly(n, C)
<1>1. ~OfField(t) /\ ~Goes(t, "opened") /\ ~Goes(t, "opening") /\ ~Goes(t, "closed")
      /\ t # Task("confirm", It) /\ t.to = "closing"
  BY DEF OfField, Goes, Task
<1>2. /\ Fits(q) /\ Calls(p) = Calls(q) \union {t} /\ t \in Calls(p)
      /\ q.entity = p.entity /\ q.modal = NoEntity /\ q.isCommitting = {}
  BY <1>1, CallPopped
<1>3. t.e = It /\ t.ready = Ready /\ p.entity[It] \in {"closed", "deactivating", "closing"}
  BY <1>1, <1>2, CallsKnown
<1>4. Stays(p, q) /\ p.deferred # <<>> /\ q.deferred = Tail(p.deferred)
  BY DEF Popped
<1>5. p.deferred \in Queues
  BY DEF Fine, Good, Page
<1>6. q.isActive = p.isActive /\ q.editor = p.editor /\ q.isDirty = p.isDirty
  BY <1>4 DEF Stays, Steady, Remembers
<1>7. CASE p.entity[It] \in {"closed", "closing"}
  <2>1. AllIn(p, {"inactive"}) /\ AllIn(q, {"inactive"})
    BY <1>4, <1>7, StaysIs DEF Orderly, Phase, Closed, Closing
  <2>2. ~AllIn(q, Ready)
    <3>1. PICK f \in Field : TRUE
      BY DEF OneEntity
    <3>2. q.field[f] = "inactive"
      BY <2>1 DEF AllIn
    <3> QED
      BY <3>2 DEF AllIn, Ready
  <2>3. Ready # {} /\ q \in Page
    BY DEF Ready, Fine, Good
  <2>4. ~AcceptsState(q, It, "closing", "none", Ready)
    BY <2>2, <2>3, ReadyIs DEF AcceptsState
  <2>5. n = q
    BY <1>1, <1>3, <2>4 DEF SetEntity
  <2>6. CASE p.entity[It] = "closed"
    <3>1. Closed(p)
      BY <2>6 DEF Orderly, Phase
    <3>2. Closed(q)
      BY <1>2, <1>6, <2>1, <3>1 DEF Closed
    <3> QED
      BY <1>2, <2>5, <2>6, <3>2 DEF Orderly, Phase, Copied, Asked
  <2>7. CASE p.entity[It] = "closing"
    <3>1. Closing(p)
      BY <2>7 DEF Orderly, Phase
    <3>2. Closing(q)
      BY <1>1, <1>2, <2>1, <3>1 DEF Closing
    <3> QED
      BY <1>2, <2>5, <2>7, <3>2 DEF Orderly, Phase, Copied, Asked
  <2> QED
    BY <1>7, <2>6, <2>7
<1>8. CASE p.entity[It] = "deactivating"
  <2>1. AllIn(p, Ready) /\ Ordered(p.deferred)
    BY <1>8 DEF Orderly, Phase, Deactivating
  <2>2. AllIn(q, Ready) /\ q \in Page
    BY <1>4, <2>1, StaysIs DEF Fine, Good
  <2>3. \A u \in ToSet(q.deferred) : Goes(u, "closing")
    BY <1>4, <1>5, <2>1, OrderedTail
  <2>4. n = EnterEntity(q, It, "closing", "none")
    <3>1. FieldsIn(q, It, Ready) = ToSet(FieldsOf[It])
      BY <2>2, ReadyIs
    <3> QED
      BY <1>1, <1>2, <1>3, <1>8, <3>1, EntityPositionIs DEF SetEntity, AcceptsState, AcceptsSet
  <2>5. PICK m \in Fine : /\ m = [q EXCEPT !.entity[It] = "closing"]
                          /\ m.entity[It] = "closing" /\ Alike(q, m) /\ m.editor = q.editor
    BY EntityAt DEF EntityState
  <2>6. n = SetEach(m, FieldsOf[It], "inactive", "stop")
    BY <2>4, <2>5 DEF EnterEntity
  <2>7. Fits(m)
    BY <1>2, <2>5, AlikeFits
  <2>8. /\ m.deferred = q.deferred /\ m.modal = NoEntity /\ m.isCommitting = {}
        /\ m.field = q.field
    BY <1>2, <2>5 DEF Alike, Remembers
  <2>9. Shutting(m)
    BY <2>2, <2>3, <2>5, <2>7, <2>8 DEF Shutting, AllIn
  <2> QED
    BY <2>6, <2>9, ShutAll
<1> QED
  BY <1>3, <1>7, <1>8

(* The only entity becomes the active one: no other one is deactivated.    *)
LEMMA OpenAlone ==
  ASSUME OneEntity, NEW p \in Fine, p.isCommitting = {}, p.modal = NoEntity, NEW q, q = Open(p, It)
  PROVE  /\ It \in q.isActive /\ q.modal = NoEntity
         /\ Remembers(p, q) /\ q.entity = p.entity /\ q.editor = p.editor
         /\ q.field = p.field /\ q.form = p.form /\ q.typed = p.typed
         /\ q.activeField = p.activeField /\ q.deferred = p.deferred /\ q.requests = p.requests
<1>1. p \in Page /\ p.isActive \in SUBSET Entity
  BY DEF Fine, Good, Page
<1>2. CASE It \in p.isActive
  <2>1. q = p
    BY <1>2 DEF Open
  <2> QED
    BY <1>2, <2>1 DEF Remembers
<1>3. CASE It \notin p.isActive
  <2>1. PICK m : m = [p EXCEPT !.isActive = p.isActive \union {It}]
    OBVIOUS
  <2>2. m.isActive = {It}
    BY <1>1, <1>3, <2>1, ItIs DEF Page
  <2>3. PICK s : s = Keep(PageOrder, m.isActive \ {It})
    OBVIOUS
  <2>4. s \in Seq({})
    <3>1. m.isActive \ {It} = {}
      BY <2>2
    <3>2. s \in Seq(Entity \cap {})
      BY <2>3, <3>1, KeepIs, PageAssumption
    <3>3. Entity \cap {} = {}
      OBVIOUS
    <3> QED
      BY <3>2, <3>3
  <2>5. DeactivateAll(m, s) = m
    <3> DEFINE S == {m}
               F == {}
    <3>1. m \in S /\ s \in Seq(F) /\ \A r \in S, x \in F : SetDeactivating(r, x, "none") \in S
      BY <2>4
    <3>2. DeactivateAll(m, s) \in S
      <4> HIDE DEF S, F
      <4> QED
        BY <3>1, SetDeactivatingFold
    <3> QED
      BY <3>2
  <2>6. q = m
    BY <1>3, <2>1, <2>3, <2>5 DEF Open, AcceptsSet, DeactivateAll
  <2> QED
    BY <1>1, <2>1, <2>2, <2>6, ZenonT(60) DEF Page, Remembers
<1> QED
  BY <1>2, <1>3

LEMMA OpenedRuns ==
  ASSUME OneEntity, NEW p \in Fine, NEW C, Orderly(p, C), NEW q \in Fine, Popped(p, q),
         NEW t, t = Head(p.deferred), Goes(t, "opened"),
         NEW n, n = SetEntity(q, t.e, t.to, "none", t.ready)
  PROVE  Orderly(n, C)
<1>1. ~OfField(t) /\ ~Goes(t, "closing") /\ ~Goes(t, "opening") /\ ~Goes(t, "closed")
      /\ t # Task("confirm", It) /\ t.to = "opened"
  BY DEF OfField, Goes, Task
<1>2. /\ Fits(q) /\ Calls(p) = Calls(q) \union {t} /\ t \in Calls(p)
      /\ q.entity = p.entity /\ q.modal = NoEntity /\ q.isCommitting = {}
  BY <1>1, CallPopped
<1>3. t.e = It /\ t.ready = Ready /\ p.entity[It] \in {"opening", "opened"}
  BY <1>1, <1>2, CallsKnown
<1>4. Stays(p, q)
  BY DEF Popped
<1>5. CASE p.entity[It] = "opened"
  <2>1. n = q
    BY <1>1, <1>2, <1>3, <1>5 DEF SetEntity
  <2>2. p.modal = NoEntity
    BY <1>2, <1>4 DEF Stays, Steady
  <2>3. p.deferred # <<Task("confirm", It)>>
    <3>1. t \in ToSet(p.deferred)
      BY <1>2 DEF Calls
    <3>2. ASSUME p.deferred = <<Task("confirm", It)>> PROVE FALSE
      BY <1>1, <3>1, <3>2 DEF ToSet
    <3> QED
      BY <3>2
  <2>4. OpenFor(p) /\ Settles(p) /\ (Kept(p, It) # {} => ContentOf[It] \in C)
    BY <1>5, <2>2, <2>3, OpenWhen
  <2>5. OpenFor(q) /\ Settles(q) /\ (Kept(q, It) # {} => ContentOf[It] \in C)
    BY <1>2, <1>4, <2>4, StaysIs
  <2> QED
    BY <1>2, <2>1, <2>5, OpenOrderly
<1>6. CASE p.entity[It] = "opening"
  <2>1. AllIn(p, Ready) /\ Clean(p) /\ \A u \in ToSet(p.deferred) : Goes(u, "opened")
    BY <1>6 DEF Orderly, Phase, Opening
  <2>2. AllIn(q, Ready) /\ Clean(q) /\ q \in Page
    BY <1>4, <2>1, StaysIs DEF Fine, Good
  <2>3. n = EnterEntity(q, It, "opened", "none")
    <3>1. FieldsIn(q, It, Ready) = ToSet(FieldsOf[It])
      BY <2>2, ReadyIs
    <3> QED
      BY <1>1, <1>2, <1>3, <1>6, <3>1, EntityPositionIs DEF SetEntity, AcceptsState, AcceptsSet
  <2>4. PICK m \in Fine : /\ m = [q EXCEPT !.entity[It] = "opened"]
                          /\ m.entity[It] = "opened" /\ Alike(q, m) /\ m.editor = q.editor
    BY EntityAt DEF EntityState
  <2>5. n = Open(m, It)
    BY <2>3, <2>4 DEF EnterEntity
  <2>6. m.isCommitting = {} /\ m.modal = NoEntity /\ m.field = q.field /\ m.isDirty = q.isDirty
    BY <1>2, <2>4 DEF Alike, Remembers
  <2>7. /\ It \in n.isActive /\ n.modal = NoEntity
        /\ Remembers(m, n) /\ n.entity = m.entity /\ n.editor = m.editor
        /\ n.field = m.field /\ n.form = m.form /\ n.typed = m.typed
        /\ n.activeField = m.activeField /\ n.deferred = m.deferred /\ n.requests = m.requests
    BY <2>5, <2>6, OpenAlone
  <2>8. Fits(m) /\ Kept(m, It) = Kept(q, It) /\ Calls(m) = Calls(q)
    BY <1>2, <2>4, AlikeFits
  <2>9. SameWaits(m, n) /\ Calls(n) = Calls(q) /\ Kept(n, It) = {} /\ It \notin n.isDirty
    <3>1. SameWaits(m, n)
      BY <2>7, Zenon DEF SameWaits, TasksOf, RequestsOf
    <3>2. Calls(n) = Calls(q)
      BY <2>7, <2>8, Zenon DEF Calls
    <3>3. Kept(n, It) = Kept(m, It) /\ n.isDirty = m.isDirty
      BY <2>7, Zenon DEF Kept, Remembers
    <3>4. Kept(q, It) = {} /\ It \notin q.isDirty
      BY <2>2 DEF Clean
    <3> QED
      BY <2>6, <2>8, <3>1, <3>2, <3>3, <3>4
  <2>10. Fits(n)
    <3>1. ASSUME NEW f \in Field PROVE Sits(n, f) /\ Waits(n, f)
      <4>1. Sits(m, f) /\ Waits(m, f)
        BY <2>8 DEF Fits
      <4>2. Sits(n, f)
        BY <2>7, <4>1 DEF Sits
      <4> QED
        BY <2>7, <2>9, <4>1, <4>2, WaitsOn DEF SameWaits
    <3> QED
      BY <2>7, <2>8, <3>1 DEF Fits
  <2>11. AllIn(n, Ready)
    BY <2>2, <2>6, <2>7 DEF AllIn
  <2>12. Settles(n)
    BY <2>9, <2>11 DEF Settles, Clean, AllIn, Ready, Busy
  <2>13. OpenFor(n)
    <3>1. \A u \in Calls(n) : Goes(u, "opened")
      BY <1>2, <2>1, <2>9 DEF Calls
    <3>2. \A f \in Field : n.field[f] # "inactive"
      BY <2>11 DEF AllIn, Ready
    <3> QED
      BY <2>4, <2>6, <2>7, <3>1, <3>2 DEF OpenFor, Remembers
  <2> QED
    BY <2>9, <2>10, <2>12, <2>13, OpenOrderly
<1> QED
  BY <1>3, <1>5, <1>6

(* The entity is closed: the editors of its fields are torn down.          *)
Clearing(p) ==
  /\ p.entity[It] = "closed" /\ p.modal = NoEntity /\ p.isCommitting = {}
  /\ Fits(p) /\ AllIn(p, {"inactive"})
  /\ It \notin p.isDirty /\ It \notin p.isActive
  /\ \A t \in Calls(p) : Goes(t, "closing") \/ Goes(t, "closed")

LEMMA ClearStep ==
  ASSUME OneEntity, NEW p \in Fine, Clearing(p), NEW f \in Field, NEW q, q = TeardownEditor(p, f)
  PROVE  q \in Fine /\ Clearing(q) /\ q.editor = p.editor \ {f}
<1>1. p.field[f] = "inactive" /\ Sits(p, f) /\ Waits(p, f) /\ p \in Page
  BY DEF Clearing, AllIn, Fits, Fine, Good
<1>2. p.form[f] = "none" /\ f \notin p.typed /\ RequestsOf(p, f) = {}
  BY <1>1 DEF Sits, Waits, Still, Free
<1>3. PICK r : r = RemoveForm(p, f)
  OBVIOUS
<1>4. Alike(p, r) /\ r.entity = p.entity /\ r.editor = p.editor
  BY <1>1, <1>2, <1>3, FormlessAlike
<1>5. q \in Fine
  BY <1>1, TeardownGood DEF Fine, Unsaved
<1>6. /\ q.editor = p.editor \ {f} /\ q.entity = r.entity /\ Alike(r, q)
  <2>1. r \in Page
    BY <1>1, <1>3, RemoveFormGood DEF Fine, Good, Unsaved
  <2>2. q = [r EXCEPT !.editor = @ \ {f}]
    BY <1>3 DEF TeardownEditor
  <2> QED
    BY <1>4, <2>1, <2>2 DEF Page, Alike, Remembers
<1>7. /\ Remembers(p, q) /\ q.isActive = p.isActive /\ q.modal = p.modal /\ q.entity = p.entity
      /\ q.field = p.field /\ q.form = p.form /\ q.typed = p.typed
      /\ q.activeField = p.activeField /\ q.deferred = p.deferred /\ q.requests = p.requests
  BY <1>4, <1>6 DEF Alike, Remembers
<1>8. SameWaits(p, q) /\ Calls(q) = Calls(p)
  BY <1>7 DEF SameWaits, TasksOf, RequestsOf, Calls
<1>9. Fits(q)
  <2>1. ASSUME NEW g \in Field PROVE Sits(q, g) /\ Waits(q, g)
    <3>1. Sits(p, g) /\ Waits(p, g) /\ p.field[g] = "inactive"
      BY DEF Clearing, AllIn, Fits
    <3>2. Sits(q, g)
      BY <1>7, <3>1 DEF Sits, Still
    <3> QED
      BY <1>7, <1>8, <3>1, <3>2, WaitsOn DEF SameWaits
  <2> QED
    BY <1>7, <2>1 DEF Clearing, Fits
<1> QED
  BY <1>5, <1>6, <1>7, <1>8, <1>9 DEF Clearing, AllIn, Remembers

LEMMA ClearAll ==
  ASSUME OneEntity, NEW p \in Fine, Clearing(p), NEW q, q = TeardownAll(p, FieldsOf[It]), NEW C
  PROVE  Orderly(q, C)
<1> DEFINE s == FieldsOf[It]
           S == {r \in Fine : Clearing(r)}
           V == {v \in Nat \X S : \A i \in 1..v[1] : s[i] \notin v[2].editor}
<1>1. s \in Seq(Field) /\ Len(s) \in Nat \ {0} /\ \A k \in 1..Len(s) : s[k] \in Field
  BY SequenceOfFields
<1>2. \A r \in S, x \in Field : TeardownEditor(r, x) \in S
  BY ClearStep
<1>3. p \in S /\ <<0, p>> \in V
  OBVIOUS
<1>4. ASSUME NEW k \in 1..Len(s), NEW r \in S, <<k - 1, r>> \in V
      PROVE  <<k, TeardownEditor(r, s[k])>> \in V
  <2>1. PICK m : m = TeardownEditor(r, s[k])
    OBVIOUS
  <2>2. r \in Fine /\ Clearing(r) /\ s[k] \in Field /\ \A i \in 1..(k - 1) : s[i] \notin r.editor
    BY <1>1, <1>4
  <2>3. m \in Fine /\ Clearing(m) /\ m.editor = r.editor \ {s[k]}
    BY <2>1, <2>2, ClearStep
  <2>4. ASSUME NEW i \in 1..k PROVE s[i] \notin m.editor
    <3>1. i = k \/ i \in 1..(k - 1)
      BY <1>1
    <3> QED
      BY <2>2, <2>3, <3>1
  <2>5. k \in Nat
    BY <1>1
  <2> QED
    BY <2>1, <2>3, <2>4, <2>5
<1>5. <<Len(s), TeardownAll(p, s)>> \in V
  <2> HIDE DEF V, S, s
  <2> QED
    BY <1>1, <1>2, <1>3, <1>4, TeardownReaches
<1>6. q \in Fine /\ Clearing(q) /\ \A i \in 1..Len(s) : s[i] \notin q.editor
  BY <1>1, <1>5
<1>7. q.editor = {}
  <2>1. q.editor \subseteq Field
    BY <1>6 DEF Fine, Good, Page
  <2> QED
    BY <1>6, <2>1, SequenceOfFields, SMTT(30)
<1>8. Closed(q)
  BY <1>6, <1>7 DEF Closed, Clearing
<1> QED
  BY <1>6, <1>8 DEF Orderly, Clearing, Phase, Copied, Asked

LEMMA ClosedRuns ==
  ASSUME OneEntity, NEW p \in Fine, NEW C, Orderly(p, C), NEW q \in Fine, Popped(p, q),
         NEW t, t = Head(p.deferred), Goes(t, "closed"),
         NEW n, n = SetEntity(q, t.e, t.to, "none", t.ready)
  PROVE  Orderly(n, C)
<1>1. ~OfField(t) /\ ~Goes(t, "opened") /\ ~Goes(t, "opening") /\ ~Goes(t, "closing")
      /\ t # Task("confirm", It) /\ t.to = "closed"
  BY DEF OfField, Goes, Task
<1>2. /\ Fits(q) /\ Calls(p) = Calls(q) \union {t} /\ t \in Calls(p)
      /\ q.entity = p.entity /\ q.modal = NoEntity /\ q.isCommitting = {}
  BY <1>1, CallPopped
<1>3. t.e = It /\ t.ready = {"inactive"} /\ p.entity[It] \in {"closed", "closing"}
  BY <1>1, <1>2, CallsKnown
<1>4. Stays(p, q)
  BY DEF Popped
<1>5. q.isActive = p.isActive /\ q.editor = p.editor /\ q.isDirty = p.isDirty
  BY <1>4 DEF Stays, Steady, Remembers
<1>6. CASE p.entity[It] = "closed"
  <2>1. n = q
    BY <1>1, <1>2, <1>3, <1>6 DEF SetEntity
  <2>2. Closed(p)
    BY <1>6 DEF Orderly, Phase
  <2>3. AllIn(q, {"inactive"})
    BY <1>4, <2>2, StaysIs DEF Closed
  <2>4. Closed(q)
    BY <1>2, <1>5, <2>2, <2>3 DEF Closed
  <2> QED
    BY <1>2, <1>6, <2>1, <2>4 DEF Orderly, Phase, Copied, Asked
<1>7. CASE p.entity[It] = "closing"
  <2>1. AllIn(p, {"inactive"}) /\ \A u \in Calls(p) : Goes(u, "closing") \/ Goes(u, "closed")
    BY <1>7 DEF Orderly, Phase, Closing
  <2>2. AllIn(q, {"inactive"}) /\ q \in Page
    BY <1>4, <2>1, StaysIs DEF Fine, Good
  <2>3. n = EnterEntity(q, It, "closed", "none")
    <3>1. FieldsIn(q, It, {"inactive"}) = ToSet(FieldsOf[It])
      BY <2>2, ReadyIs
    <3> QED
      BY <1>1, <1>2, <1>3, <1>7, <3>1 DEF SetEntity, AcceptsState, AcceptsSet
  <2>4. PICK m \in Fine : /\ m = [q EXCEPT !.entity[It] = "closed"]
                          /\ m.entity[It] = "closed" /\ Alike(q, m) /\ m.editor = q.editor
    BY EntityAt DEF EntityState
  <2>5. Fits(m) /\ Calls(m) = Calls(q)
    BY <1>2, <2>4, AlikeFits
  <2>6. PICK b : b = [m EXCEPT !.isActive = @ \ {It}, !.inTempStore = @ \ {It}, !.isDirty = @ \ {It}]
    OBVIOUS
  <2>7. n = TeardownAll(b, FieldsOf[It])
    BY <2>3, <2>4, <2>6 DEF EnterEntity, Close, TeardownAll
  <2>8. /\ b \in Page /\ Same(m, b) /\ b.entity = m.entity /\ b.modal = m.modal
        /\ b.isCommitting = m.isCommitting /\ It \notin b.isDirty /\ It \notin b.isActive
        /\ b.field = m.field /\ b.form = m.form /\ b.typed = m.typed /\ b.editor = m.editor
        /\ b.activeField = m.activeField /\ b.deferred = m.deferred /\ b.requests = m.requests
    <3>1. m \in Page
      BY DEF Fine, Good
    <3> QED
      BY <2>6, <3>1 DEF Page, Same, Shown
  <2>9. b \in Fine
    BY <2>8, SameGood DEF Fine
  <2>10. SameWaits(m, b) /\ Calls(b) = Calls(m)
    BY <2>8 DEF SameWaits, TasksOf, RequestsOf, Calls
  <2>11. Fits(b)
    <3>1. ASSUME NEW f \in Field PROVE Sits(b, f) /\ Waits(b, f)
      <4>1. Sits(m, f) /\ Waits(m, f)
        BY <2>5 DEF Fits
      <4>2. Sits(b, f)
        BY <2>8, <4>1 DEF Sits
      <4> QED
        BY <2>8, <2>10, <4>1, <4>2, WaitsOn DEF SameWaits
    <3> QED
      BY <2>5, <2>8, <3>1 DEF Fits
  <2>12. b.modal = NoEntity /\ b.isCommitting = {} /\ AllIn(b, {"inactive"})
    BY <1>2, <2>2, <2>4, <2>8 DEF Alike, Remembers, AllIn
  <2>13. \A u \in Calls(b) : Goes(u, "closing") \/ Goes(u, "closed")
    BY <1>2, <2>1, <2>5, <2>10
  <2>14. Clearing(b)
    BY <2>4, <2>8, <2>11, <2>12, <2>13 DEF Clearing
  <2> QED
    BY <2>7, <2>9, <2>14, ClearAll
<1> QED
  BY <1>3, <1>6, <1>7

(* A page that was just loaded.                                            *)
LEMMA FreshOrderly ==
  ASSUME OneEntity, NEW C
  PROVE  Orderly(FreshPage, C)
<1> DEFINE p == FreshPage
<1>1. /\ p.entity[It] = "closed" /\ p.modal = NoEntity /\ p.isCommitting = {}
      /\ p.isDirty = {} /\ p.isActive = {} /\ p.editor = {} /\ p.typed = {}
      /\ p.activeField = NoField /\ p.deferred = <<>> /\ p.requests = {}
      /\ \A f \in Field : p.field[f] = "inactive" /\ p.form[f] = "none"
  BY ItIs DEF FreshPage
<1> HIDE DEF p
<1>2. ToSet(p.deferred) = {} /\ Len(p.deferred) = 0
  BY <1>1 DEF ToSet
<1>3. Calls(p) = {} /\ \A f \in Field : Free(p, f)
  BY <1>1, <1>2 DEF Calls, Free, TasksOf, RequestsOf
<1>4. Fits(p)
  <2>1. ASSUME NEW f \in Field PROVE Sits(p, f) /\ Waits(p, f)
    BY <1>1, <1>3, NotAField DEF Sits, Waits, Still, Ready, Active
  <2>2. Once(p.deferred)
    BY <1>2 DEF Once
  <2> QED
    BY <1>1, <2>1, <2>2, NotAField DEF Fits
<1>5. Closed(p)
  BY <1>1, <1>3 DEF Closed, AllIn
<1> QED
  BY <1>1, <1>4, <1>5 DEF Orderly, Phase, Copied, Asked, p

LEMMA RunDeferredOrderly ==
  ASSUME OneEntity, OneMode, page \in Fine, Orderly(page, copied), RunDeferred
  PROVE  Orderly(page', copied')
<1>1. page \in Page /\ page.deferred \in Queues /\ page.deferred # <<>> /\ copied' = copied
  BY DEF Fine, Good, Page, RunDeferred, Stored
<1>2. PICK t : t = Head(page.deferred)
  OBVIOUS
<1>3. PICK q \in Fine : /\ q = [page EXCEPT !.deferred = Tail(@)]
                        /\ Stays(page, q) /\ q.requests = page.requests
                        /\ q.deferred = Tail(page.deferred)
  BY <1>1, PopIs
<1>4. Popped(page, q) /\ t \in Tasks
  BY <1>1, <1>2, <1>3, TailIs DEF Popped
<1>5. page' =
        CASE t.do = "entity"  -> Reloaded(SetEntity(q, t.e, t.to, "none", t.ready))
          [] t.do = "field"   -> SetField(q, t.f, t.to, "none")
          [] t.do = "invalid" -> SetEntity(q, t.x, "opened", "invalid", {})
          [] t.do = "confirm" -> IF q.modal # NoEntity THEN q ELSE [q EXCEPT !.modal = t.x]
          [] t.do = "html"    -> SetHtml(q, t.x)
          [] t.do = "rerender" -> Defer(SetField(q, t.x, "candidate", "none"),
                                        Task("replace", t.x))
          [] t.do = "replace" -> RenderField(SetField(q, t.x, "inactive", "rerender"), t.x)
  BY <1>2, <1>3 DEF RunDeferred, AskToConfirm
<1>6. CASE t.do = "field"
  <2>1. PICK n : n = SetField(q, t.f, "active", "none")
    OBVIOUS
  <2>2. page' = n
    BY <1>4, <1>5, <1>6, <2>1 DEF Tasks, EntityTasks
  <2>3. Orderly(n, copied)
    BY <1>2, <1>4, <1>6, <2>1, FieldRuns
  <2> QED
    BY <1>1, <2>2, <2>3
<1>7. CASE t.do = "html"
  <2>1. PICK n : n = SetHtml(q, t.x)
    OBVIOUS
  <2>2. page' = n
    BY <1>5, <1>7, <2>1
  <2>3. Orderly(n, copied)
    BY <1>2, <1>4, <1>7, <2>1, HtmlRuns
  <2> QED
    BY <1>1, <2>2, <2>3
<1>8. CASE t.do = "rerender"
  <2>1. PICK n : n = Defer(SetField(q, t.x, "candidate", "none"), Task("replace", t.x))
    OBVIOUS
  <2>2. page' = n
    BY <1>5, <1>8, <2>1
  <2>3. Orderly(n, copied)
    BY <1>2, <1>4, <1>8, <2>1, RerenderRuns
  <2> QED
    BY <1>1, <2>2, <2>3
<1>9. CASE t.do = "replace"
  <2>1. PICK n : n = RenderField(SetField(q, t.x, "inactive", "rerender"), t.x)
    OBVIOUS
  <2>2. page' = n
    BY <1>5, <1>9, <2>1
  <2>3. Orderly(n, copied)
    BY <1>2, <1>4, <1>9, <2>1, ReplaceRuns
  <2> QED
    BY <1>1, <2>2, <2>3
<1>10. CASE t.do = "confirm"
  <2>1. PICK n : n = IF q.modal # NoEntity THEN q ELSE [q EXCEPT !.modal = t.x]
    OBVIOUS
  <2>2. page' = n
    BY <1>5, <1>10, <2>1
  <2>3. Orderly(n, copied)
    BY <1>2, <1>4, <1>10, <2>1, ConfirmRuns
  <2> QED
    BY <1>1, <2>2, <2>3
<1>11. ~OfField(t) => t \in Calls(page)
  BY <1>1, <1>2, TailIs DEF Calls
<1>12. t.do # "invalid"
  <2>1. SUFFICES ASSUME t.do = "invalid" PROVE FALSE
    OBVIOUS
  <2>2. t \in Calls(page) /\ t \notin EntityTasks /\ t # Task("confirm", It)
    BY <1>11, <2>1 DEF OfField, EntityTasks, Task
  <2> QED
    BY <2>2, CallsKnown
<1>13. CASE t.do = "entity"
  <2>1. t \in Calls(page) /\ t # Task("confirm", It)
    BY <1>11, <1>13 DEF OfField, Task
  <2>2. Goes(t, "opening") \/ Goes(t, "opened") \/ Goes(t, "closing") \/ Goes(t, "closed")
    BY <2>1, CallsKnown
  <2>3. PICK n : n = SetEntity(q, t.e, t.to, "none", t.ready)
    OBVIOUS
  <2>4. Orderly(n, copied)
    BY <1>2, <1>4, <2>2, <2>3, OpeningRuns, OpenedRuns, ClosingRuns, ClosedRuns
  <2>5. page' \in {n, FreshPage}
    BY <1>5, <1>13, <2>3 DEF Reloaded
  <2> QED
    BY <1>1, <2>4, <2>5, FreshOrderly
<1> QED
  BY <1>4, <1>6, <1>7, <1>8, <1>9, <1>10, <1>12, <1>13 DEF Tasks, EntityTasks

-----------------------------------------------------------------------------
(* Answers.                                                                *)

(* What a field has asked tells the state it is in.                        *)
LEMMA RequestTells ==
  ASSUME NEW p, NEW f \in Field, Waits(p, f), Sits(p, f), p.field[f] \in FieldState,
         NEW r, r \in RequestsOf(p, f)
  PROVE  /\ RequestsOf(p, f) = {r} /\ TasksOf(p, f) = {} /\ r.of = "current"
         /\ r.kind \in {"load", "text"} => p.field[f] = "activating"
         /\ r.kind \in {"backstage", "submit"} => p.field[f] = "saving"
         /\ r.kind = "submit" => f \notin p.typed
         /\ p.field[f] \in {"activating", "saving"}
<1>1. p.field[f] \in {"activating", "saving"}
  <2>1. ~Free(p, f) /\ ~WaitsForTask(p, f, {"replace"}) /\ ~WaitsForTask(p, f, {"html", "rerender"})
    BY DEF Free, WaitsForTask
  <2>2. p.field[f] \notin {"inactive", "active", "changed", "saved", "invalid"} \union Ready
    BY <2>1 DEF Waits, Sits
  <2> QED
    BY <2>2 DEF FieldState, Ready
<1>2. CASE p.field[f] = "activating"
  <2>1. WaitsForAnswer(p, f, {"text"}) \/ WaitsForAnswer(p, f, {"load"})
    BY <1>2 DEF Waits, WaitsForTask
  <2> QED
    BY <1>2, <2>1 DEF WaitsForAnswer
<1>3. CASE p.field[f] = "saving"
  <2>1. WaitsForAnswer(p, f, {"backstage"}) \/ (WaitsForAnswer(p, f, {"submit"}) /\ f \notin p.typed)
    BY <1>3 DEF Waits
  <2> QED
    BY <1>3, <2>1 DEF WaitsForAnswer
<1> QED
  BY <1>1, <1>2, <1>3

LEMMA FieldAnswered ==
  ASSUME OneEntity, page \in Fine, Orderly(page, copied), NEW r \in page.requests,
         r.kind # "entity", NEW f, f = r.x, NEW q, q = Answered(r)
  PROVE  /\ q \in Fine /\ f \in Field /\ Free(q, f) /\ FitsBut(q, f) /\ Sits(q, f)
         /\ Lively(q, copied) /\ r.of = "current"
         /\ r.kind \in {"load", "text"} => q.field[f] = "activating" /\ OpenFor(q)
         /\ r.kind \in {"backstage", "submit"} => q.field[f] = "saving"
         /\ r.kind = "submit" => f \notin q.typed
<1>1. q \in Fine /\ f \in Field
  BY FieldAnswerGood
<1>2. page \in Page /\ Fits(page)
  BY DEF Fine, Good, Orderly
<1>3. /\ Stays(page, q) /\ q.deferred = page.deferred /\ q.requests = page.requests \ {r}
  BY <1>2 DEF Answered, Page, Stays, Steady, Remembers
<1>4. r \in RequestsOf(page, f) /\ Waits(page, f) /\ Sits(page, f) /\ page.field[f] \in FieldState
  BY <1>1, <1>2 DEF RequestsOf, Fits, Page
<1>5. /\ RequestsOf(page, f) = {r} /\ TasksOf(page, f) = {} /\ r.of = "current"
      /\ r.kind \in {"load", "text"} => page.field[f] = "activating"
      /\ r.kind \in {"backstage", "submit"} => page.field[f] = "saving"
      /\ r.kind = "submit" => f \notin page.typed
      /\ page.field[f] \in {"activating", "saving"}
  BY <1>1, <1>4, RequestTells
<1>6. ~Free(page, f)
  BY <1>5 DEF Free
<1>7. /\ Lively(page, copied)
      /\ page.field[f] = "activating" => OpenFor(page)
  BY <1>1, <1>5, <1>6, LivelyIs
<1>8. /\ Calls(q) = Calls(page)
      /\ \A g \in Field \ {f} : TasksOf(q, g) = TasksOf(page, g) /\ RequestsOf(q, g) = RequestsOf(page, g)
      /\ TasksOf(q, f) = TasksOf(page, f) /\ RequestsOf(q, f) = RequestsOf(page, f) \ {r}
  BY <1>3 DEF Calls, TasksOf, RequestsOf
<1>9. Free(q, f)
  BY <1>5, <1>8 DEF Free
<1>10. FitsBut(page, f) /\ Once(q.deferred)
  BY <1>1, <1>2, <1>3, FitsParts DEF Fits
<1>11. FitsBut(q, f)
  BY <1>1, <1>3, <1>8, <1>10, StaysFits
<1>12. Sits(q, f) /\ (OpenFor(page) => OpenFor(q))
  BY <1>1, <1>3, <1>4, <1>8, StaysIs
<1>13. Lively(q, copied)
  BY <1>3, <1>7, <1>8, LivelyStays
<1>14. q.field = page.field /\ q.typed = page.typed
  BY <1>3 DEF Stays, Steady
<1> QED
  BY <1>1, <1>5, <1>7, <1>9, <1>11, <1>12, <1>13, <1>14

(* The server keeps its copy.                                              *)
LEMMA LivelyOn ==
  ASSUME NEW p, NEW C, NEW D, C \subseteq D, Lively(p, C)
  PROVE  Lively(p, D)
BY DEF Lively

LEMMA TextOrderly ==
  ASSUME OneEntity, page \in Fine, Orderly(page, copied), NEW r \in page.requests, TextLoaded(r)
  PROVE  Orderly(page', copied')
<1>1. r.kind = "text" /\ copied' = copied
  BY DEF TextLoaded, Stored
<1>2. PICK q : q = Answered(r)
  OBVIOUS
<1>3. PICK f : f = r.x
  OBVIOUS
<1>4. /\ q \in Fine /\ f \in Field /\ Free(q, f) /\ FitsBut(q, f) /\ Sits(q, f)
      /\ Lively(q, copied) /\ r.of = "current" /\ q.field[f] = "activating" /\ OpenFor(q)
  BY <1>1, <1>2, <1>3, FieldAnswered
<1>5. PICK n : n = SetField(q, f, "active", "none")
  OBVIOUS
<1>6. page' = n
  BY <1>2, <1>3, <1>4, <1>5 DEF TextLoaded
<1>7. Orderly(n, copied)
  BY <1>4, <1>5, ActiveOrderly
<1> QED
  BY <1>1, <1>6, <1>7

(* Only the form of f, or what is typed into it, changes.                  *)
Beside(p, q, f) ==
  /\ Steady(p, q) /\ Remembers(p, q)
  /\ q.activeField = p.activeField /\ q.deferred = p.deferred /\ q.requests = p.requests
  /\ \A g \in Field \ {f} : q.form[g] = p.form[g] /\ (g \in q.typed <=> g \in p.typed)

LEMMA BesideIs ==
  ASSUME NEW p, NEW q, NEW f \in Field, Beside(p, q, f)
  PROVE  /\ FitsBut(p, f) => FitsBut(q, f)
         /\ Free(p, f) => Free(q, f)
         /\ OpenFor(p) => OpenFor(q)
         /\ \A C : Lively(p, C) => Lively(q, C)
         /\ Calls(q) = Calls(p)
<1>1. /\ q.entity = p.entity /\ q.isActive = p.isActive /\ q.modal = p.modal
      /\ q.editor = p.editor /\ q.field = p.field
      /\ q.isDirty = p.isDirty /\ q.isCommitting = p.isCommitting
      /\ Kept(q, It) = Kept(p, It)
      /\ q.activeField = p.activeField /\ q.deferred = p.deferred /\ q.requests = p.requests
  BY DEF Beside, Steady, Remembers, Kept
<1>2. SameWaits(p, q) /\ Calls(q) = Calls(p)
  BY <1>1 DEF SameWaits, TasksOf, RequestsOf, Calls
<1>3. ASSUME FitsBut(p, f) PROVE FitsBut(q, f)
  <2>1. ASSUME NEW g \in Field \ {f} PROVE Sits(q, g) /\ Waits(q, g)
    <3>1. Sits(p, g) /\ Waits(p, g)
      BY <1>3 DEF FitsBut
    <3>2. q.form[g] = p.form[g] /\ (g \in q.typed <=> g \in p.typed)
      BY DEF Beside
    <3>3. Sits(q, g)
      BY <1>1, <3>1, <3>2 DEF Sits
    <3> QED
      BY <1>1, <1>2, <3>1, <3>2, <3>3, WaitsOn DEF SameWaits
  <2> QED
    BY <1>1, <1>3, <2>1 DEF FitsBut
<1>4. Settles(p) <=> Settles(q)
  BY <1>1 DEF Settles, Clean
<1>5. OpenFor(p) <=> OpenFor(q)
  BY <1>1, <1>2 DEF OpenFor
<1>6. Committing(p) <=> Committing(q)
  BY <1>1, <1>2 DEF Committing, AllIn
<1>7. \A C : Lively(p, C) => Lively(q, C)
  BY <1>1, <1>4, <1>5, <1>6 DEF Lively
<1>8. Free(p, f) => Free(q, f)
  BY <1>2 DEF Free, SameWaits
<1> QED
  BY <1>2, <1>3, <1>5, <1>7, <1>8

LEMMA FormOrderly ==
  ASSUME OneEntity, page \in Fine, Orderly(page, copied), NEW r \in page.requests, FormLoaded(r)
  PROVE  Orderly(page', copied')
<1>1. r.kind = "load" /\ copied \subseteq copied'
  BY DEF FormLoaded, LoadForm
<1>2. PICK q : q = Answered(r)
  OBVIOUS
<1>3. PICK f : f = r.x
  OBVIOUS
<1>4. /\ q \in Fine /\ f \in Field /\ Free(q, f) /\ FitsBut(q, f) /\ Sits(q, f)
      /\ Lively(q, copied) /\ r.of = "current" /\ q.field[f] = "activating" /\ OpenFor(q)
  BY <1>1, <1>2, <1>3, FieldAnswered
<1>5. PICK m : m = [q EXCEPT !.form[f] = "loaded"]
  OBVIOUS
<1>6. m \in Fine
  <2>1. RequestsOK(page) /\ Shown(page, q)
    BY <1>1, <1>2, FieldAnswerGood DEF Fine, Good
  <2>2. q.form[f] # "none"
    BY <1>1, <1>3, <1>4, <2>1 DEF RequestsOK, Shown
  <2> QED
    BY <1>4, <1>5, <2>2, LoadedGood
<1>7. q \in Page
  BY <1>4 DEF Fine, Good
<1>8. Beside(q, m, f) /\ m.field = q.field /\ m.typed = q.typed
      /\ m.editor = q.editor /\ m.activeField = q.activeField
  BY <1>5, <1>7 DEF Page, Beside, Steady, Remembers
<1>9. FitsBut(m, f) /\ Free(m, f) /\ OpenFor(m) /\ Lively(m, copied)
  BY <1>4, <1>8, BesideIs
<1>10. Sits(m, f)
  BY <1>4, <1>8 DEF Sits, Still
<1>11. Lively(m, copied')
  BY <1>1, <1>9, LivelyOn
<1>12. PICK n : n = SetField(m, f, "active", "none")
  OBVIOUS
<1>13. page' = n
  BY <1>2, <1>3, <1>4, <1>5, <1>12 DEF FormLoaded
<1>14. PICK D : D = copied'
  OBVIOUS
<1>15. Lively(m, D)
  BY <1>11, <1>14
<1>16. Orderly(n, D)
  BY <1>4, <1>6, <1>8, <1>9, <1>10, <1>12, <1>15, ActiveOrderly
<1> QED
  BY <1>13, <1>14, <1>16

(* The form is filled and submitted: what was typed is on its way.         *)
LEMMA BackstageOrderly ==
  ASSUME OneEntity, page \in Fine, Orderly(page, copied), NEW r \in page.requests,
         BackstageLoaded(r)
  PROVE  Orderly(page', copied')
<1>1. r.kind = "backstage" /\ copied \subseteq copied'
  BY DEF BackstageLoaded, LoadForm
<1>2. PICK q : q = Answered(r)
  OBVIOUS
<1>3. PICK f : f = r.x
  OBVIOUS
<1>4. /\ q \in Fine /\ f \in Field /\ Free(q, f) /\ FitsBut(q, f) /\ Sits(q, f)
      /\ Lively(q, copied) /\ r.of = "current" /\ q.field[f] = "saving"
  BY <1>1, <1>2, <1>3, FieldAnswered
<1>5. PICK m : m = [q EXCEPT !.typed = @ \ {f}]
  OBVIOUS
<1>6. q \in Page /\ RequestsOK(q)
  BY <1>4 DEF Fine, Good
<1>7. /\ m \in Page /\ Beside(q, m, f) /\ m.field = q.field /\ f \notin m.typed
      /\ m.editor = q.editor /\ m.activeField = q.activeField /\ m.form = q.form
      /\ m.requests = q.requests
  BY <1>5, <1>6 DEF Page, Beside, Steady, Remembers
<1>8. FitsBut(m, f) /\ Free(m, f) /\ Lively(m, copied)
  BY <1>4, <1>7, BesideIs
<1>9. Sits(m, f)
  BY <1>4, <1>7 DEF Sits
<1>10. PICK n : n = Send(m, "submit", f, FALSE)
  OBVIOUS
<1>11. IsFiniteSet(m.requests) /\ RequestsOf(m, f) = {} /\ "submit" \in Kinds \ {"entity"}
  BY <1>6, <1>7, <1>8 DEF RequestsOK, Free, Kinds
<1>12. ASSUME NEW no \in BOOLEAN, NEW w, w = Send(m, "submit", f, no)
       PROVE  /\ Steady(m, w) /\ Remembers(m, w) /\ w.deferred = m.deferred
              /\ w.form = m.form /\ w.typed = m.typed /\ w.activeField = m.activeField
              /\ \E s \in Requests : /\ s.kind = "submit" /\ s.of = "current"
                                     /\ RequestsOf(w, f) = {s}
              /\ \A g \in Field \ {f} : RequestsOf(w, g) = RequestsOf(m, g)
  BY <1>4, <1>7, <1>11, <1>12, SendNews
<1>13. /\ Steady(m, n) /\ Remembers(m, n) /\ n.deferred = m.deferred
       /\ n.form = m.form /\ n.typed = m.typed /\ n.activeField = m.activeField
       /\ \E s \in Requests : /\ s.kind = "submit" /\ s.of = "current"
                              /\ RequestsOf(n, f) = {s}
       /\ \A g \in Field \ {f} : RequestsOf(n, g) = RequestsOf(m, g)
  BY <1>10, <1>12
<1>14. Stays(m, n)
  BY <1>13 DEF Stays
<1>15. Calls(n) = Calls(m) /\ \A g \in Field : TasksOf(n, g) = TasksOf(m, g)
  BY <1>13 DEF Calls, TasksOf
<1>16. FitsBut(n, f)
  BY <1>4, <1>8, <1>13, <1>14, <1>15, StaysFits DEF FitsBut
<1>17. n.field[f] = "saving" /\ f \notin n.typed /\ TasksOf(n, f) = {}
  BY <1>4, <1>7, <1>8, <1>13, <1>15 DEF Steady, Free
<1>18. Waits(n, f)
  <2>1. WaitsForAnswer(n, f, {"submit"})
    BY <1>13, <1>17 DEF WaitsForAnswer
  <2> QED
    BY <1>17, <2>1 DEF Waits, Ready
<1>19. Sits(n, f)
  BY <1>4, <1>9, <1>14, StaysIs
<1>20. Fits(n)
  BY <1>4, <1>16, <1>18, <1>19, FitsParts
<1>21. Lively(n, copied)
  BY <1>8, <1>14, <1>15, LivelyStays
<1>22. PICK D : D = copied'
  OBVIOUS
<1>23. Lively(n, D)
  BY <1>1, <1>21, <1>22, LivelyOn
<1>24. Orderly(n, D)
  BY <1>20, <1>23, LivelyOrderly
<1>25. page' = n
  <2>1. page' = Send([Answered(r) EXCEPT !.typed = @ \ {r.x}], "submit", r.x, FALSE)
    BY <1>4 DEF BackstageLoaded
  <2> QED
    BY <1>2, <1>3, <1>5, <1>10, <2>1
<1> QED
  BY <1>22, <1>24, <1>25

(* The server has the value of a field, and a copy to keep it in.          *)
LEMMA SavedLively ==
  ASSUME OneEntity, NEW q \in Fine, NEW C, Lively(q, C), NEW f \in Field, q.field[f] = "saving",
         Sits(q, f), NEW a, After(q, a, f, "saved"), NEW D, ContentOf[It] \in D
  PROVE  Lively(a, D)
<1>1. /\ Moved(q, a, f, "saved") /\ Told(q, a, f, "saved")
      /\ a.field[f] = "saved" /\ \A g \in Field \ {f} : a.field[g] = q.field[g]
  BY FieldsAfter DEF After
<1>2. /\ a.entity = q.entity /\ a.isActive = q.isActive /\ a.modal = q.modal
      /\ a.activeField = q.activeField
  BY <1>1 DEF Moved, Active
<1>3. q.modal = NoEntity
  BY DEF Lively
<1>4. CASE OpenFor(q)
  <2>1. Settles(q)
    BY <1>4, LivelyOpen
  <2>2. OpenFor(a)
    BY <1>4, StaysOpen
  <2>3. a.isDirty = q.isDirty /\ Kept(a, It) = Kept(q, It) \union {f}
    BY <1>1, <1>4 DEF Told, OpenFor
  <2>4. q.activeField \notin {NoField, f}
    BY <2>1 DEF Settles, Busy
  <2>5. ASSUME NEW g \in Field, a.field[g] \in Busy PROVE a.activeField \notin {NoField, g}
    <3>1. CASE g = f
      BY <1>2, <2>4, <3>1
    <3>2. CASE g # f
      BY <1>1, <1>2, <2>1, <2>5, <3>2 DEF Settles
    <3> QED
      BY <3>1, <3>2
  <2>6. Settles(a)
    BY <1>2, <2>3, <2>4, <2>5 DEF Settles
  <2> QED
    BY <1>2, <1>3, <2>2, <2>6 DEF Lively
<1>5. CASE q.entity[It] = "committing" /\ Committing(q)
  <2>1. Calls(a) = Calls(q) /\ (It \in a.isCommitting <=> It \in q.isCommitting \/ AllIn(a, Ready))
    BY <1>1, <1>5 DEF Told
  <2>2. ~AllIn(q, Ready)
    BY DEF AllIn, Ready
  <2>3. AllIn(a, Ready \union Busy)
    BY <1>1, <1>5 DEF Committing, AllIn, Busy
  <2>4. Committing(a)
    BY <1>2, <1>5, <2>1, <2>2, <2>3 DEF Committing
  <2> QED
    BY <1>2, <1>3, <1>5, <2>4 DEF Lively
<1> QED
  BY <1>4, <1>5 DEF Lively

LEMMA FieldSavedOrderly ==
  ASSUME OneEntity, OneMode, page \in Fine, Orderly(page, copied), NEW r \in page.requests,
         FieldSaved(r)
  PROVE  Orderly(page', copied')
<1>1. r.kind = "submit" /\ copied' = copied \union {Content(r)}
  BY DEF FieldSaved, Submit
<1>2. PICK q : q = Answered(r)
  OBVIOUS
<1>3. PICK f : f = r.x
  OBVIOUS
<1>4. /\ q \in Fine /\ f \in Field /\ Free(q, f) /\ FitsBut(q, f) /\ Sits(q, f)
      /\ Lively(q, copied) /\ r.of = "current" /\ q.field[f] = "saving" /\ f \notin q.typed
  BY <1>1, <1>2, <1>3, FieldAnswered
<1>5. PICK D : D = copied'
  OBVIOUS
<1>6. ContentOf[It] \in D
  BY <1>1, <1>3, <1>4, <1>5, ItIs DEF Content
<1>7. PICK a : a = SetField(q, f, "saved", "none")
  OBVIOUS
<1>8. After(q, a, f, "saved")
  <2>1. <<q.field[f], "saved">> \in Moves
    BY <1>4 DEF Moves
  <2>2. Handed(q, f, "saved") /\ ~HopsTo(q, f, "saved", "none")
    BY DEF Handed, HopsTo, Active
  <2> QED
    BY <1>4, <1>7, <2>1, <2>2, MoveFits
<1>9. Lively(a, D)
  BY <1>4, <1>6, <1>8, SavedLively
<1>10. a \in Fine /\ FitsBut(a, f) /\ Sits(a, f) /\ Free(a, f) /\ a.field[f] = "saved"
  BY <1>8 DEF After
<1>11. PICK x : x = Defer(a, Task("html", f))
  OBVIOUS
<1>12. PICK y : y = Defer(a, Task("rerender", f))
  OBVIOUS
<1>13. Orderly(x, D) /\ Orderly(y, D)
  <2>1. Awaits(a, f, "html") /\ Awaits(a, f, "rerender")
    BY <1>10 DEF Awaits
  <2> QED
    BY <1>4, <1>9, <1>10, <1>11, <1>12, <2>1, NoteOrderly
<1>14. page' \in {x, y}
  <2>1. SetHtml(a, f) = y
    BY <1>4, <1>12, HtmlIs
  <2>2. page' \in {Defer(a, Task("html", f)), SetHtml(a, f)}
    BY <1>2, <1>3, <1>4, <1>7 DEF FieldSaved
  <2> QED
    BY <1>11, <2>1, <2>2
<1> QED
  BY <1>5, <1>13, <1>14

(* Without trouble no request fails, and an entity that is saved has a copy*)
(* to save.                                                                *)
LEMMA CopyIsThere ==
  ASSUME OneEntity, page \in Fine, Orderly(page, copied), NEW r \in page.requests, r.kind = "entity"
  PROVE  Content(r) \in copied /\ r.x = It /\ page.entity[It] = "committing" /\ AllIn(page, Ready)
<1>1. page \in Page /\ CommitsOK(page)
  BY DEF Fine, Good
<1>2. r.x = It /\ It \in page.isCommitting
  BY <1>1, ItIs DEF CommitsOK, Page
<1>3. page.entity[It] = "committing"
  BY <1>2 DEF Orderly, Phase
<1>4. AllIn(page, Ready)
  BY <1>2, <1>3 DEF Orderly, Phase, Committing
<1>5. \A f \in Field : page.field[f] # "saving"
  BY <1>4 DEF AllIn, Ready
<1>6. ContentOf[It] \in copied
  BY <1>3, <1>5 DEF Orderly, Copied
<1> QED
  BY <1>2, <1>3, <1>4, <1>6 DEF Content

LEMMA AnswerOrderly ==
  ASSUME OneEntity, OneMode, page \in Fine, Orderly(page, copied), trouble = {}, Answer
  PROVE  Orderly(page', copied')
<1>1. PICK r \in page.requests :
        \/ FormLoaded(r) \/ BackstageLoaded(r) \/ TextLoaded(r)
        \/ FieldSaved(r) \/ FieldInvalid(r)
        \/ EntitySaved(r) \/ EntityNotSaved(r)
        \/ FormNotLoaded(r) \/ AnswerLost(r)
  BY DEF Answer
<1>2. ~FieldInvalid(r) /\ ~FormNotLoaded(r) /\ ~AnswerLost(r)
  BY DEF FieldInvalid, FormNotLoaded, AnswerLost
<1>3. ~EntityNotSaved(r)
  BY CopyIsThere DEF EntityNotSaved
<1> QED
  BY <1>1, <1>2, <1>3, FormOrderly, BackstageOrderly, TextOrderly, FieldSavedOrderly, SavedOrderly

LEMMA UserOrderly ==
  ASSUME OneEntity, page \in Fine, Orderly(page, copied), trouble = {}, ~Revisits, User
  PROVE  Orderly(page', copied')
<1>1. CASE \E e \in Entity : QuickEditLink(e) \/ ClickSave(e) \/ ClickClose(e)
  <2>1. QuickEditLink(It) \/ ClickSave(It) \/ ClickClose(It)
    BY <1>1, ItIs
  <2> QED
    BY <2>1, LaunchOrderly, SaveOrderly, CloseOrderly
<1>2. CASE \E f \in Field : MouseEnter(f) \/ MouseLeave(f) \/ Click(f) \/ Type(f)
  BY <1>2, MouseOrderly, ClickOrderly, TypeOrderly
<1>3. CASE ModalSave \/ ModalDiscard
  BY <1>3, ModalSaveOrderly, DiscardOrderly
<1> QED
  BY <1>1, <1>2, <1>3 DEF User

(* The inductive invariant: without trouble the page is always in order,   *)
(* when it shows one entity, each field in one view mode, and the user does*)
(* not edit again what was saved.  Each of the three is needed: entities   *)
(* share an array of saved fields, an instance in another view mode is     *)
(* replaced whatever its state, and what is kept of an entity that was     *)
(* saved is not cleared.                                                   *)
Ordinary == OneEntity /\ OneMode /\ ~Revisits

IInv == Inv /\ (trouble = {} => Orderly(page, copied))

LEMMA InitOrderly == OneEntity /\ Init => IInv
<1> SUFFICES ASSUME OneEntity, Init PROVE IInv
  OBVIOUS
<1>1. Orderly(page, copied)
  BY FreshOrderly DEF Init
<1> QED
  BY <1>1, InitInv DEF IInv

LEMMA NextOrderly == Ordinary /\ IInv /\ [Next]_vars => IInv'
<1> SUFFICES ASSUME Ordinary, IInv, [Next]_vars PROVE IInv'
  OBVIOUS
<1>1. Inv /\ Inv'
  BY NextInv DEF IInv
<1>2. page \in Fine /\ OneEntity /\ OneMode /\ ~Revisits
  BY <1>1 DEF Inv, Ordinary
<1>3. trouble' = trouble
  BY DEF Next, User, Answer, RunDeferred, QuickEditLink, MouseEnter, MouseLeave, Click, Type,
         ClickSave, ClickClose, ModalSave, ModalDiscard, Stored, LoadForm, Submit, FormLoaded,
         BackstageLoaded, TextLoaded, FieldSaved, FieldInvalid, EntitySave, EntitySaved,
         EntityNotSaved, FormNotLoaded, AnswerLost, vars
<1>4. ASSUME trouble = {} PROVE Orderly(page', copied')
  <2>1. Orderly(page, copied)
    BY <1>4 DEF IInv
  <2>2. CASE User
    BY <1>2, <1>4, <2>1, <2>2, UserOrderly
  <2>3. CASE RunDeferred
    BY <1>2, <2>1, <2>3, RunDeferredOrderly
  <2>4. CASE Answer
    BY <1>2, <1>4, <2>1, <2>4, AnswerOrderly
  <2>5. CASE UNCHANGED vars
    BY <2>1, <2>5 DEF vars
  <2> QED
    BY <2>2, <2>3, <2>4, <2>5 DEF Next
<1> QED
  BY <1>1, <1>3, <1>4 DEF IInv

LEMMA OrderlyAlways == Ordinary => (Spec => [](trouble = {} => page \in Fine /\ Orderly(page, copied)))
<1> SUFFICES ASSUME Ordinary PROVE Spec => [](trouble = {} => page \in Fine /\ Orderly(page, copied))
  OBVIOUS
<1>1. Init => IInv
  BY InitOrderly DEF Ordinary
<1>2. IInv /\ [Next]_vars => IInv'
  BY NextOrderly
<1>3. IInv => (trouble = {} => page \in Fine /\ Orderly(page, copied))
  BY DEF IInv, Inv
<1> QED
  BY <1>1, <1>2, <1>3, PTL DEF Spec

(* The field in whose editor the user works is the one the application     *)
(* knows as the active one, so there is one at most: however many fields   *)
(* the entity has, and whichever of them wait for their values or are      *)
(* being replaced.                                                         *)
THEOREM OneFieldIsActive ==
  ASSUME OneEntity, OneMode, ~Revisits
  PROVE  Spec => []OneActiveField
<1>1. (trouble = {} => page \in Fine /\ Orderly(page, copied)) => OneActiveField
  <2> SUFFICES ASSUME trouble = {}, Orderly(page, copied), NEW f \in Field, page.field[f] \in Active
               PROVE  page.activeField = f
    BY DEF OneActiveField
  <2> QED
    BY DEF Orderly, Fits, Sits
<1> QED
  BY <1>1, OrderlyAlways, PTL DEF Ordinary

(* All fields are inactive while the entity is closed or launching: what   *)
(* it was still told when it closed finds it closed, and no field waits.   *)
THEOREM ClosedIsQuiet ==
  ASSUME OneEntity, OneMode, ~Revisits
  PROVE  Spec => []QuietWhenClosed
<1>1. (trouble = {} => page \in Fine /\ Orderly(page, copied)) => QuietWhenClosed
  <2> SUFFICES ASSUME trouble = {}, page \in Fine, Orderly(page, copied), NEW e \in Entity,
                      page.entity[e] \in {"closed", "launching"}
               PROVE  FieldsIn(page, e, {"inactive"}) = ToSet(FieldsOf[e])
    BY DEF QuietWhenClosed
  <2>1. e = It /\ page \in Page
    BY ItIs DEF Fine, Good
  <2>2. AllIn(page, {"inactive"})
    BY <2>1 DEF Orderly, Phase, Closed, Launching
  <2> QED
    BY <2>1, <2>2, ReadyIs
<1> QED
  BY <1>1, OrderlyAlways, PTL DEF Ordinary

(* The entity is saved only when nothing the user has typed is still on    *)
(* the page: the last field to be ready is the last one to be saved.       *)
THEOREM AllIsSent ==
  ASSUME OneEntity, OneMode, ~Revisits
  PROVE  Spec => []NothingUnsaved
<1>1. (trouble = {} => page \in Fine /\ Orderly(page, copied)) => NothingUnsaved
  <2> SUFFICES ASSUME trouble = {}, page \in Fine, Orderly(page, copied),
                      NEW r \in page.requests, r.kind = "entity"
               PROVE  page.typed \cap ToSet(FieldsOf[r.x]) = {}
    BY DEF NothingUnsaved
  <2>1. r.x = It /\ AllIn(page, Ready)
    BY CopyIsThere
  <2>2. \A f \in Field : f \notin page.typed
    BY <2>1 DEF Orderly, Fits, Sits, AllIn, Ready
  <2> QED
    BY <2>1, <2>2, ItIs
<1> QED
  BY <1>1, OrderlyAlways, PTL DEF Ordinary

(* The server has the copy that it is asked to save, when no request fails *)
(* and the user waits.                                                     *)
THEOREM CopyIsSaved ==
  ASSUME OneEntity, OneMode, ~Revisits
  PROVE  Spec => [](trouble = {} => CopyExists)
<1>1. (trouble = {} => page \in Fine /\ Orderly(page, copied)) => (trouble = {} => CopyExists)
  BY CopyIsThere DEF CopyExists
<1> QED
  BY <1>1, OrderlyAlways, PTL DEF Ordinary

=============================================================================

------------------------- MODULE Transactions_proofs -------------------------
(***************************************************************************)
(* Proofs about Transactions, for any objects, names, changes and depth:   *)
(* the connection's layers and the server's savepoints match, nothing is   *)
(* left open at the end, and the promise of NestedTransactions is kept.    *)
(***************************************************************************)
EXTENDS Transactions, SequenceTheorems, WellFoundedInduction, TLAPS

UniqueNames(s) == \A i, j \in DOMAIN s : s[i].name = s[j].name => i = j

IsStack(s, T) == s \in Seq(T) /\ UniqueNames(s)

-----------------------------------------------------------------------------
(* Sequences of levels and of layers.                                      *)

LEMMA LastExists ==
  ASSUME NEW n \in Nat, NEW I, I \subseteq 1..n, I # {}
  PROVE  Max(I) \in I /\ \A j \in I : j <= Max(I)
<1> DEFINE D == {k \in Nat : n - k \in I}
<1>1. D # {}
  <2>1. PICK i \in I : TRUE
    OBVIOUS
  <2>2. n - i \in D
    BY <2>1
  <2> QED
    BY <2>2
<1>2. PICK k \in D : \A j \in D : ~ (<<j, k>> \in OpToRel(<, Nat))
  BY <1>1, NatLessThanWellFounded, WFMin
<1>3. \A j \in D : ~ (j < k)
  BY <1>2, Zenon DEF OpToRel
<1>4. \A j \in I : n - j \in D /\ j <= n - k
  <2>1. \A j \in I : n - j \in D
    OBVIOUS
  <2> QED
    BY <1>3, <2>1
<1>5. \E i \in I : \A j \in I : i >= j
  BY <1>4
<1> QED
  BY <1>5 DEF Max

LastNamed(s, n) == SelectLastInSeq(s, LAMBDA l : l.name = n)
LastActive(ls)  == SelectLastInSeq(ls, LAMBDA l : l.active)

LEMMA LastNamedIs ==
  ASSUME NEW T, NEW s \in Seq(T), NEW n
  PROVE  /\ LastNamed(s, n) \in 0..Len(s)
         /\ LastNamed(s, n) # 0 => s[LastNamed(s, n)].name = n
         /\ LastNamed(s, n) = 0 => \A a \in DOMAIN s : s[a].name # n
         /\ UniqueNames(s) => \A a \in DOMAIN s : s[a].name = n => LastNamed(s, n) = a
<1> DEFINE I == {i \in 1..Len(s) : s[i].name = n}
<1>1. LastNamed(s, n) = IF I # {} THEN Max(I) ELSE 0
  BY DEF LastNamed, SelectLastInSeq
<1>2. I # {} => Max(I) \in I
  <2>1. Len(s) \in Nat /\ I \subseteq 1..Len(s)
    OBVIOUS
  <2> QED
    BY <2>1, LastExists
<1>3. \A a \in DOMAIN s : a \in I <=> s[a].name = n
  OBVIOUS
<1>4. I \subseteq DOMAIN s /\ DOMAIN s = 1..Len(s) /\ Len(s) \in Nat
  OBVIOUS
<1> HIDE DEF I
<1> QED
  BY <1>1, <1>2, <1>3, <1>4 DEF UniqueNames

LEMMA LastActiveIs ==
  ASSUME NEW ls \in Seq(Layer)
  PROVE  /\ LastActive(ls) \in 0..Len(ls)
         /\ LastActive(ls) # 0 => ls[LastActive(ls)].active
         /\ \A i \in DOMAIN ls : i > LastActive(ls) => ~ls[i].active
<1> DEFINE I == {i \in 1..Len(ls) : ls[i].active}
<1>1. LastActive(ls) = IF I # {} THEN Max(I) ELSE 0
  BY DEF LastActive, SelectLastInSeq
<1>2. I # {} => Max(I) \in I /\ \A j \in I : j <= Max(I)
  <2>1. Len(ls) \in Nat /\ I \subseteq 1..Len(ls)
    OBVIOUS
  <2> QED
    BY <2>1, LastExists
<1>3. I \subseteq DOMAIN ls /\ DOMAIN ls = 1..Len(ls) /\ Len(ls) \in Nat
  OBVIOUS
<1>4. \A i \in DOMAIN ls : i \in I <=> ls[i].active
  OBVIOUS
<1> HIDE DEF I
<1> QED
  BY <1>1, <1>2, <1>3, <1>4

(* Merge() keeps the levels below k, and k with all rows from there on.    *)
LEMMA MergeEffect ==
  ASSUME NEW s \in Seq(Level), NEW k \in 1..Len(s), NEW t, t = Merge(s, k)
  PROVE  /\ t \in Seq(Level) /\ Len(t) = k
         /\ \A i \in 1..k : t[i].name = s[i].name
         /\ \A i \in 1..(k-1) : t[i] = s[i]
         /\ \A c : c \in t[k].rows <=> \E i \in k..Len(s) : c \in s[i].rows
<1> DEFINE u == SubSeq(s, k, Len(s))
           e == [s[k] EXCEPT !.rows = Unsaved(u)]
           f == SubSeq(s, 1, k - 1)
<1>1. /\ u \in Seq(Level) /\ Len(u) = Len(s) - k + 1
      /\ \A i \in 1..Len(u) : u[i] = s[k + i - 1]
      /\ DOMAIN u = 1..(Len(s) - k + 1)
  OBVIOUS
<1>2. \A i \in k..Len(s) : i - k + 1 \in 1..Len(u) /\ u[i - k + 1] = s[i]
  BY <1>1
<1>3. \A c : c \in Unsaved(u) <=> \E i \in k..Len(s) : c \in s[i].rows
  <2> HIDE DEF u
  <2>1. ASSUME NEW c, c \in Unsaved(u) PROVE \E i \in k..Len(s) : c \in s[i].rows
    <3>1. PICK j \in 1..Len(u) : c \in u[j].rows
      BY <1>1, <2>1 DEF Unsaved
    <3>2. k + j - 1 \in k..Len(s) /\ u[j] = s[k + j - 1]
      BY <1>1
    <3> QED
      BY <3>1, <3>2
  <2>2. ASSUME NEW c, NEW i \in k..Len(s), c \in s[i].rows PROVE c \in Unsaved(u)
    BY <1>1, <1>2, <2>2 DEF Unsaved
  <2> QED
    BY <2>1, <2>2
<1>4. s[k] \in Level /\ Unsaved(u) \subseteq Change
  <2>1. s[k] \in Level
    OBVIOUS
  <2>2. \A i \in 1..Len(s) : s[i].rows \subseteq Change
    <3>1. \A i \in 1..Len(s) : s[i] \in Level
      OBVIOUS
    <3> QED
      BY <3>1 DEF Level
  <2> QED
    BY <1>3, <2>1, <2>2
<1>5. e \in Level /\ e.name = s[k].name /\ e.rows = Unsaved(u)
  <2> HIDE DEF u
  <2> QED
    BY <1>4 DEF Level
<1>6. f \in Seq(Level) /\ Len(f) = k - 1 /\ \A i \in 1..(k-1) : f[i] = s[i]
  OBVIOUS
<1>7. t = Append(f, e)
  BY DEF Merge
<1> HIDE DEF f, e
<1>8. /\ t \in Seq(Level) /\ Len(t) = k /\ t[k] = e
      /\ \A i \in 1..(k-1) : t[i] = f[i]
  BY <1>5, <1>6, <1>7
<1> QED
  <2>1. \A i \in 1..(k-1) : t[i] = s[i]
    BY <1>6, <1>8
  <2>2. \A i \in 1..k : t[i].name = s[i].name
    BY <2>1, <1>5, <1>8
  <2> QED
    BY <1>3, <1>5, <1>8, <2>1, <2>2

NewLevel(n) == [name |-> n, rows |-> {}]

(* SAVEPOINT n: a new level on top; an older one of the name is merged into*)
(* the level below it.                                                     *)
LEMMA SetSavepointEffect ==
  ASSUME IsStack(server, Level), server # <<>>, NEW n \in Names, server[1].name # n,
         NEW i, i = Savepoint(n), NEW t, t = server', SetSavepoint(n)
  PROVE  /\ t \in Seq(Level) /\ t[Len(t)] = NewLevel(n)
         /\ i = 0 => /\ Len(t) = Len(server) + 1
                     /\ \A a \in 1..Len(server) : t[a] = server[a]
         /\ i # 0 => /\ i \in 2..Len(server) /\ server[i].name = n
                     /\ Len(t) = Len(server)
                     /\ \A a \in 1..(i-1) : t[a].name = server[a].name
                     /\ \A a \in 1..(i-2) : t[a] = server[a]
                     /\ \A c : c \in t[i-1].rows <=> c \in server[i-1].rows \union server[i].rows
                     /\ \A a \in i..(Len(server)-1) : t[a] = server[a+1]
<1>1. server \in Seq(Level) /\ UniqueNames(server) /\ Len(server) \in Nat \ {0}
  BY DEF IsStack
<1>2. i \in 0..Len(server) /\ (i # 0 => server[i].name = n)
  <2>1. i = LastNamed(server, n)
    BY DEF Savepoint, LastNamed
  <2> QED
    BY <1>1, <2>1, LastNamedIs
<1>3. NewLevel(n) \in Level
  BY DEF NewLevel, Level
<1>4. CASE i = 0
  <2>1. t = Append(server, NewLevel(n))
    BY <1>4 DEF SetSavepoint, Open, NewLevel
  <2> QED
    BY <1>1, <1>3, <1>4, <2>1
<1>5. CASE i # 0
  <2>1. i \in 2..Len(server)
    BY <1>1, <1>2, <1>5
  <2> DEFINE u == SubSeq(server, 1, i)
             m == Merge(u, i - 1)
             v == SubSeq(server, i + 1, Len(server))
  <2>2. u \in Seq(Level) /\ Len(u) = i /\ \A a \in 1..i : u[a] = server[a]
    BY <1>1, <2>1
  <2>3. /\ v \in Seq(Level) /\ Len(v) = Len(server) - i
        /\ \A a \in 1..(Len(server)-i) : v[a] = server[i + a]
    BY <1>1, <2>1
  <2>4. t = Append(m \o v, NewLevel(n))
    BY <1>5 DEF SetSavepoint, Open, NewLevel
  <2> HIDE DEF u, v
  <2>5. /\ m \in Seq(Level) /\ Len(m) = i - 1
        /\ \A a \in 1..(i-1) : m[a].name = u[a].name
        /\ \A a \in 1..(i-2) : m[a] = u[a]
        /\ \A c : c \in m[i-1].rows <=> \E a \in (i-1)..i : c \in u[a].rows
    <3> DEFINE k == i - 1
    <3>1. k \in 1..Len(u) /\ k - 1 = i - 2 /\ m = Merge(u, k) /\ Len(u) = i
      BY <2>1, <2>2 DEF m
    <3> HIDE DEF k, m
    <3>2. /\ m \in Seq(Level) /\ Len(m) = k
          /\ \A a \in 1..k : m[a].name = u[a].name
          /\ \A a \in 1..(k-1) : m[a] = u[a]
          /\ \A c : c \in m[k].rows <=> \E a \in k..Len(u) : c \in u[a].rows
      BY <2>2, <3>1, MergeEffect
    <3> QED
      BY <3>1, <3>2 DEF k
  <2> HIDE DEF m
  <2>6. /\ m \o v \in Seq(Level) /\ Len(m \o v) = Len(server) - 1
        /\ \A a \in 1..(i-1) : (m \o v)[a] = m[a]
        /\ \A a \in i..(Len(server)-1) : (m \o v)[a] = v[a - (i-1)]
    BY <2>1, <2>3, <2>5, SMTT(30)
  <2>7. /\ t \in Seq(Level) /\ Len(t) = Len(server) /\ t[Len(t)] = NewLevel(n)
        /\ \A a \in 1..(i-1) : t[a] = m[a]
        /\ \A a \in i..(Len(server)-1) : t[a] = v[a - (i-1)]
    <3> DEFINE w == m \o v
    <3>1. \A a \in 1..(i-1) : a \in 1..Len(w)
      BY <2>1, <2>6
    <3>2. \A a \in i..(Len(server)-1) : a \in 1..Len(w)
      BY <2>1, <2>6
    <3>3. t \in Seq(Level) /\ Len(t) = Len(w) + 1 /\ t[Len(t)] = NewLevel(n)
          /\ \A a \in 1..Len(w) : t[a] = w[a]
      BY <1>3, <2>4, <2>6
    <3>4. \A a \in 1..(i-1) : t[a] = m[a]
      BY <2>6, <3>1, <3>3
    <3>5. \A a \in i..(Len(server)-1) : t[a] = v[a - (i-1)]
      BY <2>6, <3>2, <3>3
    <3>6. Len(t) = Len(server)
      BY <1>1, <2>6, <3>3
    <3> QED
      BY <3>3, <3>4, <3>5, <3>6
  <2>8. \A a \in i..(Len(server)-1) : t[a] = server[a+1]
    <3> SUFFICES ASSUME NEW a \in i..(Len(server)-1) PROVE t[a] = server[a+1]
      OBVIOUS
    <3>1. a - (i-1) \in 1..(Len(server)-i) /\ i + (a - (i-1)) = a + 1
      BY <2>1
    <3> QED
      BY <2>3, <2>7, <3>1
  <2>9. \A c : c \in t[i-1].rows <=> c \in server[i-1].rows \union server[i].rows
    <3>1. i-1 \in 1..(i-1) /\ i-1 \in 1..i /\ i \in 1..i /\ (i-1)..i = {i-1, i}
      BY <2>1
    <3> QED
      BY <2>2, <2>5, <2>7, <3>1
  <2>10. \A a \in 1..(i-1) : t[a].name = server[a].name
    <3>1. \A a \in 1..(i-1) : a \in 1..i
      BY <2>1
    <3> QED
      BY <2>2, <2>5, <2>7, <3>1
  <2>11. \A a \in 1..(i-2) : t[a] = server[a]
    <3>1. \A a \in 1..(i-2) : a \in 1..i /\ a \in 1..(i-1)
      BY <2>1
    <3> QED
      BY <2>2, <2>5, <2>7, <3>1
  <2> QED
    BY <1>2, <1>5, <2>1, <2>7, <2>8, <2>9, <2>10, <2>11
<1> QED
  BY <1>4, <1>5

(* The same, with the level that the b-th was before.                      *)
Before(i, b) == IF i = 0 \/ b < i THEN b ELSE b + 1

LEMMA SavepointMoves ==
  ASSUME IsStack(server, Level), server # <<>>, NEW n \in Names, server[1].name # n,
         NEW i, i = Savepoint(n), NEW t, t = server', SetSavepoint(n)
  PROVE  /\ IsStack(t, Level) /\ Len(t) >= 2 /\ t[Len(t)] = NewLevel(n)
         /\ i \in 0..Len(server) /\ i # 1
         /\ \A a \in DOMAIN server : server[a].name = n <=> a = i
         /\ \A b \in 1..(Len(t)-1) :
              /\ Before(i, b) \in DOMAIN server /\ Before(i, b) # i
              /\ t[b].name = server[Before(i, b)].name
         /\ \A a \in DOMAIN server : a # i => \E b \in 1..(Len(t)-1) : Before(i, b) = a
         /\ \A b \in 1..(Len(t)-1) : \A c :
              c \in t[b].rows <=> \/ c \in server[Before(i, b)].rows
                                  \/ i # 0 /\ b = i - 1 /\ c \in server[i].rows
<1>1. server \in Seq(Level) /\ UniqueNames(server) /\ Len(server) \in Nat \ {0}
  BY DEF IsStack
<1>2. /\ t \in Seq(Level) /\ t[Len(t)] = NewLevel(n)
      /\ i = 0 => /\ Len(t) = Len(server) + 1
                  /\ \A a \in 1..Len(server) : t[a] = server[a]
      /\ i # 0 => /\ i \in 2..Len(server) /\ server[i].name = n
                  /\ Len(t) = Len(server)
                  /\ \A a \in 1..(i-1) : t[a].name = server[a].name
                  /\ \A a \in 1..(i-2) : t[a] = server[a]
                  /\ \A c : c \in t[i-1].rows <=> c \in server[i-1].rows \union server[i].rows
                  /\ \A a \in i..(Len(server)-1) : t[a] = server[a+1]
  BY SetSavepointEffect
<1>3. i \in 0..Len(server) /\ i # 1 /\ Len(t) >= 2
  BY <1>1, <1>2
<1>4. \A a \in DOMAIN server : server[a].name = n <=> a = i
  <2>1. i = LastNamed(server, n)
    BY DEF Savepoint, LastNamed
  <2>2. i = 0 => \A a \in DOMAIN server : server[a].name # n
    BY <1>1, <2>1, LastNamedIs
  <2> QED
    BY <1>1, <1>2, <2>2 DEF UniqueNames
<1>5. ASSUME NEW b \in 1..(Len(t)-1)
      PROVE  /\ Before(i, b) \in DOMAIN server /\ Before(i, b) # i
             /\ t[b].name = server[Before(i, b)].name
             /\ \A c : c \in t[b].rows <=> \/ c \in server[Before(i, b)].rows
                                           \/ i # 0 /\ b = i - 1 /\ c \in server[i].rows
  <2>1. CASE i = 0
    BY <1>1, <1>2, <2>1 DEF Before
  <2>2. CASE i # 0 /\ b < i - 1
    <3>1. b \in 1..(i-2) /\ Before(i, b) = b /\ b \in DOMAIN server
      BY <1>1, <1>2, <2>2 DEF Before
    <3> QED
      BY <1>2, <2>2, <3>1
  <2>3. CASE i # 0 /\ b = i - 1
    <3>1. b \in 1..(i-1) /\ Before(i, b) = b /\ b \in DOMAIN server
      BY <1>1, <1>2, <2>3 DEF Before
    <3> QED
      BY <1>2, <2>3, <3>1
  <2>4. CASE i # 0 /\ b > i - 1
    <3>1. b \in i..(Len(server)-1) /\ Before(i, b) = b + 1 /\ b + 1 \in DOMAIN server
      BY <1>1, <1>2, <2>4 DEF Before
    <3> QED
      BY <1>2, <2>4, <3>1
  <2> QED
    BY <1>3, <2>1, <2>2, <2>3, <2>4
<1>6. ASSUME NEW a \in DOMAIN server, a # i PROVE \E b \in 1..(Len(t)-1) : Before(i, b) = a
  <2>1. CASE i = 0 \/ a < i
    <3>1. a \in 1..(Len(t)-1) /\ Before(i, a) = a
      BY <1>1, <1>2, <2>1 DEF Before
    <3> QED
      BY <3>1
  <2>2. CASE i # 0 /\ a > i
    <3>1. a - 1 \in 1..(Len(t)-1) /\ Before(i, a - 1) = a
      BY <1>1, <1>2, <2>2 DEF Before
    <3> QED
      BY <3>1
  <2> QED
    BY <1>1, <1>3, <1>6, <2>1, <2>2
<1>7. UniqueNames(t)
  <2>1. DOMAIN t = 1..Len(t) /\ Len(t) \in Nat
    BY <1>2
  <2>2. ASSUME NEW a \in 1..(Len(t)-1), NEW b \in 1..(Len(t)-1), t[a].name = t[b].name
        PROVE  a = b
    <3>1. Before(i, a) = Before(i, b)
      BY <1>1, <1>5, <2>2 DEF UniqueNames
    <3> QED
      BY <1>3, <3>1 DEF Before
  <2>3. \A b \in 1..(Len(t)-1) : t[b].name # t[Len(t)].name
    <3>1. t[Len(t)].name = n
      BY <1>2 DEF NewLevel
    <3> QED
      BY <1>4, <1>5, <3>1
  <2>4. \A b \in DOMAIN t : b = Len(t) \/ b \in 1..(Len(t)-1)
    BY <2>1
  <2> QED
    BY <2>2, <2>3, <2>4 DEF UniqueNames
<1> QED
  BY <1>2, <1>3, <1>4, <1>5, <1>6, <1>7 DEF IsStack

(* ROLLBACK TO SAVEPOINT n.                                                *)
LEMMA RolledBackToEffect ==
  ASSUME IsStack(server, Level), NEW n \in Names, NEW p \in DOMAIN server, server[p].name = n,
         NEW t, t = RolledBackTo(n)
  PROVE  /\ p = Savepoint(n) /\ IsStack(t, Level) /\ Len(t) = p /\ t[p] = NewLevel(n)
         /\ \A a \in 1..(p-1) : t[a] = server[a]
         /\ \A a \in 1..p : t[a].name = server[a].name
<1>1. server \in Seq(Level) /\ UniqueNames(server) /\ p \in 1..Len(server)
  BY DEF IsStack
<1>2. p = Savepoint(n)
  <2>1. Savepoint(n) = LastNamed(server, n)
    BY DEF Savepoint, LastNamed
  <2> QED
    BY <1>1, <2>1, LastNamedIs
<1>3. NewLevel(n) \in Level /\ NewLevel(n).name = n
  BY DEF NewLevel, Level
<1> DEFINE u == SubSeq(server, 1, p - 1)
<1>4. u \in Seq(Level) /\ Len(u) = p - 1 /\ \A a \in 1..(p-1) : u[a] = server[a]
  BY <1>1
<1>5. t = Append(u, NewLevel(n))
  BY <1>2 DEF RolledBackTo, NewLevel
<1> HIDE DEF u
<1>6. /\ t \in Seq(Level) /\ Len(t) = p /\ t[p] = NewLevel(n)
      /\ \A a \in 1..(p-1) : t[a] = server[a]
  BY <1>1, <1>3, <1>4, <1>5
<1>7. \A a \in 1..p : t[a].name = server[a].name
  <2>1. \A a \in 1..p : a = p \/ a \in 1..(p-1)
    BY <1>1
  <2> QED
    BY <1>3, <1>6, <2>1
<1>8. UniqueNames(t)
  <2>1. DOMAIN t = 1..p /\ 1..p \subseteq DOMAIN server
    BY <1>1, <1>6
  <2> QED
    BY <1>1, <1>7, <2>1 DEF UniqueNames
<1> QED
  BY <1>2, <1>6, <1>7, <1>8 DEF IsStack

-----------------------------------------------------------------------------
(* Layers and savepoints.                                                  *)

Matches(ls, s) ==
  s # <<>> =>
    /\ ls # <<>> /\ ls[1].name = s[1].name
    /\ \A i \in DOMAIN ls : \E a \in DOMAIN s : s[a].name = ls[i].name
    /\ \A i, j \in DOMAIN ls, a, b \in DOMAIN s :
         i < j /\ s[a].name = ls[i].name /\ s[b].name = ls[j].name => a < b

(* The first k layers and the savepoints below that of the next one.       *)
LEMMA LayersBelow ==
  ASSUME NEW ls, IsStack(ls, Layer), NEW s, IsStack(s, Level), s # <<>>, Matches(ls, s),
         NEW k \in 0..(Len(ls)-1)
  PROVE  \E p \in DOMAIN s :
           /\ s[p].name = ls[k+1].name
           /\ k > 0 => p > 1
           /\ \A i \in 1..k, a \in DOMAIN s : s[a].name = ls[i].name => a < p
<1>1. ls \in Seq(Layer) /\ s \in Seq(Level)
  BY DEF IsStack
<1>2. k+1 \in DOMAIN ls /\ \A i \in 1..k : i \in DOMAIN ls /\ i < k+1
  BY <1>1
<1>3. PICK p \in DOMAIN s : s[p].name = ls[k+1].name
  BY <1>2 DEF Matches
<1>4. \A i \in 1..k, a \in DOMAIN s : s[a].name = ls[i].name => a < p
  BY <1>2, <1>3 DEF Matches
<1>5. k > 0 => p > 1
  <2>1. k > 0 => 1 \in 1..k /\ 1 \in DOMAIN s
    BY <1>1
  <2> QED
    BY <1>4, <2>1 DEF Matches
<1> QED
  BY <1>3, <1>4, <1>5

(* Matching parts of both: the first k layers and the first p levels.      *)
SavedUpTo(ls, s, k, p) ==
  \A i \in 1..k, a \in DOMAIN s : s[a].name = ls[i].name => a <= p

SameNames(t, s) == \A a \in DOMAIN t : t[a].name = s[a].name

LEMMA MatchingParts ==
  ASSUME NEW ls, IsStack(ls, Layer), NEW s, IsStack(s, Level), Matches(ls, s),
         NEW k \in 1..Len(ls), NEW p \in 1..Len(s),
         SavedUpTo(ls, s, k, p),
         NEW t \in Seq(Level), Len(t) = p, SameNames(t, s)
  PROVE  IsStack(t, Level) /\ IsStack(SubSeq(ls, 1, k), Layer) /\ Matches(SubSeq(ls, 1, k), t)
<1> DEFINE u == SubSeq(ls, 1, k)
<1>1. /\ ls \in Seq(Layer) /\ s \in Seq(Level) /\ s # <<>>
      /\ UniqueNames(ls) /\ UniqueNames(s)
  BY DEF IsStack
<1>2. /\ u \in Seq(Layer) /\ Len(u) = k /\ DOMAIN u = 1..k
      /\ \A i \in 1..k : i \in DOMAIN ls /\ u[i] = ls[i]
  BY <1>1
<1> HIDE DEF u
<1>3. /\ DOMAIN t = 1..p /\ 1 \in DOMAIN t /\ 1 \in 1..k
      /\ \A a \in 1..p : a \in DOMAIN s /\ t[a].name = s[a].name
      /\ \A i \in 1..k, a \in DOMAIN s : s[a].name = ls[i].name => a <= p
  BY <1>1 DEF SameNames, SavedUpTo
<1>4. IsStack(u, Layer)
  BY <1>1, <1>2 DEF IsStack, UniqueNames
<1>5. IsStack(t, Level)
  BY <1>1, <1>3 DEF IsStack, UniqueNames
<1>6. Matches(u, t)
  <2>1. u # <<>> /\ u[1].name = t[1].name
    BY <1>1, <1>2, <1>3 DEF Matches
  <2>2. ASSUME NEW i \in DOMAIN u PROVE \E a \in DOMAIN t : t[a].name = u[i].name
    <3>1. PICK a \in DOMAIN s : s[a].name = ls[i].name
      BY <1>1, <1>2 DEF Matches
    <3>2. a \in 1..p
      BY <1>1, <1>2, <1>3, <3>1
    <3> QED
      BY <1>2, <1>3, <3>1, <3>2
  <2>3. \A i, j \in DOMAIN u, a, b \in DOMAIN t :
          i < j /\ t[a].name = u[i].name /\ t[b].name = u[j].name => a < b
    BY <1>1, <1>2, <1>3, SMTT(30) DEF Matches
  <2> QED
    BY <2>1, <2>2, <2>3 DEF Matches
<1> QED
  BY <1>4, <1>5, <1>6 DEF u

(* What popCommittableTransactions() does: all layers after the keep-th    *)
(* are inactive, and go.                                                   *)
Keeps(ls, keep) ==
  /\ keep \in 0..Len(ls)
  /\ keep # 0 => ls[keep].active
  /\ \A i \in DOMAIN ls : i > keep => ~ls[i].active

PopsNone(ls, s, keep) ==
  /\ keep = Len(ls)
  /\ layers' = ls /\ server' = s
  /\ UNCHANGED <<rows, callbacks, told>>

PopsAll(ls, s, keep) ==
  /\ keep < Len(ls) /\ (keep = 0 \/ s = <<>>)
  /\ layers' = <<>>
  /\ DoCommit(s)

PopsSome(ls, s, keep, p) ==
  /\ keep \in 1..(Len(ls)-1) /\ s # <<>>
  /\ p \in 2..Len(s) /\ s[p].name = ls[keep+1].name
  /\ \A i \in 1..keep, a \in DOMAIN s : s[a].name = ls[i].name => a < p
  /\ layers' = SubSeq(ls, 1, keep)
  /\ server' = Merge(s, p - 1)
  /\ UNCHANGED <<rows, callbacks, told>>

LEMMA PopCases ==
  ASSUME NEW ls, IsStack(ls, Layer), NEW s, IsStack(s, Level), Matches(ls, s),
         PopCommittable(ls, s)
  PROVE  \E keep : /\ Keeps(ls, keep)
                   /\ \/ PopsNone(ls, s, keep)
                      \/ PopsAll(ls, s, keep)
                      \/ \E p : PopsSome(ls, s, keep, p)
<1> DEFINE keep == LastActive(ls)
<1>1. ls \in Seq(Layer) /\ s \in Seq(Level) /\ UniqueNames(s)
  BY DEF IsStack
<1>2. Keeps(ls, keep)
  BY <1>1, LastActiveIs DEF Keeps
<1>3. \/ PopsNone(ls, s, keep)
      \/ PopsAll(ls, s, keep)
      \/ /\ keep < Len(ls) /\ keep > 0 /\ s # <<>>
         /\ layers' = SubSeq(ls, 1, keep)
         /\ server' = Merge(s, LastNamed(s, ls[keep + 1].name) - 1)
         /\ UNCHANGED <<rows, callbacks, told>>
  BY DEF PopCommittable, PopsNone, PopsAll, LastActive, LastNamed
<1> HIDE DEF keep
<1>4. ASSUME keep < Len(ls), keep > 0, s # <<>>, layers' = SubSeq(ls, 1, keep),
             server' = Merge(s, LastNamed(s, ls[keep + 1].name) - 1),
             UNCHANGED <<rows, callbacks, told>>
      PROVE  \E p : PopsSome(ls, s, keep, p)
  <2>1. keep \in 1..(Len(ls)-1) /\ keep \in 0..(Len(ls)-1)
    BY <1>1, <1>2, <1>4 DEF Keeps
  <2>2. PICK p \in DOMAIN s :
           /\ s[p].name = ls[keep+1].name
           /\ p > 1
           /\ \A i \in 1..keep, a \in DOMAIN s : s[a].name = ls[i].name => a < p
    BY <1>4, <2>1, LayersBelow
  <2>3. LastNamed(s, ls[keep + 1].name) = p
    BY <1>1, <2>2, LastNamedIs
  <2>4. p \in 2..Len(s)
    BY <1>1, <2>2
  <2> QED
    BY <1>4, <2>1, <2>2, <2>3, <2>4 DEF PopsSome
<1> QED
  BY <1>2, <1>3, <1>4

-----------------------------------------------------------------------------
(* Types, and layers that match the savepoints, whatever callers do.       *)

Told == [Callback -> {"nothing", "committed", "failed"}]

ObjectType == [id : Object, name : Names, rolledBack : BOOLEAN]

UniqueIds(os) == \A i, j \in DOMAIN os : os[i].id = os[j].id => i = j

TypeInv ==
  /\ objects \in Seq(ObjectType) /\ UniqueIds(objects)
  /\ IsStack(layers, Layer) /\ IsStack(server, Level) /\ Matches(layers, server)
  /\ rows \subseteq Change /\ callbacks \subseteq Callback /\ told \in Told
  /\ warned \in BOOLEAN
  /\ layers = <<>> => callbacks = {}

(* The part that popCommittableTransactions() may change.                  *)
StackInv ==
  /\ IsStack(layers, Layer) /\ IsStack(server, Level) /\ Matches(layers, server)
  /\ rows \subseteq Change /\ callbacks \subseteq Callback /\ told \in Told
  /\ layers = <<>> => callbacks = {}

LEMMA UnsavedType ==
  ASSUME NEW s \in Seq(Level)
  PROVE  Unsaved(s) \subseteq Change /\ \A c : c \in Unsaved(s) <=> \E a \in DOMAIN s : c \in s[a].rows
<1>1. \A a \in DOMAIN s : s[a] \in Level
  OBVIOUS
<1> QED
  BY <1>1 DEF Unsaved, Level

LEMMA EmptyStack == IsStack(<<>>, Layer) /\ IsStack(<<>>, Level)
BY DEF IsStack, UniqueNames

LEMMA TellType ==
  ASSUME told \in Told, NEW o \in {"committed", "failed"}, Tell(o)
  PROVE  callbacks' = {} /\ told' \in Told
BY DEF Tell, Told

LEMMA PopKeepsStacks ==
  ASSUME TypeInv, NEW ls, IsStack(ls, Layer), NEW s, IsStack(s, Level), Matches(ls, s),
         ls = <<>> => callbacks = {},
         PopCommittable(ls, s)
  PROVE  StackInv'
<1>1. ls \in Seq(Layer) /\ s \in Seq(Level)
  BY DEF IsStack
<1>2. PICK keep : /\ Keeps(ls, keep)
                  /\ \/ PopsNone(ls, s, keep)
                     \/ PopsAll(ls, s, keep)
                     \/ \E p : PopsSome(ls, s, keep, p)
  BY PopCases
<1>3. CASE PopsNone(ls, s, keep)
  BY <1>3 DEF PopsNone, StackInv, TypeInv
<1>4. CASE PopsAll(ls, s, keep)
  <2>1. layers' = <<>> /\ server' = <<>> /\ DoCommit(s)
    BY <1>4 DEF PopsAll, DoCommit
  <2>2. rows' \subseteq Change /\ callbacks' = {} /\ told' \in Told
    BY <1>1, <2>1, UnsavedType, TellType DEF DoCommit, TypeInv
  <2>3. Matches(<<>>, <<>>)
    BY DEF Matches
  <2> QED
    BY <2>1, <2>2, <2>3, EmptyStack DEF StackInv
<1>5. ASSUME NEW p, PopsSome(ls, s, keep, p) PROVE StackInv'
  <2>1. /\ keep \in 1..(Len(ls)-1) /\ keep \in 1..Len(ls) /\ p \in 2..Len(s)
        /\ p - 1 \in 1..Len(s)
        /\ layers' = SubSeq(ls, 1, keep) /\ server' = Merge(s, p - 1)
        /\ UNCHANGED <<rows, callbacks, told>>
    BY <1>1, <1>5 DEF PopsSome
  <2>2. SavedUpTo(ls, s, keep, p - 1)
    BY <1>1, <1>5, <2>1 DEF PopsSome, SavedUpTo
  <2> DEFINE q == p - 1
             t == Merge(s, q)
  <2>3. q \in 1..Len(s)
    BY <2>1
  <2> HIDE DEF q
  <2>4. t \in Seq(Level) /\ Len(t) = q /\ SameNames(t, s)
    BY <1>1, <2>3, MergeEffect DEF SameNames
  <2>5. server' = t /\ SavedUpTo(ls, s, keep, q)
    BY <2>1, <2>2 DEF q
  <2> HIDE DEF t
  <2>6. IsStack(t, Level) /\ IsStack(SubSeq(ls, 1, keep), Layer) /\ Matches(SubSeq(ls, 1, keep), t)
    BY <2>1, <2>3, <2>4, <2>5, MatchingParts
  <2>7. Len(SubSeq(ls, 1, keep)) = keep /\ SubSeq(ls, 1, keep) # <<>>
    BY <1>1, <2>1, SMTT(30)
  <2> QED
    BY <2>1, <2>5, <2>6, <2>7 DEF StackInv, TypeInv
<1> QED
  BY <1>2, <1>3, <1>4, <1>5

(* A layer and its savepoint are put on top.                               *)
LEMMA PushMatches ==
  ASSUME NEW ls, IsStack(ls, Layer), NEW n, NEW l \in Layer, l.name = n,
         \A i \in DOMAIN ls : ls[i].name # n,
         IsStack(server, Level), server # <<>>, Matches(ls, server), n \in Names,
         NEW t, t = server', SetSavepoint(n)
  PROVE  IsStack(Append(ls, l), Layer) /\ IsStack(t, Level) /\ Matches(Append(ls, l), t)
<1>1. ls \in Seq(Layer) /\ UniqueNames(ls) /\ server \in Seq(Level) /\ ls # <<>>
  BY DEF IsStack, Matches
<1> DEFINE u == Append(ls, l)
           L == Len(t) - 1
           i == Savepoint(n)
<1>2. /\ u \in Seq(Layer) /\ Len(u) = Len(ls) + 1 /\ u[Len(u)] = l
      /\ \A k \in DOMAIN ls : k \in DOMAIN u /\ u[k] = ls[k]
      /\ \A k \in DOMAIN u : k = Len(u) \/ (k \in DOMAIN ls /\ k < Len(u))
  BY <1>1
<1> HIDE DEF u
<1>3. IsStack(u, Layer)
  BY <1>1, <1>2 DEF IsStack, UniqueNames
<1>4. server[1].name # n /\ 1 \in DOMAIN ls /\ 1 \in DOMAIN server
  BY <1>1 DEF Matches
<1>5. /\ IsStack(t, Level) /\ Len(t) >= 2 /\ t[Len(t)] = NewLevel(n)
      /\ i \in 0..Len(server) /\ i # 1
      /\ \A a \in DOMAIN server : server[a].name = n <=> a = i
      /\ \A b \in 1..L : /\ Before(i, b) \in DOMAIN server /\ Before(i, b) # i
                         /\ t[b].name = server[Before(i, b)].name
      /\ \A a \in DOMAIN server : a # i => \E b \in 1..L : Before(i, b) = a
  BY <1>4, SavepointMoves
<1> HIDE DEF i
<1>6. /\ t \in Seq(Level) /\ DOMAIN t = 1..Len(t) /\ Len(t) \in Nat /\ 1 \in 1..L
      /\ Len(t) \in DOMAIN t /\ \A b \in 1..L : b \in DOMAIN t
      /\ \A b \in DOMAIN t : b = Len(t) \/ (b \in 1..L /\ b < Len(t))
      /\ t[Len(t)].name = n
  BY <1>5 DEF IsStack, NewLevel
<1> HIDE DEF L
<1>7. t # <<>> /\ u # <<>> /\ u[1].name = t[1].name
  <2>1. Before(i, 1) = 1
    BY <1>5 DEF Before
  <2> QED
    BY <1>2, <1>4, <1>5, <1>6, <2>1 DEF Matches
<1>8. ASSUME NEW k \in DOMAIN ls
      PROVE  /\ \E b \in DOMAIN t : t[b].name = ls[k].name
             /\ t[Len(t)].name # ls[k].name
  <2>1. PICK a \in DOMAIN server : server[a].name = ls[k].name
    BY <1>1 DEF Matches
  <2>2. a # i
    BY <1>5, <2>1
  <2>3. PICK b \in 1..L : Before(i, b) = a
    BY <1>5, <2>1, <2>2
  <2>4. b \in DOMAIN t /\ t[b].name = ls[k].name
    BY <1>5, <1>6, <2>1, <2>3
  <2>5. t[Len(t)].name # ls[k].name
    BY <1>5, <1>6, <2>1, <2>2
  <2> QED
    BY <2>4, <2>5
<1>9. ASSUME NEW k \in DOMAIN u PROVE \E b \in DOMAIN t : t[b].name = u[k].name
  <2>1. CASE k = Len(u)
    BY <1>2, <1>6, <2>1
  <2>2. CASE k # Len(u)
    <3>1. k \in DOMAIN ls /\ u[k] = ls[k]
      BY <1>2, <2>2
    <3> QED
      BY <1>8, <3>1
  <2> QED
    BY <2>1, <2>2
<1>10. ASSUME NEW k \in DOMAIN u, NEW m \in DOMAIN u, NEW a \in DOMAIN t, NEW b \in DOMAIN t,
              k < m, t[a].name = u[k].name, t[b].name = u[m].name
       PROVE  a < b
  <2>1. k \in DOMAIN ls /\ u[k] = ls[k] /\ a \in 1..L /\ a < Len(t)
    BY <1>2, <1>6, <1>8, <1>10
  <2>2. CASE b = Len(t)
    BY <2>1, <2>2
  <2>3. CASE b # Len(t)
    <3>1. b \in 1..L
      BY <1>6, <2>3
    <3>2. m \in DOMAIN ls /\ u[m] = ls[m]
      <4>1. t[b].name # n
        BY <1>5, <3>1
      <4> QED
        BY <1>2, <1>10, <4>1
    <3>3. Before(i, a) < Before(i, b)
      <4> DEFINE x == Before(i, a)
                 y == Before(i, b)
      <4>1. x \in DOMAIN server /\ y \in DOMAIN server
            /\ server[x].name = ls[k].name /\ server[y].name = ls[m].name
        BY <1>5, <1>10, <2>1, <3>1, <3>2
      <4> HIDE DEF x, y
      <4>2. x < y
        BY <1>1, <1>10, <2>1, <3>2, <4>1 DEF Matches
      <4> QED
        BY <4>2 DEF x, y
    <3> QED
      BY <1>5, <1>6, <2>1, <3>1, <3>3 DEF Before
  <2> QED
    BY <2>2, <2>3
<1> QED
  BY <1>3, <1>5, <1>7, <1>9, <1>10 DEF Matches, u

LEMMA DeactivateEffect ==
  ASSUME IsStack(layers, Layer), NEW n, NEW ls, ls = Deactivate(n)
  PROVE  /\ IsStack(ls, Layer) /\ Len(ls) = Len(layers) /\ DOMAIN ls = DOMAIN layers
         /\ \A i \in DOMAIN layers : /\ ls[i].name = layers[i].name
                                     /\ ls[i].active <=> layers[i].active /\ layers[i].name # n
<1>1. layers \in Seq(Layer) /\ UniqueNames(layers)
  BY DEF IsStack
<1>2. DOMAIN ls = DOMAIN layers
  BY DEF Deactivate
<1>3. ASSUME NEW i \in DOMAIN layers
      PROVE  /\ ls[i] \in Layer /\ ls[i].name = layers[i].name
             /\ ls[i].active <=> layers[i].active /\ layers[i].name # n
  <2>1. layers[i] \in Layer
    BY <1>1
  <2>2. ls[i] = IF layers[i].name = n THEN [layers[i] EXCEPT !.active = FALSE] ELSE layers[i]
    BY DEF Deactivate
  <2> QED
    BY <2>1, <2>2 DEF Layer
<1>4. ls \in Seq(Layer) /\ Len(ls) = Len(layers)
  <2>1. ls = [i \in 1..Len(layers) |-> ls[i]] /\ DOMAIN layers = 1..Len(layers) /\ Len(layers) \in Nat
    BY <1>1 DEF Deactivate
  <2> QED
    BY <1>3, <2>1
<1> QED
  BY <1>1, <1>2, <1>3, <1>4 DEF IsStack, UniqueNames

(* Whether layers match depends on their names only.                       *)
LEMMA SameNamesMatch ==
  ASSUME NEW ls, NEW ms, DOMAIN ms = DOMAIN ls, Len(ms) = Len(ls),
         \A i \in DOMAIN ls : ms[i].name = ls[i].name,
         IsStack(ls, Layer), IsStack(ms, Layer), NEW s, IsStack(s, Level), Matches(ls, s)
  PROVE  Matches(ms, s)
<1>1. /\ ls \in Seq(Layer) /\ ms \in Seq(Layer)
      /\ ls # <<>> => ms # <<>> /\ 1 \in DOMAIN ls
  BY DEF IsStack
<1> QED
  BY <1>1 DEF Matches

(* What rollBack() pops: down to the layer of the name, or an inactive one.*)
LEMMA StopsAtIs ==
  ASSUME IsStack(layers, Layer), NEW n, IsLayer(n), NEW stop, stop = StopsAt(n)
  PROVE  /\ stop \in DOMAIN layers
         /\ layers[stop].name = n \/ ~layers[stop].active
         /\ \A i \in DOMAIN layers : i > stop => layers[i].name # n /\ layers[i].active
<1> DEFINE I == {i \in 1..Len(layers) : layers[i].name = n \/ ~layers[i].active}
<1>1. layers \in Seq(Layer) /\ Len(layers) \in Nat /\ DOMAIN layers = 1..Len(layers)
  BY DEF IsStack
<1>2. stop = IF I # {} THEN Max(I) ELSE 0
  BY DEF StopsAt, SelectLastInSeq
<1>3. I # {}
  BY <1>1 DEF IsLayer
<1>4. Max(I) \in I /\ \A j \in I : j <= Max(I)
  BY <1>1, <1>3, LastExists
<1>5. \A i \in DOMAIN layers : i \in I <=> layers[i].name = n \/ ~layers[i].active
  BY <1>1
<1>6. I \subseteq DOMAIN layers
  BY <1>1
<1> HIDE DEF I
<1>7. stop \in I /\ \A j \in I : j <= stop
  BY <1>2, <1>3, <1>4
<1> QED
  BY <1>1, <1>5, <1>6, <1>7

(* rollBack() to a savepoint leaves the layers and the levels below it.    *)
Under(ls, stop) == SubSeq(ls, 1, stop - 1)

LEMMA RollBackMatches ==
  ASSUME IsStack(layers, Layer), IsStack(server, Level), Matches(layers, server),
         Open, NEW stop \in DOMAIN layers, NEW n, layers[stop].name = n,
         NEW left, left = Under(layers, stop), left # <<>>
  PROVE  /\ IsStack(left, Layer) /\ IsStack(RolledBackTo(n), Level)
         /\ Matches(left, RolledBackTo(n))
<1>1. layers \in Seq(Layer) /\ server \in Seq(Level) /\ server # <<>>
  BY DEF IsStack, Open
<1> DEFINE k == stop - 1
           t == RolledBackTo(n)
<1>2. k \in 1..Len(layers) /\ \A i \in 1..k : i \in DOMAIN layers /\ i < stop
  <2>1. stop \in 1..Len(layers)
    BY <1>1
  <2>2. stop # 1
    BY <1>1 DEF Under
  <2> QED
    BY <1>1, <2>1, <2>2
<1>3. PICK p \in DOMAIN server : server[p].name = n
  BY <1>1 DEF Matches
<1>4. n \in Names /\ p \in 1..Len(server)
  <2>1. layers[stop] \in Layer
    BY <1>1
  <2> QED
    BY <1>1, <2>1 DEF Layer
<1> HIDE DEF t
<1>5. SavedUpTo(layers, server, k, p)
  <2> SUFFICES ASSUME NEW i \in 1..k, NEW a \in DOMAIN server, server[a].name = layers[i].name
               PROVE  a <= p
    BY DEF SavedUpTo
  <2>1. a < p
    BY <1>1, <1>2, <1>3 DEF Matches
  <2> QED
    BY <1>1, <2>1
<1>6. t \in Seq(Level) /\ Len(t) = p /\ SameNames(t, server)
  <2>1. IsStack(t, Level) /\ Len(t) = p /\ \A a \in 1..p : t[a].name = server[a].name
    BY <1>3, <1>4, RolledBackToEffect DEF t
  <2> QED
    BY <1>4, <2>1 DEF IsStack, SameNames
<1>7. left = SubSeq(layers, 1, k)
  BY DEF Under
<1> HIDE DEF k
<1>8. /\ IsStack(t, Level) /\ IsStack(SubSeq(layers, 1, k), Layer)
      /\ Matches(SubSeq(layers, 1, k), t)
  BY <1>2, <1>4, <1>5, <1>6, MatchingParts
<1> QED
  BY <1>7, <1>8 DEF t

(* The objects after an object is appended, removed or rolled back.        *)
LEMMA ObjectAppended ==
  ASSUME NEW os \in Seq(ObjectType), NEW o \in ObjectType, NEW t, t = Append(os, o)
  PROVE  /\ t \in Seq(ObjectType) /\ Len(t) = Len(os) + 1 /\ t[Len(t)] = o
         /\ DOMAIN t = 1..(Len(os) + 1) /\ DOMAIN os = 1..Len(os) /\ Len(os) \in Nat
         /\ \A i \in DOMAIN os : t[i] = os[i]
         /\ UniqueIds(os) /\ (\A i \in DOMAIN os : os[i].id # o.id) => UniqueIds(t)
<1>1. /\ t \in Seq(ObjectType) /\ Len(t) = Len(os) + 1 /\ t[Len(t)] = o
      /\ DOMAIN t = 1..(Len(os) + 1) /\ DOMAIN os = 1..Len(os) /\ Len(os) \in Nat
      /\ \A i \in DOMAIN os : t[i] = os[i]
  OBVIOUS
<1> QED
  BY <1>1 DEF UniqueIds

(* The object that comes k-th when the i-th is removed.                    *)
Skip(i, k) == IF k < i THEN k ELSE k + 1

LEMMA ObjectRemoved ==
  ASSUME NEW os \in Seq(ObjectType), NEW i \in DOMAIN os, NEW t, t = RemoveAt(os, i)
  PROVE  /\ t \in Seq(ObjectType) /\ Len(t) = Len(os) - 1 /\ DOMAIN t = 1..(Len(os) - 1)
         /\ DOMAIN os = 1..Len(os) /\ Len(os) \in Nat
         /\ \A k \in DOMAIN t : Skip(i, k) \in DOMAIN os /\ Skip(i, k) # i /\ t[k] = os[Skip(i, k)]
         /\ \A m \in DOMAIN os : m # i => \E k \in DOMAIN t : Skip(i, k) = m
         /\ UniqueIds(os) => UniqueIds(t)
<1> DEFINE u == SubSeq(os, 1, i - 1)
           v == SubSeq(os, i + 1, Len(os))
<1>1. DOMAIN os = 1..Len(os) /\ Len(os) \in Nat /\ i \in 1..Len(os)
  OBVIOUS
<1>2. u \in Seq(ObjectType) /\ Len(u) = i - 1 /\ \A k \in 1..(i-1) : u[k] = os[k]
  BY <1>1
<1>3. /\ v \in Seq(ObjectType) /\ Len(v) = Len(os) - i
      /\ \A k \in 1..(Len(os)-i) : v[k] = os[i + k]
  BY <1>1
<1>4. t = u \o v
  BY DEF RemoveAt
<1> HIDE DEF u, v
<1>5. /\ t \in Seq(ObjectType) /\ Len(t) = Len(os) - 1
      /\ \A k \in 1..(i-1) : t[k] = u[k]
      /\ \A k \in i..(Len(os)-1) : t[k] = v[k - (i-1)]
  <2>1. /\ u \o v \in Seq(ObjectType) /\ Len(u \o v) = Len(u) + Len(v)
        /\ \A k \in 1..(Len(u) + Len(v)) :
             (u \o v)[k] = IF k <= Len(u) THEN u[k] ELSE v[k - Len(u)]
    BY <1>2, <1>3, ConcatProperties
  <2>2. /\ t \in Seq(ObjectType) /\ Len(t) = Len(os) - 1
        /\ \A k \in 1..(Len(os)-1) : t[k] = IF k <= i - 1 THEN u[k] ELSE v[k - (i-1)]
    <3>1. Len(u) + Len(v) = Len(os) - 1
      BY <1>1, <1>2, <1>3
    <3> QED
      BY <1>2, <1>4, <2>1, <3>1
  <2>3. \A k \in 1..(i-1) : k \in 1..(Len(os)-1) /\ k <= i - 1
    BY <1>1
  <2>4. \A k \in i..(Len(os)-1) : k \in 1..(Len(os)-1) /\ ~ (k <= i - 1)
    BY <1>1
  <2> QED
    BY <2>2, <2>3, <2>4
<1>6. DOMAIN t = 1..(Len(os) - 1)
  BY <1>5
<1>7. ASSUME NEW k \in DOMAIN t
      PROVE  Skip(i, k) \in DOMAIN os /\ Skip(i, k) # i /\ t[k] = os[Skip(i, k)]
  <2>1. CASE k < i
    <3>1. k \in 1..(i-1)
      BY <1>1, <1>6, <2>1
    <3> QED
      BY <1>1, <1>2, <1>5, <1>6, <2>1, <3>1 DEF Skip
  <2>2. CASE ~ (k < i)
    <3>1. k \in i..(Len(os)-1) /\ k - (i-1) \in 1..(Len(os)-i) /\ i + (k - (i-1)) = k + 1
      BY <1>1, <1>6, <2>2
    <3> QED
      BY <1>1, <1>3, <1>5, <1>6, <2>2, <3>1 DEF Skip
  <2> QED
    BY <2>1, <2>2
<1>8. ASSUME NEW m \in DOMAIN os, m # i PROVE \E k \in DOMAIN t : Skip(i, k) = m
  <2>1. CASE m < i
    <3>1. m \in DOMAIN t /\ Skip(i, m) = m
      BY <1>1, <1>6, <2>1 DEF Skip
    <3> QED
      BY <3>1
  <2>2. CASE m > i
    <3>1. m - 1 \in DOMAIN t /\ Skip(i, m - 1) = m
      BY <1>1, <1>6, <2>2 DEF Skip
    <3> QED
      BY <3>1
  <2> QED
    BY <1>1, <1>8, <2>1, <2>2
<1>9. UniqueIds(os) => UniqueIds(t)
  <2> SUFFICES ASSUME UniqueIds(os), NEW k \in DOMAIN t, NEW m \in DOMAIN t, t[k].id = t[m].id
               PROVE  k = m
    BY DEF UniqueIds
  <2>1. Skip(i, k) = Skip(i, m)
    BY <1>7 DEF UniqueIds
  <2> QED
    BY <1>1, <1>6, <2>1 DEF Skip
<1> QED
  BY <1>1, <1>5, <1>6, <1>7, <1>8, <1>9

LEMMA ElementReplaced ==
  ASSUME NEW S, NEW s \in Seq(S), NEW i \in DOMAIN s, NEW e \in S,
         NEW t, t = [s EXCEPT ![i] = e]
  PROVE  /\ t \in Seq(S) /\ Len(t) = Len(s) /\ DOMAIN t = DOMAIN s
         /\ \A k \in DOMAIN s : t[k] = IF k = i THEN e ELSE s[k]
<1>1. i \in 1..Len(s) /\ DOMAIN s = 1..Len(s) /\ DOMAIN t = DOMAIN s
  OBVIOUS
<1>2. t \in Seq(S) /\ Len(t) = Len(s)
  BY <1>1, ExceptSeq
<1> QED
  BY <1>1, <1>2

RolledBackAt(os, i) == [os EXCEPT ![i].rolledBack = TRUE]

LEMMA ObjectRolledBack ==
  ASSUME NEW os \in Seq(ObjectType), NEW i \in DOMAIN os,
         NEW t, t = RolledBackAt(os, i)
  PROVE  /\ t \in Seq(ObjectType) /\ Len(t) = Len(os) /\ DOMAIN t = DOMAIN os
         /\ \A k \in DOMAIN os : /\ t[k].id = os[k].id /\ t[k].name = os[k].name
                                 /\ t[k].rolledBack <=> k = i \/ os[k].rolledBack
         /\ UniqueIds(os) => UniqueIds(t)
<1> DEFINE o == [os[i] EXCEPT !.rolledBack = TRUE]
<1>1. \A k \in DOMAIN os : os[k] \in ObjectType
  OBVIOUS
<1>2. /\ o \in ObjectType /\ o.rolledBack = TRUE
      /\ o.id = os[i].id /\ o.name = os[i].name
  BY <1>1 DEF ObjectType
<1> DEFINE e == [os EXCEPT ![i] = o]
<1>3. t = e
  BY DEF RolledBackAt
<1> HIDE DEF o
<1>4. /\ t \in Seq(ObjectType) /\ Len(t) = Len(os) /\ DOMAIN t = DOMAIN os
      /\ \A k \in DOMAIN os : t[k] = IF k = i THEN o ELSE os[k]
  <2>1. e = [os EXCEPT ![i] = o]
    OBVIOUS
  <2> HIDE DEF e
  <2>2. /\ e \in Seq(ObjectType) /\ Len(e) = Len(os) /\ DOMAIN e = DOMAIN os
        /\ \A k \in DOMAIN os : e[k] = IF k = i THEN o ELSE os[k]
    BY <1>2, <2>1, ElementReplaced
  <2> QED
    BY <1>3, <2>2
<1>5. \A k \in DOMAIN os : /\ t[k].id = os[k].id /\ t[k].name = os[k].name
                           /\ t[k].rolledBack <=> k = i \/ os[k].rolledBack
  BY <1>2, <1>4
<1> QED
  BY <1>4, <1>5 DEF UniqueIds

LEMMA StartKeepsTypes ==
  ASSUME TypeInv, NEW o \in Object, NEW n \in Given \union {Root}, StartTransaction(o, n)
  PROVE  TypeInv'
<1> DEFINE depth == Len(layers)
           name  == IF depth = 0 THEN Root ELSE IF n = Root THEN depth ELSE n
           layer == [name |-> name, active |-> TRUE]
           obj   == [id |-> o, name |-> name, rolledBack |-> FALSE]
<1>1. /\ layers \in Seq(Layer) /\ IsStack(layers, Layer) /\ IsStack(server, Level)
      /\ Matches(layers, server) /\ depth \in Nat
  BY DEF TypeInv, IsStack
<1>2. /\ ~IsLayer(name) /\ \A i \in DOMAIN objects : objects[i].id # o
      /\ IF depth = 0 THEN server' = <<[name |-> Root, rows |-> {}]>> ELSE SetSavepoint(name)
      /\ layers' = Append(layers, layer) /\ objects' = Append(objects, obj)
      /\ UNCHANGED <<rows, callbacks, told, warned>>
  BY DEF StartTransaction
<1>3. name \in Names /\ layer \in Layer /\ layer.name = name
      /\ obj \in ObjectType /\ obj.id = o
  <2>1. name \in Names
    BY <1>1 DEF Names, Root
  <2> HIDE DEF name
  <2> QED
    BY <2>1 DEF Layer, ObjectType
<1>4. \A i \in DOMAIN layers : layers[i].name # name
  BY <1>2 DEF IsLayer
<1>5. depth = 0 => name = Root
  OBVIOUS
<1> HIDE DEF name, layer, obj
<1>6. objects' \in Seq(ObjectType) /\ UniqueIds(objects')
  <2>1. objects \in Seq(ObjectType) /\ UniqueIds(objects) /\ \A i \in DOMAIN objects : objects[i].id # obj.id
    BY <1>2, <1>3 DEF TypeInv
  <2> QED
    BY <1>2, <1>3, <2>1, ObjectAppended
<1>7. IsStack(layers', Layer) /\ IsStack(server', Level) /\ Matches(layers', server') /\ layers' # <<>>
  <2>1. CASE depth = 0
    <3>1. layers' = <<layer>> /\ server' = <<[name |-> Root, rows |-> {}]>>
      BY <1>1, <1>2, <1>3, <2>1
    <3>2. [name |-> Root, rows |-> {}] \in Level /\ layer.name = Root
      BY <1>3, <1>5, <2>1 DEF Level, Names, Root
    <3> QED
      BY <1>3, <3>1, <3>2 DEF IsStack, UniqueNames, Matches
  <2>2. CASE depth # 0 /\ server = <<>>
    <3>1. server' = <<>>
      BY <1>2, <2>2 DEF SetSavepoint, Open
    <3>2. IsStack(layers', Layer) /\ layers' # <<>>
      <4>1. /\ layers' \in Seq(Layer) /\ Len(layers') = depth + 1 /\ layers'[depth + 1] = layer
            /\ \A i \in DOMAIN layers : layers'[i] = layers[i]
            /\ DOMAIN layers' = 1..(depth + 1) /\ DOMAIN layers = 1..depth
        BY <1>1, <1>2, <1>3
      <4>2. \A i \in 1..(depth + 1) : i = depth + 1 \/ i \in 1..depth
        BY <1>1
      <4>3. layers' # <<>>
        BY <1>1, <4>1
      <4> QED
        BY <1>1, <1>3, <1>4, <4>1, <4>2, <4>3 DEF IsStack, UniqueNames
    <3> QED
      BY <3>1, <3>2, EmptyStack DEF Matches
  <2>3. CASE depth # 0 /\ server # <<>>
    <3>1. SetSavepoint(name)
      BY <1>2, <2>3
    <3>2. layers' # <<>>
      BY <1>1, <1>2, <1>3
    <3> QED
      BY <1>1, <1>2, <1>3, <1>4, <2>3, <3>1, <3>2, PushMatches
  <2> QED
    BY <2>1, <2>2, <2>3
<1> QED
  BY <1>2, <1>6, <1>7 DEF TypeInv

LEMMA DestructKeepsTypes ==
  ASSUME TypeInv, NEW i \in DOMAIN objects, Destruct(i)
  PROVE  TypeInv'
<1> DEFINE o == objects[i]
           ls == Deactivate(o.name)
<1>1. objects' \in Seq(ObjectType) /\ UniqueIds(objects')
  BY ObjectRemoved DEF Destruct, TypeInv
<1>2. CASE o.rolledBack \/ ~IsLayer(o.name)
  BY <1>1, <1>2 DEF Destruct, TypeInv
<1>3. CASE ~ (o.rolledBack \/ ~IsLayer(o.name))
  <2>1. PopCommittable(ls, server) /\ UNCHANGED warned
    BY <1>3 DEF Destruct
  <2>2. /\ IsStack(layers, Layer) /\ IsStack(server, Level) /\ Matches(layers, server)
    BY DEF TypeInv
  <2>3. /\ IsStack(ls, Layer) /\ Len(ls) = Len(layers) /\ DOMAIN ls = DOMAIN layers
        /\ \A k \in DOMAIN layers : ls[k].name = layers[k].name
    BY <2>2, DeactivateEffect
  <2> HIDE DEF ls
  <2>4. Matches(ls, server)
    BY <2>2, <2>3, SameNamesMatch
  <2>5. ls = <<>> => callbacks = {}
    <3>1. ls = <<>> => layers = <<>>
      BY <2>2, <2>3 DEF IsStack
    <3> QED
      BY <3>1 DEF TypeInv
  <2>6. StackInv'
    BY <2>1, <2>2, <2>3, <2>4, <2>5, PopKeepsStacks
  <2> QED
    BY <1>1, <2>1, <2>6 DEF StackInv, TypeInv
<1> QED
  BY <1>2, <1>3

LEMMA RollBackKeepsTypes ==
  ASSUME TypeInv, NEW i \in DOMAIN objects, RollBack(i)
  PROVE  TypeInv'
<1> DEFINE n    == objects[i].name
           stop == StopsAt(n)
           left == SubSeq(layers, 1, stop - 1)
<1>1. objects' \in Seq(ObjectType) /\ UniqueIds(objects')
  <2>1. /\ objects \in Seq(ObjectType) /\ UniqueIds(objects)
        /\ objects' = RolledBackAt(objects, i)
    BY DEF RollBack, RolledBackAt, TypeInv
  <2> QED
    BY <2>1, ObjectRolledBack
<1>2. warned' \in BOOLEAN
  BY DEF RollBack, TypeInv
<1>3. /\ IsStack(layers, Layer) /\ IsStack(server, Level) /\ Matches(layers, server)
      /\ layers \in Seq(Layer)
  BY DEF TypeInv, IsStack
<1>4. \/ UNCHANGED <<layers, server, rows, callbacks, told>>
      \/ /\ IsLayer(n) /\ Open
         /\ layers[stop].active /\ left # <<>>
         /\ PopCommittable(left, RolledBackTo(n))
      \/ /\ IsLayer(n)
         /\ layers' = left /\ server' = <<>>
         /\ Tell("failed")
         /\ UNCHANGED rows
  BY DEF RollBack
<1> HIDE DEF n
<1>5. CASE UNCHANGED <<layers, server, rows, callbacks, told>>
  BY <1>1, <1>2, <1>5 DEF TypeInv
<1>6. CASE /\ IsLayer(n) /\ Open
           /\ layers[stop].active /\ left # <<>>
           /\ PopCommittable(left, RolledBackTo(n))
  <2>1. stop \in DOMAIN layers /\ layers[stop].name = n
    BY <1>3, <1>6, StopsAtIs
  <2> HIDE DEF stop
  <2>2. left = Under(layers, stop) /\ left # <<>> /\ Open
    BY <1>6 DEF Under
  <2> HIDE DEF left
  <2>3. /\ IsStack(left, Layer) /\ IsStack(RolledBackTo(n), Level)
        /\ Matches(left, RolledBackTo(n))
    BY <1>3, <2>1, <2>2, RollBackMatches
  <2>4. StackInv'
    BY <1>6, <2>3, PopKeepsStacks
  <2> QED
    BY <1>1, <1>2, <2>4 DEF StackInv, TypeInv
<1>7. CASE /\ IsLayer(n)
           /\ layers' = left /\ server' = <<>>
           /\ Tell("failed")
           /\ UNCHANGED rows
  <2>1. stop \in DOMAIN layers
    BY <1>3, <1>7, StopsAtIs
  <2> HIDE DEF stop
  <2>2. /\ left \in Seq(Layer) /\ DOMAIN left = 1..(stop - 1)
        /\ \A k \in 1..(stop - 1) : k \in DOMAIN layers /\ left[k] = layers[k]
    BY <1>3, <2>1
  <2> HIDE DEF left
  <2>3. IsStack(left, Layer)
    BY <1>3, <2>2 DEF IsStack, UniqueNames
  <2>4. callbacks' = {} /\ told' \in Told
    BY <1>7, TellType DEF TypeInv
  <2> QED
    BY <1>1, <1>2, <1>7, <2>3, <2>4, EmptyStack DEF TypeInv, Matches
<1> QED
  BY <1>4, <1>5, <1>6, <1>7

(* A row is added to the innermost level.                                  *)
LEMMA WriteEffect ==
  ASSUME IsStack(server, Level), server # <<>>, NEW c \in Change, Write(c),
         NEW t, t = server'
  PROVE  /\ IsStack(t, Level) /\ Len(t) = Len(server) /\ DOMAIN t = DOMAIN server
         /\ SameNames(t, server)
         /\ \A a \in DOMAIN server : t[a].rows = IF a = Len(server) THEN server[a].rows \union {c}
                                                 ELSE server[a].rows
<1>1. server \in Seq(Level) /\ UniqueNames(server) /\ Len(server) \in DOMAIN server
  BY DEF IsStack
<1> DEFINE l == server[Len(server)]
           m == [l EXCEPT !.rows = @ \union {c}]
           e == [server EXCEPT ![Len(server)] = m]
<1>2. t = e
  BY DEF Write, Open
<1>3. m \in Level /\ m.name = l.name /\ m.rows = l.rows \union {c}
  <2>1. l \in Level
    BY <1>1
  <2> HIDE DEF l
  <2> QED
    BY <2>1 DEF Level
<1>4. e = [server EXCEPT ![Len(server)] = m]
  OBVIOUS
<1> HIDE DEF m, e
<1>5. /\ e \in Seq(Level) /\ Len(e) = Len(server) /\ DOMAIN e = DOMAIN server
      /\ \A a \in DOMAIN server : e[a] = IF a = Len(server) THEN m ELSE server[a]
  BY <1>1, <1>3, <1>4, ElementReplaced
<1>6. /\ t \in Seq(Level) /\ Len(t) = Len(server) /\ DOMAIN t = DOMAIN server
      /\ \A a \in DOMAIN server : t[a] = IF a = Len(server) THEN m ELSE server[a]
  BY <1>2, <1>5
<1>7. SameNames(t, server)
  BY <1>3, <1>6 DEF SameNames
<1>8. \A a \in DOMAIN server : t[a].rows = IF a = Len(server) THEN server[a].rows \union {c}
                                           ELSE server[a].rows
  BY <1>3, <1>6
<1>9. UniqueNames(t)
  BY <1>1, <1>6, <1>7 DEF UniqueNames, SameNames
<1> QED
  BY <1>6, <1>7, <1>8, <1>9 DEF IsStack

LEMMA WriteKeepsTypes ==
  ASSUME TypeInv, NEW c \in Change, Write(c)
  PROVE  TypeInv'
<1>1. CASE server # <<>>
  <2>1. /\ IsStack(server, Level) /\ IsStack(layers, Layer) /\ Matches(layers, server)
        /\ rows' = rows /\ UNCHANGED <<objects, layers, callbacks, told, warned>>
    BY <1>1 DEF TypeInv, Write, Open
  <2>2. /\ IsStack(server', Level) /\ Len(server') = Len(server) /\ DOMAIN server' = DOMAIN server
        /\ SameNames(server', server)
    BY <1>1, <2>1, WriteEffect
  <2>3. server \in Seq(Level) /\ 1 \in DOMAIN server
    BY <1>1, <2>1 DEF IsStack
  <2>4. Matches(layers, server')
    BY <1>1, <2>1, <2>2, <2>3 DEF Matches, SameNames
  <2> QED
    BY <2>1, <2>2, <2>4 DEF TypeInv
<1>2. CASE server = <<>>
  BY <1>2 DEF Write, Open, TypeInv
<1> QED
  BY <1>1, <1>2

LEMMA TypesHold == Spec => []TypeInv
<1>1. ASSUME Init PROVE TypeInv
  <2>1. told \in Told /\ warned \in BOOLEAN
    BY <1>1 DEF Init, Told
  <2>2. <<>> \in Seq(ObjectType) /\ UniqueIds(<<>>) /\ Matches(<<>>, <<>>)
    BY DEF UniqueIds, Matches
  <2> QED
    BY <1>1, <2>1, <2>2, EmptyStack DEF Init, TypeInv
<1>2. TypeInv /\ [Next]_vars => TypeInv'
  <2> SUFFICES ASSUME TypeInv, [Next]_vars PROVE TypeInv'
    OBVIOUS
  <2>1. ASSUME NEW o \in Object, NEW n \in Given \union {Root}, StartTransaction(o, n)
        PROVE  TypeInv'
    BY <2>1, StartKeepsTypes
  <2>2. ASSUME NEW i \in DOMAIN objects, Destruct(i) PROVE TypeInv'
    BY <2>2, DestructKeepsTypes
  <2>3. ASSUME NEW i \in DOMAIN objects, RollBack(i) PROVE TypeInv'
    BY <2>3, RollBackKeepsTypes
  <2>4. ASSUME NEW c \in Change, Write(c) PROVE TypeInv'
    BY <2>4, WriteKeepsTypes
  <2>5. ASSUME NEW c \in Callback, AddCallback(c) PROVE TypeInv'
    BY <2>5 DEF AddCallback, InTransaction, TypeInv
  <2>6. CASE AlterTable
    <3>1. rows' \subseteq Change /\ server' = <<>>
      BY <2>6, UnsavedType DEF AlterTable, TypeInv, IsStack
    <3> QED
      BY <2>6, <3>1, EmptyStack DEF AlterTable, TypeInv, Matches
  <2>7. CASE UNCHANGED vars
    BY <2>7 DEF vars, TypeInv
  <2> QED
    BY <2>1, <2>2, <2>3, <2>4, <2>5, <2>6, <2>7 DEF Next
<1> QED
  BY <1>1, <1>2, PTL DEF Spec

(* Layers have distinct names, and everything is typed, however callers    *)
(* create, roll back and destroy Transaction objects, in any order, and    *)
(* whatever tables they alter.                                             *)
THEOREM TypeCorrect == Spec => []TypeOK
<1>1. TypeInv => TypeOK
  BY DEF TypeInv, TypeOK, IsStack, UniqueNames, Told, ObjectType
<1> QED
  BY <1>1, TypesHold, PTL

(* The connection's layers and the server's savepoints match: no release   *)
(* and no rollback hits a savepoint of another layer, although rolling     *)
(* back leaves savepoints behind and names are used again, in whatever     *)
(* order objects end, and also when tables are altered.                    *)
THEOREM StacksMatch == Spec => []StackMatches
<1>1. TypeInv => StackMatches
  <2> SUFFICES ASSUME TypeInv, server # <<>> PROVE StackMatches
    BY DEF StackMatches, Open
  <2>1. /\ layers \in Seq(Layer) /\ server \in Seq(Level) /\ UniqueNames(server)
        /\ Matches(layers, server)
    BY DEF TypeInv, IsStack
  <2>2. layers # <<>> /\ layers[1].name = server[1].name
    BY <2>1 DEF Matches
  <2>3. \A i \in DOMAIN layers :
          /\ Savepoint(layers[i].name) \in DOMAIN server
          /\ server[Savepoint(layers[i].name)].name = layers[i].name
    <3> SUFFICES ASSUME NEW i \in DOMAIN layers
                 PROVE  /\ Savepoint(layers[i].name) \in DOMAIN server
                        /\ server[Savepoint(layers[i].name)].name = layers[i].name
      OBVIOUS
    <3> DEFINE n == layers[i].name
    <3>1. PICK a \in DOMAIN server : server[a].name = n
      BY <2>1 DEF Matches
    <3>2. Savepoint(n) = LastNamed(server, n)
      BY DEF Savepoint, LastNamed
    <3> HIDE DEF n
    <3>3. Savepoint(n) = a
      BY <2>1, <3>1, <3>2, LastNamedIs
    <3> QED
      BY <3>1, <3>3 DEF n
  <2>4. \A i, j \in DOMAIN layers :
          i < j => Savepoint(layers[i].name) < Savepoint(layers[j].name)
    BY <2>1, <2>3 DEF Matches
  <2> QED
    BY <2>2, <2>4 DEF StackMatches, InTransaction
<1> QED
  BY <1>1, TypesHold, PTL

-----------------------------------------------------------------------------
(* Scopes and layers.  The Transaction objects that live and were not      *)
(* rolled back are the scopes.  DDL may give up the layers of scopes that  *)
(* are still alive, those up to the k-th object; the later ones have the   *)
(* active layers, in the same order.                                       *)
ScopeAfter(os, k, i) == i \in DOMAIN os /\ i > k /\ ~os[i].rolledBack

ScopesHaveLayers(os, ls, k) ==
  /\ k \in 0..Len(os) /\ (k = 0 \/ (InOrder /\ Ddl))
  /\ \A l \in DOMAIN ls : ls[l].active =>
       \E i \in DOMAIN os : ScopeAfter(os, k, i) /\ os[i].name = ls[l].name
  /\ \A i \in DOMAIN os : ScopeAfter(os, k, i) =>
       \E l \in DOMAIN ls : ls[l].active /\ ls[l].name = os[i].name
  /\ \A i, j \in DOMAIN os, l, m \in DOMAIN ls :
       /\ ScopeAfter(os, k, i) /\ ScopeAfter(os, k, j) /\ i < j
       /\ ls[l].name = os[i].name /\ ls[m].name = os[j].name
       => l < m

(* No layer waits on top of the stack, and none at all when objects are    *)
(* destroyed in order.                                                     *)
NoneWaits(ls) ==
  /\ ls # <<>> => ls[Len(ls)].active
  /\ InOrder => \A l \in DOMAIN ls : ls[l].active

ScopesMatch(os, ls) == NoneWaits(ls) /\ \E k : ScopesHaveLayers(os, ls, k)

LEMMA PopKeepsScopes ==
  ASSUME NEW ls, IsStack(ls, Layer), NEW s, IsStack(s, Level), Matches(ls, s),
         NEW os \in Seq(ObjectType), NEW k, ScopesHaveLayers(os, ls, k),
         InOrder => \A l \in DOMAIN ls : l < Len(ls) => ls[l].active,
         (InOrder /\ Ddl) \/ s # <<>> \/ ls = <<>>,
         PopCommittable(ls, s)
  PROVE  ScopesMatch(os, layers') /\ (s # <<>> /\ layers' # <<>> => server' # <<>>)
<1>1. ls \in Seq(Layer) /\ s \in Seq(Level) /\ Len(os) \in Nat /\ DOMAIN os = 1..Len(os)
  BY DEF IsStack
<1>2. PICK keep : /\ Keeps(ls, keep)
                  /\ \/ PopsNone(ls, s, keep)
                     \/ PopsAll(ls, s, keep)
                     \/ \E p : PopsSome(ls, s, keep, p)
  BY PopCases
<1>3. CASE PopsNone(ls, s, keep)
  <2>1. layers' = ls /\ server' = s /\ keep = Len(ls)
    BY <1>3 DEF PopsNone
  <2>2. ls # <<>> => Len(ls) # 0 /\ \A l \in DOMAIN ls : l < Len(ls) \/ l = Len(ls)
    BY <1>1
  <2>3. NoneWaits(ls)
    BY <1>1, <1>2, <2>1, <2>2 DEF NoneWaits, Keeps
  <2> QED
    BY <2>1, <2>3 DEF ScopesMatch
<1>4. CASE PopsAll(ls, s, keep)
  <2>1. layers' = <<>> /\ keep < Len(ls) /\ (keep = 0 \/ s = <<>>)
    BY <1>4 DEF PopsAll
  <2>2. ls # <<>>
    BY <1>1, <1>2, <2>1 DEF Keeps
  <2>3. CASE InOrder /\ Ddl
    <3>1. ScopesHaveLayers(os, <<>>, Len(os))
      BY <1>1, <2>3 DEF ScopesHaveLayers, ScopeAfter
    <3> QED
      BY <2>1, <3>1 DEF ScopesMatch, NoneWaits
  <2>4. CASE ~ (InOrder /\ Ddl)
    <3>1. keep = 0
      BY <2>1, <2>2, <2>4
    <3>2. \A l \in DOMAIN ls : ~ls[l].active
      BY <1>1, <1>2, <3>1 DEF Keeps
    <3>3. ScopesHaveLayers(os, <<>>, k)
      BY <3>2 DEF ScopesHaveLayers
    <3> QED
      BY <2>1, <3>3 DEF ScopesMatch, NoneWaits
  <2> QED
    BY <2>3, <2>4
<1>5. ASSUME NEW p, PopsSome(ls, s, keep, p)
      PROVE  ScopesMatch(os, layers') /\ server' # <<>>
  <2> DEFINE u == SubSeq(ls, 1, keep)
  <2>1. /\ keep \in 1..(Len(ls)-1) /\ p \in 2..Len(s) /\ p - 1 \in 1..Len(s)
        /\ layers' = u /\ server' = Merge(s, p - 1)
    BY <1>1, <1>5 DEF PopsSome
  <2>2. /\ u \in Seq(Layer) /\ DOMAIN u = 1..keep /\ Len(u) = keep
        /\ \A l \in 1..keep : l \in DOMAIN ls /\ l < Len(ls) /\ u[l] = ls[l]
    BY <1>1, <2>1
  <2> HIDE DEF u
  <2>3. \A l \in DOMAIN ls : ls[l].active => l \in DOMAIN u
    BY <1>1, <1>2, <2>1, <2>2 DEF Keeps
  <2>4. ScopesHaveLayers(os, u, k)
    <3>1. /\ k \in 0..Len(os) /\ (k = 0 \/ (InOrder /\ Ddl))
          /\ \A l \in DOMAIN u : u[l].active =>
               \E i \in DOMAIN os : ScopeAfter(os, k, i) /\ os[i].name = u[l].name
      BY <2>2, ZenonT(40) DEF ScopesHaveLayers
    <3>2. ASSUME NEW i \in DOMAIN os, ScopeAfter(os, k, i)
          PROVE  \E l \in DOMAIN u : u[l].active /\ u[l].name = os[i].name
      <4>1. PICK l \in DOMAIN ls : ls[l].active /\ ls[l].name = os[i].name
        BY <3>2 DEF ScopesHaveLayers
      <4> QED
        BY <2>2, <2>3, <4>1
    <3>3. ASSUME NEW i \in DOMAIN os, NEW j \in DOMAIN os, NEW l \in DOMAIN u, NEW m \in DOMAIN u,
                 ScopeAfter(os, k, i), ScopeAfter(os, k, j), i < j,
                 u[l].name = os[i].name, u[m].name = os[j].name
          PROVE  l < m
      <4>1. l \in DOMAIN ls /\ m \in DOMAIN ls /\ ls[l].name = os[i].name /\ ls[m].name = os[j].name
        BY <2>2, <3>3
      <4> QED
        BY <3>3, <4>1 DEF ScopesHaveLayers
    <3> QED
      BY <3>1, <3>2, <3>3 DEF ScopesHaveLayers
  <2>5. NoneWaits(u)
    BY <1>2, <2>1, <2>2 DEF NoneWaits, Keeps
  <2>6. server' # <<>>
    <3> DEFINE q == p - 1
    <3>1. q \in 1..Len(s) /\ server' = Merge(s, q)
      BY <2>1
    <3> HIDE DEF q
    <3>2. Len(server') = q /\ q > 0
      BY <1>1, <3>1, MergeEffect
    <3> QED
      BY <3>2
  <2> QED
    BY <2>1, <2>4, <2>5, <2>6 DEF ScopesMatch
<1> QED
  BY <1>2, <1>3, <1>4, <1>5 DEF PopsNone, PopsAll

ScopesInv ==
  /\ ~warned => ScopesMatch(objects, layers)
  /\ ~Ddl => ~warned /\ (layers # <<>> => server # <<>>)

(* Only the innermost scope is rolled back; and tables are altered only    *)
(* where objects are destroyed in order.                                   *)
Orderly == ~RollBackAny /\ (InOrder \/ ~Ddl)

LEMMA StartKeepsScopes ==
  ASSUME TypeInv, ScopesInv, NEW o \in Object, NEW n \in Given \union {Root},
         StartTransaction(o, n)
  PROVE  ScopesInv'
<1> DEFINE depth == Len(layers)
           name  == IF depth = 0 THEN Root ELSE IF n = Root THEN depth ELSE n
           layer == [name |-> name, active |-> TRUE]
           obj   == [id |-> o, name |-> name, rolledBack |-> FALSE]
<1>1. layers \in Seq(Layer) /\ objects \in Seq(ObjectType) /\ depth \in Nat
  BY DEF TypeInv, IsStack
<1>2. /\ ~IsLayer(name)
      /\ IF depth = 0 THEN server' = <<[name |-> Root, rows |-> {}]>> ELSE SetSavepoint(name)
      /\ layers' = Append(layers, layer) /\ objects' = Append(objects, obj)
      /\ UNCHANGED warned
  BY DEF StartTransaction
<1>3. /\ layer \in Layer /\ layer.name = name /\ layer.active
      /\ obj \in ObjectType /\ obj.name = name /\ ~obj.rolledBack
  <2>1. name \in Names
    BY <1>1 DEF Names, Root
  <2> HIDE DEF name
  <2> QED
    BY <2>1 DEF Layer, ObjectType
<1>4. \A l \in DOMAIN layers : layers[l].name # name
  BY <1>2 DEF IsLayer
<1> DEFINE ls == layers'
           os == objects'
<1>5. /\ ls[depth + 1] = layer /\ \A l \in DOMAIN layers : ls[l] = layers[l]
      /\ DOMAIN ls = 1..(depth + 1) /\ DOMAIN layers = 1..depth /\ Len(ls) = depth + 1
  <2> HIDE DEF layer
  <2> QED
    BY <1>1, <1>2, <1>3
<1> HIDE DEF layer
<1>6. /\ Len(os) = Len(objects) + 1 /\ os[Len(os)] = obj
      /\ DOMAIN os = 1..(Len(objects) + 1) /\ DOMAIN objects = 1..Len(objects)
      /\ Len(objects) \in Nat
      /\ \A i \in DOMAIN objects : os[i] = objects[i]
  <2> HIDE DEF obj
  <2>1. os = Append(objects, obj)
    BY <1>2
  <2> HIDE DEF os
  <2> QED
    BY <1>1, <1>3, <2>1, ObjectAppended
<1> HIDE DEF obj, name
<1>7. ASSUME ScopesMatch(objects, layers) PROVE ScopesMatch(os, ls)
  <2> HIDE DEF ls, os
  <2>1. NoneWaits(ls)
    <3>1. \A l \in DOMAIN ls : l = depth + 1 \/ l \in DOMAIN layers
      BY <1>1, <1>5
    <3> QED
      BY <1>3, <1>5, <1>7, <3>1 DEF NoneWaits, ScopesMatch
  <2>2. PICK k : ScopesHaveLayers(objects, layers, k)
    BY <1>7 DEF ScopesMatch
  <2>3. k \in 0..Len(objects) /\ (k = 0 \/ (InOrder /\ Ddl)) /\ k \in 0..Len(os)
    BY <1>6, <2>2 DEF ScopesHaveLayers
  <2>4. \A i \in DOMAIN objects : ScopeAfter(os, k, i) <=> ScopeAfter(objects, k, i)
    BY <1>6 DEF ScopeAfter
  <2>5. ScopeAfter(os, k, Len(os)) /\ Len(os) \in DOMAIN os /\ os[Len(os)].name = name
    BY <1>3, <1>6, <2>3 DEF ScopeAfter
  <2>6. \A l \in DOMAIN ls : ls[l].active =>
          \E i \in DOMAIN os : ScopeAfter(os, k, i) /\ os[i].name = ls[l].name
    <3> SUFFICES ASSUME NEW l \in DOMAIN ls, ls[l].active
                 PROVE  \E i \in DOMAIN os : ScopeAfter(os, k, i) /\ os[i].name = ls[l].name
      OBVIOUS
    <3>1. CASE l = depth + 1
      BY <1>3, <1>5, <2>5, <3>1
    <3>2. CASE l \in DOMAIN layers
      <4>1. PICK i \in DOMAIN objects : ScopeAfter(objects, k, i) /\ objects[i].name = layers[l].name
        BY <1>5, <2>2, <3>2 DEF ScopesHaveLayers
      <4> QED
        BY <1>5, <1>6, <2>4, <3>2, <4>1
    <3> QED
      BY <1>1, <1>5, <3>1, <3>2
  <2>7. ASSUME NEW i \in DOMAIN os, ScopeAfter(os, k, i)
        PROVE  \/ i = Len(os)
               \/ \E l \in DOMAIN layers : ls[l].active /\ ls[l].name = os[i].name
    <3>1. CASE i \in DOMAIN objects
      <4>1. PICK l \in DOMAIN layers : layers[l].active /\ layers[l].name = objects[i].name
        BY <2>2, <2>4, <2>7, <3>1 DEF ScopesHaveLayers
      <4> QED
        BY <1>5, <1>6, <3>1, <4>1
    <3> QED
      BY <1>6, <3>1
  <2>8. \A i \in DOMAIN os : ScopeAfter(os, k, i) =>
          \E l \in DOMAIN ls : ls[l].active /\ ls[l].name = os[i].name
    <3>1. depth + 1 \in DOMAIN ls /\ \A l \in DOMAIN layers : l \in DOMAIN ls
      BY <1>1, <1>5
    <3> QED
      BY <1>3, <1>5, <2>5, <2>7, <3>1
  <2>9. ASSUME NEW i \in DOMAIN os, NEW j \in DOMAIN os, NEW l \in DOMAIN ls, NEW m \in DOMAIN ls,
               ScopeAfter(os, k, i), ScopeAfter(os, k, j), i < j,
               ls[l].name = os[i].name, ls[m].name = os[j].name
        PROVE  l < m
    <3>1. i \in DOMAIN objects
      BY <1>6, <2>9
    <3>2. PICK a \in DOMAIN layers : layers[a].name = objects[i].name
      BY <2>2, <2>4, <2>9, <3>1 DEF ScopesHaveLayers
    <3>3. l \in DOMAIN layers
      BY <1>1, <1>3, <1>4, <1>5, <1>6, <2>9, <3>1, <3>2
    <3>4. CASE m = depth + 1
      BY <1>1, <1>5, <3>3, <3>4
    <3>5. CASE m \in DOMAIN layers
      <4>1. j \in DOMAIN objects
        <5>1. ls[m].name # name
          BY <1>4, <1>5, <3>5
        <5> QED
          BY <1>6, <2>5, <2>9, <5>1
      <4>2. layers[l].name = objects[i].name /\ layers[m].name = objects[j].name
        BY <1>5, <1>6, <2>9, <3>1, <3>3, <3>5, <4>1
      <4>3. ScopeAfter(objects, k, i) /\ ScopeAfter(objects, k, j)
        BY <2>4, <2>9, <3>1, <4>1
      <4> QED
        BY <2>2, <2>9, <3>1, <3>3, <3>5, <4>1, <4>2, <4>3 DEF ScopesHaveLayers
    <3> QED
      BY <1>1, <1>5, <3>4, <3>5
  <2>10. ScopesHaveLayers(os, ls, k)
    BY <2>3, <2>6, <2>8, <2>9 DEF ScopesHaveLayers
  <2> QED
    BY <2>1, <2>10 DEF ScopesMatch
<1>8. ASSUME layers # <<>> => server # <<>> PROVE server' # <<>>
  <2>1. CASE depth = 0
    <3>1. server' = <<[name |-> Root, rows |-> {}]>>
      BY <1>2, <2>1
    <3>2. Len(server') = 1
      BY <3>1
    <3> QED
      BY <3>2
  <2>2. CASE depth # 0
    <3>1. server # <<>> /\ layers # <<>> /\ SetSavepoint(name) /\ server \in Seq(Level)
      BY <1>1, <1>2, <1>8, <2>2 DEF TypeInv, IsStack
    <3>2. \E u : server' = Append(u, [name |-> name, rows |-> {}])
      BY <3>1, Zenon DEF SetSavepoint, Open
    <3> QED
      BY <3>2
  <2> QED
    BY <2>1, <2>2
<1> QED
  BY <1>2, <1>7, <1>8 DEF ScopesInv

(* A scope that is not the object removed: its layer is another one.       *)
LEMMA OtherScopeOtherLayer ==
  ASSUME NEW ls \in Seq(Layer), NEW os \in Seq(ObjectType),
         NEW k, ScopesHaveLayers(os, ls, k),
         NEW i \in DOMAIN os, NEW j \in DOMAIN os, i # j,
         ScopeAfter(os, k, i), ScopeAfter(os, k, j)
  PROVE  os[i].name # os[j].name
<1>1. i \in Nat /\ j \in Nat
  OBVIOUS
<1> SUFFICES ASSUME os[i].name = os[j].name PROVE FALSE
  OBVIOUS
<1>2. PICK l \in DOMAIN ls : ls[l].name = os[i].name
  BY DEF ScopesHaveLayers
<1>3. ASSUME NEW a \in DOMAIN os, NEW b \in DOMAIN os, a < b,
             ScopeAfter(os, k, a), ScopeAfter(os, k, b),
             ls[l].name = os[a].name, ls[l].name = os[b].name
      PROVE  l < l
  BY <1>3 DEF ScopesHaveLayers
<1>4. l \in Nat
  OBVIOUS
<1> QED
  BY <1>1, <1>2, <1>3, <1>4

LEMMA DestructKeepsScopes ==
  ASSUME Orderly, TypeInv, ScopesInv, NEW i \in DOMAIN objects, Destruct(i)
  PROVE  ScopesInv'
<1> DEFINE o  == objects[i]
           os == objects'
           ls == Deactivate(o.name)
<1>1. /\ layers \in Seq(Layer) /\ objects \in Seq(ObjectType)
      /\ IsStack(layers, Layer) /\ IsStack(server, Level) /\ Matches(layers, server)
  BY DEF TypeInv, IsStack
<1>2. /\ InOrder => i = Len(objects)
      /\ os = RemoveAt(objects, i) /\ warned' = warned
      /\ \/ /\ o.rolledBack \/ ~IsLayer(o.name)
            /\ UNCHANGED <<layers, server, rows, callbacks, told>>
         \/ /\ ~o.rolledBack /\ IsLayer(o.name)
            /\ PopCommittable(ls, server)
  BY DEF Destruct
<1> HIDE DEF os
<1>3. /\ os \in Seq(ObjectType) /\ Len(os) = Len(objects) - 1 /\ DOMAIN os = 1..(Len(objects) - 1)
      /\ DOMAIN objects = 1..Len(objects) /\ Len(objects) \in Nat
      /\ \A j \in DOMAIN os : /\ Skip(i, j) \in DOMAIN objects /\ Skip(i, j) # i
                              /\ os[j] = objects[Skip(i, j)]
      /\ \A m \in DOMAIN objects : m # i => \E j \in DOMAIN os : Skip(i, j) = m
  BY <1>1, <1>2, ObjectRemoved
<1>4. /\ IsStack(ls, Layer) /\ Len(ls) = Len(layers) /\ DOMAIN ls = DOMAIN layers
      /\ \A l \in DOMAIN layers :
           /\ ls[l].name = layers[l].name
           /\ ls[l].active <=> layers[l].active /\ layers[l].name # o.name
  BY <1>1, DeactivateEffect
<1> HIDE DEF ls
<1>5. ls \in Seq(Layer) /\ (ls = <<>> <=> layers = <<>>)
  BY <1>1, <1>4 DEF IsStack
<1>6. CASE ~warned
  <2>1. PICK k : ScopesHaveLayers(objects, layers, k)
    BY <1>6 DEF ScopesInv, ScopesMatch
  <2>2. k \in 0..Len(objects) /\ (k = 0 \/ (InOrder /\ Ddl)) /\ NoneWaits(layers)
    BY <1>6, <2>1 DEF ScopesInv, ScopesMatch, ScopesHaveLayers
  <2>3. CASE i > k
    <3>1. \A j \in DOMAIN os : ScopeAfter(os, k, j) <=> ScopeAfter(objects, k, Skip(i, j))
      <4> SUFFICES ASSUME NEW j \in DOMAIN os
                   PROVE  ScopeAfter(os, k, j) <=> ScopeAfter(objects, k, Skip(i, j))
        OBVIOUS
      <4>1. j > k <=> Skip(i, j) > k
        BY <1>3, <2>2, <2>3 DEF Skip
      <4> QED
        BY <1>3, <4>1 DEF ScopeAfter
    <3>2. k \in 0..Len(os)
      BY <1>3, <2>2, <2>3
    (* The layers that are left to the other scopes.                       *)
    <3>3. ASSUME NEW u, u \in Seq(Layer), DOMAIN u = DOMAIN layers,
                 \A l \in DOMAIN layers : u[l].name = layers[l].name,
                 \A l \in DOMAIN layers : u[l].active =>
                    layers[l].active /\ (layers[l].name = o.name => o.rolledBack),
                 \A l \in DOMAIN layers : layers[l].active =>
                    u[l].active \/ (layers[l].name = o.name /\ ~o.rolledBack)
          PROVE  ScopesHaveLayers(os, u, k)
      <4>1. ASSUME NEW l \in DOMAIN u, u[l].active
            PROVE  \E j \in DOMAIN os : ScopeAfter(os, k, j) /\ os[j].name = u[l].name
        <5>1. PICK m \in DOMAIN objects :
                 ScopeAfter(objects, k, m) /\ objects[m].name = layers[l].name
          BY <2>1, <3>3, <4>1 DEF ScopesHaveLayers
        <5>2. m # i
          BY <3>3, <4>1, <5>1 DEF ScopeAfter
        <5>3. PICK j \in DOMAIN os : Skip(i, j) = m
          BY <1>3, <5>2
        <5> QED
          BY <1>3, <3>1, <3>3, <5>1, <5>3
      <4>2. ASSUME NEW j \in DOMAIN os, ScopeAfter(os, k, j)
            PROVE  \E l \in DOMAIN u : u[l].active /\ u[l].name = os[j].name
        <5> DEFINE m == Skip(i, j)
        <5>1. m \in DOMAIN objects /\ m # i /\ os[j] = objects[m] /\ ScopeAfter(objects, k, m)
          BY <1>3, <3>1, <4>2
        <5> HIDE DEF m
        <5>2. PICK l \in DOMAIN layers : layers[l].active /\ layers[l].name = objects[m].name
          BY <2>1, <5>1 DEF ScopesHaveLayers
        <5>3. ~o.rolledBack => o.name # objects[m].name
          <6>1. ~o.rolledBack => ScopeAfter(objects, k, i)
            BY <2>3 DEF ScopeAfter
          <6> QED
            BY <1>1, <2>1, <5>1, <6>1, OtherScopeOtherLayer
        <5> QED
          BY <3>3, <5>1, <5>2, <5>3
      <4>3. ASSUME NEW a \in DOMAIN os, NEW b \in DOMAIN os, NEW l \in DOMAIN u, NEW m \in DOMAIN u,
                   ScopeAfter(os, k, a), ScopeAfter(os, k, b), a < b,
                   u[l].name = os[a].name, u[m].name = os[b].name
            PROVE  l < m
        <5> DEFINE x == Skip(i, a)
                   y == Skip(i, b)
        <5>1. x < y
          BY <1>3, <4>3 DEF Skip
        <5>2. /\ x \in DOMAIN objects /\ y \in DOMAIN objects
              /\ ScopeAfter(objects, k, x) /\ ScopeAfter(objects, k, y)
              /\ layers[l].name = objects[x].name /\ layers[m].name = objects[y].name
              /\ l \in DOMAIN layers /\ m \in DOMAIN layers
          BY <1>3, <3>1, <3>3, <4>3
        <5> HIDE DEF x, y
        <5> QED
          BY <2>1, <5>1, <5>2 DEF ScopesHaveLayers
      <4> QED
        BY <2>2, <3>2, <4>1, <4>2, <4>3 DEF ScopesHaveLayers
    <3>4. CASE /\ o.rolledBack \/ ~IsLayer(o.name)
               /\ UNCHANGED <<layers, server, rows, callbacks, told>>
      <4>1. o.rolledBack
        <5> SUFFICES ASSUME ~o.rolledBack, ~IsLayer(o.name) PROVE FALSE
          BY <3>4
        <5>1. ScopeAfter(objects, k, i)
          BY <2>3 DEF ScopeAfter
        <5> QED
          BY <2>1, <5>1 DEF ScopesHaveLayers, IsLayer
      <4>2. ScopesHaveLayers(os, layers, k)
        BY <1>1, <3>3, <4>1
      <4> QED
        BY <1>2, <2>2, <3>4, <4>2 DEF ScopesInv, ScopesMatch, os
    <3>5. CASE ~o.rolledBack /\ IsLayer(o.name) /\ PopCommittable(ls, server)
      <4>1. ScopesHaveLayers(os, ls, k)
        BY <1>4, <1>5, <3>3, <3>5
      <4>2. Matches(ls, server)
        BY <1>1, <1>4, SameNamesMatch
      <4>3. InOrder => \A l \in DOMAIN ls : l < Len(ls) => ls[l].active
        <5> SUFFICES ASSUME InOrder, NEW l \in DOMAIN ls, l < Len(ls), layers[l].name = o.name
                     PROVE  FALSE
          BY <1>4, <2>2 DEF NoneWaits
        <5>1. Len(layers) \in DOMAIN layers /\ l < Len(layers) /\ layers # <<>> /\ l \in DOMAIN layers
          BY <1>1, <1>4
        <5>2. layers[Len(layers)].active
          BY <2>2, <5>1 DEF NoneWaits
        <5>3. PICK m \in DOMAIN objects :
                 ScopeAfter(objects, k, m) /\ objects[m].name = layers[Len(layers)].name
          BY <2>1, <5>1, <5>2 DEF ScopesHaveLayers
        <5>4. ScopeAfter(objects, k, i) /\ i = Len(objects)
          BY <1>2, <2>3, <3>5 DEF ScopeAfter
        <5>5. CASE m = i
          BY <1>1, <5>1, <5>3, <5>5 DEF IsStack, UniqueNames
        <5>6. CASE m < i
          <6>1. Len(layers) < l
            BY <2>1, <5>1, <5>3, <5>4, <5>6 DEF ScopesHaveLayers
          <6> QED
            BY <1>1, <5>1, <6>1
        <5> QED
          BY <1>3, <5>3, <5>4, <5>5, <5>6
      <4>4. (InOrder /\ Ddl) \/ server # <<>> \/ ls = <<>>
        BY <1>5 DEF Orderly, ScopesInv
      <4>5. /\ ScopesMatch(os, layers')
            /\ server # <<>> /\ layers' # <<>> => server' # <<>>
        BY <1>1, <1>3, <1>4, <3>5, <4>1, <4>2, <4>3, <4>4, PopKeepsScopes
      <4>6. layers # <<>>
        BY <1>1, <3>5 DEF IsLayer
      <4> QED
        BY <1>2, <4>5, <4>6 DEF ScopesInv, os
    <3> QED
      BY <1>2, <3>4, <3>5
  <2>4. CASE i <= k
    <3>1. InOrder /\ Ddl /\ i = Len(objects) /\ k = Len(objects)
      BY <1>2, <1>3, <2>2, <2>4
    <3>2. \A m \in DOMAIN objects : ~ScopeAfter(objects, k, m)
      BY <1>3, <3>1 DEF ScopeAfter
    <3>3. layers = <<>>
      <4> SUFFICES ASSUME layers # <<>> PROVE FALSE
        OBVIOUS
      <4>1. Len(layers) \in DOMAIN layers /\ layers[Len(layers)].active
        BY <1>1, <2>2 DEF NoneWaits
      <4> QED
        BY <2>1, <3>2, <4>1 DEF ScopesHaveLayers
    <3>4. UNCHANGED <<layers, server>>
      BY <1>2, <3>3 DEF IsLayer
    <3>5. ScopesHaveLayers(os, layers, Len(os))
      BY <1>3, <3>1, <3>3 DEF ScopesHaveLayers, ScopeAfter
    <3> QED
      BY <1>2, <2>2, <3>4, <3>5 DEF ScopesInv, ScopesMatch, os
  <2> QED
    BY <1>3, <2>2, <2>3, <2>4
<1>7. CASE warned
  BY <1>2, <1>7 DEF ScopesInv
<1> QED
  BY <1>6, <1>7

(* The innermost scope has the last layer, so rollBack() stops there.      *)
LEMMA InnermostLayer ==
  ASSUME NEW ls, IsStack(ls, Layer), NoneWaits(ls), NEW os \in Seq(ObjectType),
         NEW k, ScopesHaveLayers(os, ls, k),
         NEW i \in DOMAIN os, ScopeAfter(os, k, i),
         \A j \in DOMAIN os : j > i => os[j].rolledBack
  PROVE  Len(ls) \in DOMAIN ls /\ ls[Len(ls)].name = os[i].name /\ ls[Len(ls)].active
<1>1. ls \in Seq(Layer) /\ Len(ls) \in Nat /\ DOMAIN os \subseteq Nat
  BY DEF IsStack
<1>2. PICK l \in DOMAIN ls : ls[l].name = os[i].name
  BY DEF ScopesHaveLayers
<1>3. Len(ls) \in DOMAIN ls /\ ls[Len(ls)].active /\ l <= Len(ls)
  BY <1>1, <1>2 DEF NoneWaits
<1>4. PICK m \in DOMAIN os : ScopeAfter(os, k, m) /\ os[m].name = ls[Len(ls)].name
  BY <1>3 DEF ScopesHaveLayers
<1>5. CASE m = i
  BY <1>3, <1>4, <1>5
<1>6. CASE m < i
  <2>1. Len(ls) < l
    BY <1>2, <1>3, <1>4, <1>6 DEF ScopesHaveLayers
  <2> QED
    BY <1>1, <1>2, <1>3, <2>1
<1>7. CASE m > i
  BY <1>4, <1>7 DEF ScopeAfter
<1> QED
  BY <1>1, <1>4, <1>5, <1>6, <1>7

LEMMA RollBackKeepsScopes ==
  ASSUME Orderly, TypeInv, ScopesInv, NEW i \in DOMAIN objects, RollBack(i)
  PROVE  ScopesInv'
<1> DEFINE n    == objects[i].name
           os   == objects'
           top  == Len(layers)
           left == Under(layers, top)
<1>1. /\ layers \in Seq(Layer) /\ objects \in Seq(ObjectType)
      /\ IsStack(layers, Layer) /\ IsStack(server, Level) /\ Matches(layers, server)
      /\ UniqueNames(layers) /\ warned \in BOOLEAN
  BY DEF TypeInv, IsStack
<1>2. /\ ~objects[i].rolledBack /\ \A j \in DOMAIN objects : j > i => objects[j].rolledBack
      /\ os = RolledBackAt(objects, i)
      /\ warned' = (warned \/ (IsLayer(n) /\ ~Open))
  BY <1>1 DEF RollBack, MayRollBack, Orderly, RolledBackAt
<1>3. \/ (~IsLayer(n) \/ ~Open) /\ UNCHANGED <<layers, server>>
      \/ /\ IsLayer(n) /\ Open /\ Under(layers, StopsAt(n)) # <<>>
         /\ PopCommittable(Under(layers, StopsAt(n)), RolledBackTo(n))
      \/ /\ IsLayer(n) /\ Open
         /\ ~layers[StopsAt(n)].active \/ Under(layers, StopsAt(n)) = <<>>
         /\ layers' = Under(layers, StopsAt(n)) /\ server' = <<>>
  BY DEF RollBack, Under
<1> HIDE DEF os, n, left
<1>4. /\ os \in Seq(ObjectType) /\ Len(os) = Len(objects) /\ DOMAIN os = DOMAIN objects
      /\ \A j \in DOMAIN objects : /\ os[j].name = objects[j].name
                                   /\ os[j].rolledBack <=> j = i \/ objects[j].rolledBack
  <2>1. objects \in Seq(ObjectType) /\ os = RolledBackAt(objects, i)
    BY <1>1, <1>2
  <2> QED
    BY <2>1, ObjectRolledBack
<1>5. \A k, j : ScopeAfter(os, k, j) <=> ScopeAfter(objects, k, j) /\ j # i
  BY <1>4 DEF ScopeAfter
<1> USE DEF left
<1>6. n = objects[i].name
  BY DEF n
<1>7. ASSUME ~warned, NEW k, ScopesHaveLayers(objects, layers, k), NoneWaits(layers)
      PROVE  \/ UNCHANGED <<layers, server>> /\ warned' = warned /\ ScopesMatch(os, layers)
             \/ IsLayer(n) /\ ~Open /\ UNCHANGED <<layers, server>>
             \/ Open /\ ScopesMatch(os, layers') /\ (layers' # <<>> => server' # <<>>)
  <2>1. CASE i <= k
    <3>1. /\ k \in 0..Len(objects) /\ (k = 0 \/ (InOrder /\ Ddl))
          /\ DOMAIN objects = 1..Len(objects) /\ Len(objects) \in Nat
      BY <1>1, <1>7 DEF ScopesHaveLayers
    <3>2. \A j : ~ScopeAfter(objects, k, j)
      BY <1>2, <2>1, <3>1 DEF ScopeAfter
    <3>3. layers = <<>>
      <4> SUFFICES ASSUME layers # <<>> PROVE FALSE
        OBVIOUS
      <4>1. Len(layers) \in DOMAIN layers /\ layers[Len(layers)].active
        BY <1>1, <1>7 DEF NoneWaits
      <4> QED
        BY <1>7, <3>2, <4>1 DEF ScopesHaveLayers
    <3>4. ~IsLayer(n)
      BY <3>3 DEF IsLayer
    <3>5. ScopesHaveLayers(os, layers, k)
      BY <1>4, <1>5, <3>1, <3>2, <3>3 DEF ScopesHaveLayers
    <3> QED
      <4>1. UNCHANGED <<layers, server>> /\ ScopesMatch(os, layers)
        BY <1>3, <1>7, <3>4, <3>5 DEF ScopesMatch
      <4>2. warned' = warned
        BY <1>1, <1>2, <3>4
      <4> QED
        BY <4>1, <4>2
  <2>2. CASE i > k
    <3>1. ScopeAfter(objects, k, i)
      BY <1>2, <2>2 DEF ScopeAfter
    <3>2. top \in DOMAIN layers /\ layers[top].name = n /\ layers[top].active
      BY <1>1, <1>2, <1>6, <1>7, <3>1, InnermostLayer
    <3>3. IsLayer(n)
      BY <3>2 DEF IsLayer
    <3>4. StopsAt(n) = top
      <4> DEFINE stop == StopsAt(n)
      <4>1. stop \in DOMAIN layers /\ \A j \in DOMAIN layers : j > stop => layers[j].name # n
        BY <1>1, <3>3, StopsAtIs
      <4> HIDE DEF stop
      <4>2. stop = top
        BY <1>1, <3>2, <4>1
      <4> QED
        BY <4>2 DEF stop
    <3>5. /\ left \in Seq(Layer) /\ DOMAIN left = 1..(top - 1)
          /\ \A q \in 1..(top-1) : q \in DOMAIN layers /\ q < top /\ left[q] = layers[q]
      BY <1>1, <3>2 DEF Under
    <3> HIDE DEF left
    <3>6. \A q \in DOMAIN layers : q # top => q \in DOMAIN left /\ layers[q].name # n
      BY <1>1, <3>2, <3>5 DEF UniqueNames
    <3>7. ScopesHaveLayers(os, left, k)
      <4>1. k \in 0..Len(os) /\ (k = 0 \/ (InOrder /\ Ddl))
        BY <1>4, <1>7 DEF ScopesHaveLayers
      <4>2. ASSUME NEW l \in DOMAIN left, left[l].active
            PROVE  \E j \in DOMAIN os : ScopeAfter(os, k, j) /\ os[j].name = left[l].name
        <5>1. l \in DOMAIN layers /\ left[l] = layers[l] /\ l # top /\ layers[l].active
          BY <1>1, <3>2, <3>5, <4>2
        <5>2. PICK j \in DOMAIN objects :
                 ScopeAfter(objects, k, j) /\ objects[j].name = layers[l].name
          BY <1>7, <5>1 DEF ScopesHaveLayers
        <5>3. j # i
          BY <1>6, <3>6, <5>1, <5>2
        <5> QED
          BY <1>4, <1>5, <5>1, <5>2, <5>3
      <4>3. ASSUME NEW j \in DOMAIN os, ScopeAfter(os, k, j)
            PROVE  \E l \in DOMAIN left : left[l].active /\ left[l].name = os[j].name
        <5>1. j \in DOMAIN objects /\ j # i /\ ScopeAfter(objects, k, j)
          BY <1>4, <1>5, <4>3
        <5>2. PICK l \in DOMAIN layers : layers[l].active /\ layers[l].name = objects[j].name
          BY <1>7, <5>1 DEF ScopesHaveLayers
        <5>3. objects[j].name # n
          BY <1>1, <1>6, <1>7, <3>1, <5>1, OtherScopeOtherLayer
        <5>4. l \in DOMAIN left
          BY <3>2, <3>6, <5>2, <5>3
        <5> QED
          BY <1>4, <3>5, <5>1, <5>2, <5>4
      <4>4. ASSUME NEW a \in DOMAIN os, NEW b \in DOMAIN os,
                   NEW l \in DOMAIN left, NEW m \in DOMAIN left,
                   ScopeAfter(os, k, a), ScopeAfter(os, k, b), a < b,
                   left[l].name = os[a].name, left[m].name = os[b].name
            PROVE  l < m
        <5>1. /\ a \in DOMAIN objects /\ b \in DOMAIN objects
              /\ ScopeAfter(objects, k, a) /\ ScopeAfter(objects, k, b)
              /\ l \in DOMAIN layers /\ m \in DOMAIN layers
              /\ layers[l].name = objects[a].name /\ layers[m].name = objects[b].name
          BY <1>4, <1>5, <3>5, <4>4
        <5> QED
          BY <1>7, <4>4, <5>1 DEF ScopesHaveLayers
      <4> QED
        BY <4>1, <4>2, <4>3, <4>4 DEF ScopesHaveLayers
    <3>8. CASE (~IsLayer(n) \/ ~Open) /\ UNCHANGED <<layers, server>>
      BY <3>3, <3>8
    <3>9. CASE /\ IsLayer(n) /\ Open /\ left # <<>>
               /\ PopCommittable(left, RolledBackTo(n))
      <4>1. /\ IsStack(left, Layer) /\ IsStack(RolledBackTo(n), Level)
            /\ Matches(left, RolledBackTo(n))
        BY <1>1, <3>2, <3>9, RollBackMatches DEF left
      <4>2. InOrder => \A l \in DOMAIN left : l < Len(left) => left[l].active
        BY <1>7, <3>5 DEF NoneWaits
      <4>3. RolledBackTo(n) # <<>>
        <5>1. \E u : RolledBackTo(n) = Append(u, [name |-> n, rows |-> {}])
          BY Zenon DEF RolledBackTo
        <5> QED
          BY <4>1, <5>1 DEF IsStack
      <4>4. ScopesMatch(os, layers') /\ (layers' # <<>> => server' # <<>>)
        BY <1>4, <3>7, <3>9, <4>1, <4>2, <4>3, PopKeepsScopes
      <4> QED
        BY <3>9, <4>4
    <3>10. CASE /\ IsLayer(n) /\ Open
                /\ ~layers[top].active \/ left = <<>>
                /\ layers' = left /\ server' = <<>>
      <4>1. layers' = <<>> /\ ScopesHaveLayers(os, <<>>, k)
        BY <3>2, <3>7, <3>10
      <4> QED
        BY <3>10, <4>1 DEF ScopesMatch, NoneWaits
    <3> QED
      BY <1>3, <3>4, <3>8, <3>9, <3>10 DEF left
  <2> QED
    BY <1>1, <1>7, <2>1, <2>2 DEF ScopesHaveLayers
<1>8. CASE ~warned
  <2>1. PICK k : ScopesHaveLayers(objects, layers, k) /\ NoneWaits(layers)
    BY <1>8 DEF ScopesInv, ScopesMatch
  <2>2. CASE UNCHANGED <<layers, server>> /\ warned' = warned /\ ScopesMatch(os, layers)
    BY <2>2 DEF ScopesInv, os
  <2>3. CASE IsLayer(n) /\ ~Open /\ UNCHANGED <<layers, server>>
    <3>1. layers # <<>> /\ server = <<>>
      BY <2>3 DEF IsLayer, Open
    <3>2. Ddl
      BY <3>1 DEF ScopesInv
    <3>3. warned'
      BY <1>2, <2>3
    <3> QED
      BY <3>2, <3>3 DEF ScopesInv
  <2>4. CASE Open /\ ScopesMatch(os, layers') /\ (layers' # <<>> => server' # <<>>)
    BY <1>2, <1>8, <2>4 DEF ScopesInv, os
  <2> QED
    BY <1>7, <1>8, <2>1, <2>2, <2>3, <2>4
<1>9. CASE warned
  <2>1. warned' /\ Ddl
    BY <1>2, <1>9 DEF ScopesInv
  <2> QED
    BY <2>1 DEF ScopesInv
<1> QED
  BY <1>1, <1>8, <1>9

LEMMA ScopesHold ==
  ASSUME Orderly
  PROVE  Spec => [](TypeInv /\ ScopesInv)
<1>1. Init => ScopesInv
  <2>1. NoneWaits(<<>>) /\ ScopesHaveLayers(<<>>, <<>>, 0)
    BY DEF NoneWaits, ScopesHaveLayers
  <2> QED
    BY <2>1 DEF Init, ScopesInv, ScopesMatch
<1>2. TypeInv /\ ScopesInv /\ [Next]_vars => ScopesInv'
  <2> SUFFICES ASSUME TypeInv, ScopesInv, [Next]_vars PROVE ScopesInv'
    OBVIOUS
  <2>1. ASSUME NEW o \in Object, NEW n \in Given \union {Root}, StartTransaction(o, n)
        PROVE  ScopesInv'
    BY <2>1, StartKeepsScopes
  <2>2. ASSUME NEW i \in DOMAIN objects, Destruct(i) PROVE ScopesInv'
    BY <2>2, DestructKeepsScopes
  <2>3. ASSUME NEW i \in DOMAIN objects, RollBack(i) PROVE ScopesInv'
    BY <2>3, RollBackKeepsScopes
  <2>4. ASSUME NEW c \in Change, Write(c) PROVE ScopesInv'
    <3>1. ASSUME server # <<>> PROVE server' # <<>>
      <4>1. server \in Seq(Level) /\ IsStack(server, Level)
        BY DEF TypeInv, IsStack
      <4>2. Len(server') = Len(server) /\ server' \in Seq(Level)
        BY <2>4, <3>1, <4>1, WriteEffect DEF IsStack
      <4> QED
        BY <3>1, <4>1, <4>2
    <3> QED
      BY <2>4, <3>1 DEF Write, ScopesInv
  <2>5. ASSUME NEW c \in Callback, AddCallback(c) PROVE ScopesInv'
    BY <2>5 DEF AddCallback, ScopesInv
  <2>6. CASE AlterTable
    BY <2>6 DEF AlterTable, ScopesInv
  <2>7. CASE UNCHANGED vars
    BY <2>7 DEF vars, ScopesInv
  <2> QED
    BY <2>1, <2>2, <2>3, <2>4, <2>5, <2>6, <2>7 DEF Next
<1> QED
  BY <1>1, <1>2, TypesHold, PTL DEF Spec

LEMMA EndIsClean ==
  ASSUME TypeInv, ScopesInv, ~warned
  PROVE  NothingOpenAtEnd
<1> SUFFICES ASSUME objects = <<>>, layers # <<>> PROVE FALSE
  BY DEF NothingOpenAtEnd, InTransaction, TypeInv
<1>1. PICK k : ScopesHaveLayers(objects, layers, k) /\ NoneWaits(layers)
  BY DEF ScopesInv, ScopesMatch
<1>2. Len(layers) \in DOMAIN layers /\ layers[Len(layers)].active
  BY <1>1 DEF NoneWaits, TypeInv, IsStack
<1> QED
  BY <1>1, <1>2 DEF ScopesHaveLayers

(* When no Transaction object is alive, no layer is left and no callback   *)
(* waits: for every number of objects and every order in which they are    *)
(* destroyed, as long as no table is altered and only the innermost scope  *)
(* is rolled back.                                                         *)
THEOREM NothingLeftOpen ==
  ASSUME ~RollBackAny, ~Ddl
  PROVE  Spec => []NothingOpenAtEnd
<1>1. TypeInv /\ ScopesInv => NothingOpenAtEnd
  BY EndIsClean DEF ScopesInv
<1>2. Orderly
  BY DEF Orderly
<1> QED
  BY <1>1, <1>2, ScopesHold, PTL

(* With DDL, which commits behind the connection's back, nothing is left   *)
(* open either, as long as no rollback was refused: for objects that are   *)
(* destroyed innermost first, any number of statements and any depth.      *)
THEOREM DdlLeavesNothingOpen ==
  ASSUME Orderly
  PROVE  Spec => []CleanAfterDdl
<1>1. TypeInv /\ ScopesInv => CleanAfterDdl
  BY EndIsClean DEF CleanAfterDdl
<1> QED
  BY <1>1, ScopesHold, PTL

(* inTransaction() is TRUE just while the server's transaction is open, if *)
(* no table is altered and only the innermost scope is rolled back.        *)
THEOREM InTransactionTells ==
  ASSUME ~RollBackAny, ~Ddl
  PROVE  Spec => []InTransactionTruthful
<1>1. TypeInv /\ ScopesInv => InTransactionTruthful
  BY DEF TypeInv, ScopesInv, Matches, InTransactionTruthful, InTransaction, Open
<1>2. Orderly
  BY DEF Orderly
<1> QED
  BY <1>1, <1>2, ScopesHold, PTL

-----------------------------------------------------------------------------
(* The promise of NestedTransactions is kept.  Its variables are functions *)
(* of the objects os and the server's levels s.                            *)
IdsAmong(os, I) == {os[i].id : i \in {j \in I : ~os[j].rolledBack}}

ScopeIds(os) == IdsAmong(os, DOMAIN os)

IdsAt(os, s, a) == IdsAmong(os, {i \in DOMAIN os : LastNamed(s, os[i].name) <= a})

AroundOf(os) ==
  [o \in Object |->
     IdsAmong(os, {j \in DOMAIN os :
                     \E i \in DOMAIN os : ~os[i].rolledBack /\ os[i].id = o /\ j < i})]

Pends(os, s, a, c) == [change |-> c, within |-> IdsAt(os, s, a)]

PendingOf(os, s) == UNION {{Pends(os, s, a, c) : c \in s[a].rows} : a \in DOMAIN s}

PromisedLive    == IdsOf(DOMAIN objects)
PromisedAround  == [o \in Object |-> ScopesBefore(o)]
PromisedPending ==
  UNION {{[change |-> c, within |-> ScopesAt(a)] : c \in server[a].rows} : a \in DOMAIN server}

LEMMA MappingIs ==
  /\ PromisedLive = ScopeIds(objects) /\ PromisedAround = AroundOf(objects)
  /\ PromisedPending = PendingOf(objects, server)
<1>1. PromisedLive = ScopeIds(objects)
  BY DEF PromisedLive, ScopeIds, IdsOf, IdsAmong, IsScope
<1>2. PromisedAround = AroundOf(objects)
  BY Zenon DEF PromisedAround, AroundOf, ScopesBefore, IdsOf, IdsAmong, IsScope
<1>3. PromisedPending = PendingOf(objects, server)
  BY Zenon DEF PromisedPending, PendingOf, Pends, ScopesAt, IdsOf, IdsAmong, IsScope, IdsAt,
               Savepoint, LastNamed
<1> QED
  BY <1>1, <1>2, <1>3

LEMMA MappingMoves ==
  /\ PromisedLive' = ScopeIds(objects') /\ PromisedAround' = AroundOf(objects')
  /\ PromisedPending' = PendingOf(objects', server')
<1>1. PromisedLive' = ScopeIds(objects')
  BY DEF PromisedLive, ScopeIds, IdsOf, IdsAmong, IsScope
<1>2. PromisedAround' = AroundOf(objects')
  BY Zenon DEF PromisedAround, AroundOf, ScopesBefore, IdsOf, IdsAmong, IsScope
<1>3. PromisedPending' = PendingOf(objects', server')
  BY Zenon DEF PromisedPending, PendingOf, Pends, ScopesAt, IdsOf, IdsAmong, IsScope, IdsAt,
               Savepoint, LastNamed, SelectLastInSeq
<1> QED
  BY <1>1, <1>2, <1>3

(* Members of these sets.                                                  *)
HasScope(os, i, x) == i \in DOMAIN os /\ ~os[i].rolledBack /\ os[i].id = x

LEMMA InScopeIds ==
  ASSUME NEW os, NEW x
  PROVE  x \in ScopeIds(os) <=> \E i : HasScope(os, i, x)
BY DEF ScopeIds, IdsAmong, HasScope

LEMMA InIdsAt ==
  ASSUME NEW os, NEW s, NEW a, NEW x
  PROVE  x \in IdsAt(os, s, a) <=> \E i : HasScope(os, i, x) /\ LastNamed(s, os[i].name) <= a
BY DEF IdsAt, IdsAmong, HasScope

LEMMA InAround ==
  ASSUME NEW os, NEW o \in Object, NEW x
  PROVE  x \in AroundOf(os)[o] <=> \E i, j : HasScope(os, i, o) /\ HasScope(os, j, x) /\ j < i
BY DEF AroundOf, IdsAmong, HasScope

LEMMA AroundIs ==
  ASSUME NEW os
  PROVE  AroundOf(os) = [o \in Object |-> AroundOf(os)[o]]
BY DEF AroundOf

LEMMA PendingIs ==
  ASSUME NEW os, NEW s
  PROVE  \A r : r \in PendingOf(os, s) <=>
           \E a \in DOMAIN s : \E c \in s[a].rows : r = Pends(os, s, a, c)
BY DEF PendingOf

(* The unsaved rows are the pending changes.                               *)
LEMMA ChangesPending ==
  ASSUME NEW os, NEW s \in Seq(Level)
  PROVE  Unsaved(s) = {r.change : r \in PendingOf(os, s)}
<1> DEFINE C == {r.change : r \in PendingOf(os, s)}
<1>1. \A c : c \in Unsaved(s) <=> \E a \in DOMAIN s : c \in s[a].rows
  BY UnsavedType
<1>2. \A a, c : Pends(os, s, a, c).change = c
  BY DEF Pends
<1>3. \A c : c \in C <=> \E a \in DOMAIN s : \E d \in s[a].rows : c = Pends(os, s, a, d).change
  BY PendingIs
<1> HIDE DEF C
<1>4. \A c : c \in C <=> \E a \in DOMAIN s : c \in s[a].rows
  BY <1>2, <1>3
<1>5. Unsaved(s) = C
  BY <1>1, <1>4
<1> QED
  BY <1>5 DEF C

(* Two descriptions of the same pending changes.                           *)
PendingWithin(os, s, ot, t) ==
  \A a \in DOMAIN s : \A c \in s[a].rows :
    \E b \in DOMAIN t : c \in t[b].rows /\ IdsAt(os, s, a) = IdsAt(ot, t, b)

LEMMA SamePending ==
  ASSUME NEW os, NEW s, NEW ot, NEW t,
         PendingWithin(os, s, ot, t), PendingWithin(ot, t, os, s)
  PROVE  PendingOf(os, s) = PendingOf(ot, t)
<1>1. ASSUME NEW os1, NEW s1, NEW ot1, NEW t1, PendingWithin(os1, s1, ot1, t1)
      PROVE  PendingOf(os1, s1) \subseteq PendingOf(ot1, t1)
  <2> SUFFICES ASSUME NEW r \in PendingOf(os1, s1) PROVE r \in PendingOf(ot1, t1)
    OBVIOUS
  <2>1. PICK a \in DOMAIN s1 : \E c \in s1[a].rows : r = Pends(os1, s1, a, c)
    BY PendingIs
  <2>2. PICK c \in s1[a].rows : r = Pends(os1, s1, a, c)
    BY <2>1
  <2>3. PICK b \in DOMAIN t1 : c \in t1[b].rows /\ IdsAt(os1, s1, a) = IdsAt(ot1, t1, b)
    BY <1>1 DEF PendingWithin
  <2>4. r = Pends(ot1, t1, b, c)
    BY <2>2, <2>3 DEF Pends
  <2> QED
    BY <2>3, <2>4, PendingIs
<1> QED
  BY <1>1

(* A scope begins.                                                         *)
LEMMA ScopeBegins ==
  ASSUME NEW os \in Seq(ObjectType), NEW o \in ObjectType, ~o.rolledBack,
         \A i \in DOMAIN os : os[i].id # o.id,
         NEW t, t = Append(os, o)
  PROVE  /\ o.id \notin ScopeIds(os) /\ ScopeIds(t) = ScopeIds(os) \union {o.id}
         /\ AroundOf(t) = [AroundOf(os) EXCEPT ![o.id] = ScopeIds(os)]
<1>1. /\ Len(t) = Len(os) + 1 /\ t[Len(t)] = o
      /\ DOMAIN t = 1..(Len(os) + 1) /\ DOMAIN os = 1..Len(os) /\ Len(os) \in Nat
      /\ \A i \in DOMAIN os : t[i] = os[i]
  BY ObjectAppended
<1>2. \A i, x : HasScope(t, i, x) <=> HasScope(os, i, x) \/ (i = Len(t) /\ x = o.id)
  <2> SUFFICES ASSUME NEW i, NEW x
               PROVE  HasScope(t, i, x) <=> HasScope(os, i, x) \/ (i = Len(t) /\ x = o.id)
    OBVIOUS
  <2>1. i \in DOMAIN t <=> i \in DOMAIN os \/ i = Len(t)
    BY <1>1
  <2>2. Len(t) \notin DOMAIN os
    BY <1>1
  <2> QED
    BY <1>1, <2>1, <2>2 DEF HasScope
<1>3. \A i, x : HasScope(os, i, x) => i < Len(t) /\ x # o.id /\ i \in Nat
  BY <1>1 DEF HasScope
<1>4. o.id \notin ScopeIds(os)
  BY <1>3, InScopeIds
<1>5. Len(t) \in Nat /\ o.id \in Object
  BY <1>1 DEF ObjectType
<1> DEFINE n == Len(t)
           d == o.id
<1> HIDE DEF n, d
<1>6. \A i, x : HasScope(t, i, x) <=> HasScope(os, i, x) \/ (i = n /\ x = d)
  BY <1>2 DEF n, d
<1>7. n \in Nat /\ d \in Object /\ \A i, x : HasScope(os, i, x) => i < n /\ x # d /\ i \in Nat
  BY <1>3, <1>5 DEF n, d
<1>8. ScopeIds(t) = ScopeIds(os) \union {d}
  <2> SUFFICES ASSUME NEW x PROVE x \in ScopeIds(t) <=> x \in ScopeIds(os) \/ x = d
    OBVIOUS
  <2>1. x \in ScopeIds(t) <=> \E i : HasScope(t, i, x)
    BY InScopeIds
  <2>2. x \in ScopeIds(os) <=> \E i : HasScope(os, i, x)
    BY InScopeIds
  <2> QED
    BY <1>6, <2>1, <2>2
<1>9. ASSUME NEW u \in Object
      PROVE  AroundOf(t)[u] = IF u = d THEN ScopeIds(os) ELSE AroundOf(os)[u]
  <2> SUFFICES ASSUME NEW x
               PROVE  x \in AroundOf(t)[u] <=> x \in (IF u = d THEN ScopeIds(os) ELSE AroundOf(os)[u])
    OBVIOUS
  <2>1. x \in AroundOf(t)[u] <=> \E i, j : HasScope(t, i, u) /\ HasScope(t, j, x) /\ j < i
    BY InAround
  <2>2. x \in AroundOf(os)[u] <=> \E i, j : HasScope(os, i, u) /\ HasScope(os, j, x) /\ j < i
    BY InAround
  <2>3. x \in ScopeIds(os) <=> \E i : HasScope(os, i, x)
    BY InScopeIds
  <2>4. CASE u = d
    BY <1>6, <1>7, <2>1, <2>3, <2>4
  <2>5. CASE u # d
    BY <1>6, <1>7, <2>1, <2>2, <2>5
  <2> QED
    BY <2>4, <2>5
<1>10. AroundOf(t) = [AroundOf(os) EXCEPT ![d] = ScopeIds(os)]
  <2> DEFINE A == AroundOf(os)
             B == AroundOf(t)
             ids == ScopeIds(os)
  <2>1. A = [u \in Object |-> A[u]] /\ B = [u \in Object |-> B[u]]
    BY AroundIs
  <2>2. \A u \in Object : B[u] = IF u = d THEN ids ELSE A[u]
    BY <1>9
  <2> HIDE DEF A, B, ids
  <2>3. B = [A EXCEPT ![d] = ids]
    BY <2>1, <2>2
  <2> QED
    BY <2>3 DEF A, B, ids
<1> QED
  BY <1>4, <1>8, <1>10 DEF d

(* Of the objects os, those in t are left: f[k] is the former place of the *)
(* k-th.  The scope of the i-th, if it was one, has ended.                 *)
Left(os, t, i, f) ==
  /\ \A k \in DOMAIN t :
       /\ f[k] \in DOMAIN os /\ t[k].id = os[f[k]].id /\ t[k].name = os[f[k]].name
       /\ ~t[k].rolledBack <=> ~os[f[k]].rolledBack /\ f[k] # i
  /\ \A k, m \in DOMAIN t : k < m <=> f[k] < f[m]
  /\ \A m \in DOMAIN os : m # i => \E k \in DOMAIN t : f[k] = m

Gone(os, i) == IF os[i].rolledBack THEN {} ELSE {os[i].id}

AroundWithout(os, gone) ==
  [u \in Object |-> IF u \in gone THEN {} ELSE AroundOf(os)[u] \ gone]

ScopeEnded(os, t, gone) ==
  /\ ScopeIds(t) = ScopeIds(os) \ gone
  /\ AroundOf(t) = AroundWithout(os, gone)
  /\ \A s, a : IdsAt(t, s, a) = IdsAt(os, s, a) \ gone

LEMMA ScopeEnds ==
  ASSUME NEW os, UniqueIds(os), NEW t, NEW i \in DOMAIN os, NEW f, Left(os, t, i, f)
  PROVE  ScopeEnded(os, t, Gone(os, i))
<1>1. \A k, x : HasScope(t, k, x) =>
        /\ HasScope(os, f[k], x) /\ x \notin Gone(os, i) /\ k \in DOMAIN t
        /\ t[k].name = os[f[k]].name
  <2> SUFFICES ASSUME NEW k, NEW x, HasScope(t, k, x)
               PROVE  /\ HasScope(os, f[k], x) /\ x \notin Gone(os, i) /\ k \in DOMAIN t
                      /\ t[k].name = os[f[k]].name
    OBVIOUS
  <2>1. HasScope(os, f[k], x) /\ f[k] # i
    BY DEF Left, HasScope
  <2> QED
    BY <2>1 DEF Gone, UniqueIds, HasScope, Left
<1>2. \A j, x : HasScope(os, j, x) /\ x \notin Gone(os, i) =>
        \E k \in DOMAIN t : f[k] = j /\ HasScope(t, k, x) /\ t[k].name = os[j].name
  <2> SUFFICES ASSUME NEW j, NEW x, HasScope(os, j, x), x \notin Gone(os, i)
               PROVE  \E k \in DOMAIN t : f[k] = j /\ HasScope(t, k, x) /\ t[k].name = os[j].name
    OBVIOUS
  <2>1. j # i
    BY DEF Gone, HasScope
  <2> QED
    BY <2>1 DEF Left, HasScope
<1>3. \A k, m \in DOMAIN t : k < m <=> f[k] < f[m]
  BY DEF Left
<1> DEFINE gone == Gone(os, i)
<1> HIDE DEF gone
<1>4. \A k, x : HasScope(t, k, x) =>
        /\ HasScope(os, f[k], x) /\ x \notin gone /\ k \in DOMAIN t
        /\ t[k].name = os[f[k]].name
  BY <1>1 DEF gone
<1>5. \A j, x : HasScope(os, j, x) /\ x \notin gone =>
        \E k \in DOMAIN t : f[k] = j /\ HasScope(t, k, x) /\ t[k].name = os[j].name
  BY <1>2 DEF gone
<1>6. ScopeIds(t) = ScopeIds(os) \ gone
  <2> SUFFICES ASSUME NEW x PROVE x \in ScopeIds(t) <=> x \in ScopeIds(os) /\ x \notin gone
    OBVIOUS
  <2>1. x \in ScopeIds(t) <=> \E k : HasScope(t, k, x)
    BY InScopeIds
  <2>2. x \in ScopeIds(os) <=> \E j : HasScope(os, j, x)
    BY InScopeIds
  <2> QED
    BY <1>4, <1>5, <2>1, <2>2
<1>7. ASSUME NEW s, NEW a PROVE IdsAt(t, s, a) = IdsAt(os, s, a) \ gone
  <2> SUFFICES ASSUME NEW x PROVE x \in IdsAt(t, s, a) <=> x \in IdsAt(os, s, a) /\ x \notin gone
    OBVIOUS
  <2>1. x \in IdsAt(t, s, a) <=> \E k : HasScope(t, k, x) /\ LastNamed(s, t[k].name) <= a
    BY InIdsAt
  <2>2. x \in IdsAt(os, s, a) <=> \E j : HasScope(os, j, x) /\ LastNamed(s, os[j].name) <= a
    BY InIdsAt
  <2> QED
    BY <1>4, <1>5, <2>1, <2>2
<1>8. ASSUME NEW u \in Object
      PROVE  AroundOf(t)[u] = IF u \in gone THEN {} ELSE AroundOf(os)[u] \ gone
  <2> SUFFICES ASSUME NEW x
               PROVE  x \in AroundOf(t)[u] <=>
                        u \notin gone /\ x \in AroundOf(os)[u] /\ x \notin gone
    OBVIOUS
  <2>1. x \in AroundOf(t)[u] <=> \E k, m : HasScope(t, k, u) /\ HasScope(t, m, x) /\ m < k
    BY InAround
  <2>2. x \in AroundOf(os)[u] <=> \E k, m : HasScope(os, k, u) /\ HasScope(os, m, x) /\ m < k
    BY InAround
  <2>3. ASSUME x \in AroundOf(t)[u]
        PROVE  u \notin gone /\ x \in AroundOf(os)[u] /\ x \notin gone
    <3>1. PICK k, m : HasScope(t, k, u) /\ HasScope(t, m, x) /\ m < k
      BY <2>1, <2>3
    <3> QED
      BY <1>3, <1>4, <2>2, <3>1
  <2>4. ASSUME u \notin gone, x \in AroundOf(os)[u], x \notin gone
        PROVE  x \in AroundOf(t)[u]
    <3>1. PICK k, m : HasScope(os, k, u) /\ HasScope(os, m, x) /\ m < k
      BY <2>2, <2>4
    <3>2. PICK p \in DOMAIN t : f[p] = k /\ HasScope(t, p, u)
      BY <1>5, <2>4, <3>1
    <3>3. PICK q \in DOMAIN t : f[q] = m /\ HasScope(t, q, x)
      BY <1>5, <2>4, <3>1
    <3> QED
      BY <1>3, <2>1, <3>1, <3>2, <3>3
  <2> QED
    BY <2>3, <2>4
<1>9. AroundOf(t) = [u \in Object |-> IF u \in gone THEN {} ELSE AroundOf(os)[u] \ gone]
  <2> DEFINE B == AroundOf(t)
             C(u) == IF u \in gone THEN {} ELSE AroundOf(os)[u] \ gone
  <2>1. B = [u \in Object |-> B[u]]
    BY AroundIs
  <2>2. \A u \in Object : B[u] = C(u)
    BY <1>8
  <2> HIDE DEF B, C
  <2>3. B = [u \in Object |-> C(u)]
    BY <2>1, <2>2
  <2> QED
    BY <2>3 DEF B, C
<1> QED
  BY <1>6, <1>7, <1>9 DEF gone, AroundWithout, ScopeEnded

LEMMA RemovedLeft ==
  ASSUME NEW os \in Seq(ObjectType), NEW i \in DOMAIN os, NEW t, t = RemoveAt(os, i)
  PROVE  \E f : Left(os, t, i, f)
<1>1. /\ DOMAIN t = 1..(Len(os) - 1) /\ DOMAIN os = 1..Len(os) /\ Len(os) \in Nat
      /\ \A k \in DOMAIN t : Skip(i, k) \in DOMAIN os /\ Skip(i, k) # i /\ t[k] = os[Skip(i, k)]
      /\ \A m \in DOMAIN os : m # i => \E k \in DOMAIN t : Skip(i, k) = m
  BY ObjectRemoved
<1> DEFINE f == [k \in DOMAIN t |-> Skip(i, k)]
<1>2. \A k \in DOMAIN t : f[k] = Skip(i, k)
  OBVIOUS
<1>3. \A k, m \in DOMAIN t : k < m <=> Skip(i, k) < Skip(i, m)
  BY <1>1 DEF Skip
<1> HIDE DEF f
<1>4. Left(os, t, i, f)
  BY <1>1, <1>2, <1>3 DEF Left
<1> QED
  BY <1>4

LEMMA RolledBackLeft ==
  ASSUME NEW os \in Seq(ObjectType), NEW i \in DOMAIN os, NEW t, t = RolledBackAt(os, i)
  PROVE  \E f : Left(os, t, i, f)
<1>1. /\ DOMAIN t = DOMAIN os
      /\ \A k \in DOMAIN os : /\ t[k].id = os[k].id /\ t[k].name = os[k].name
                              /\ t[k].rolledBack <=> k = i \/ os[k].rolledBack
  BY ObjectRolledBack
<1> DEFINE f == [k \in DOMAIN t |-> k]
<1>2. \A k \in DOMAIN t : f[k] = k
  OBVIOUS
<1> HIDE DEF f
<1>3. Left(os, t, i, f)
  BY <1>1, <1>2 DEF Left
<1> QED
  BY <1>3

(* The pending changes when a scope has ended that the others outlive.     *)
Without(r, gone) == [r EXCEPT !.within = @ \ gone]

Forget(P, gone) == {Without(r, gone) : r \in P}

LEMMA PendsForget ==
  ASSUME NEW os, NEW s, NEW a, NEW c, NEW ot, NEW t, NEW b, NEW gone,
         IdsAt(ot, t, b) = IdsAt(os, s, a) \ gone
  PROVE  Without(Pends(os, s, a, c), gone) = Pends(ot, t, b, c)
<1> DEFINE W == IdsAt(os, s, a)
           V == IdsAt(ot, t, b)
<1>1. V = W \ gone
  OBVIOUS
<1>2. Pends(os, s, a, c) = [change |-> c, within |-> W] /\ Pends(ot, t, b, c) = [change |-> c, within |-> V]
  BY DEF Pends
<1> HIDE DEF V, W
<1> QED
  BY <1>1, <1>2 DEF Without

LEMMA PendingForgets ==
  ASSUME NEW os, NEW s, NEW t, NEW gone, \A a : IdsAt(t, s, a) = IdsAt(os, s, a) \ gone
  PROVE  PendingOf(t, s) = Forget(PendingOf(os, s), gone)
<1>1. \A a, c : Without(Pends(os, s, a, c), gone) = Pends(t, s, a, c)
  BY PendsForget
<1>2. \A r : r \in PendingOf(t, s) <=> \E a \in DOMAIN s : \E c \in s[a].rows : r = Pends(t, s, a, c)
  BY PendingIs
<1>3. \A r : r \in PendingOf(os, s) <=> \E a \in DOMAIN s : \E c \in s[a].rows : r = Pends(os, s, a, c)
  BY PendingIs
<1>4. \A r : r \in Forget(PendingOf(os, s), gone) <=>
        \E q \in PendingOf(os, s) : r = Without(q, gone)
  BY DEF Forget
<1>5. ASSUME NEW r \in PendingOf(t, s) PROVE r \in Forget(PendingOf(os, s), gone)
  <2>1. PICK a \in DOMAIN s : \E c \in s[a].rows : r = Pends(t, s, a, c)
    BY <1>2
  <2>2. PICK c \in s[a].rows : r = Pends(t, s, a, c)
    BY <2>1
  <2>3. Pends(os, s, a, c) \in PendingOf(os, s) /\ r = Without(Pends(os, s, a, c), gone)
    BY <1>1, <1>3, <2>2
  <2> QED
    BY <1>4, <2>3
<1>6. ASSUME NEW r \in Forget(PendingOf(os, s), gone) PROVE r \in PendingOf(t, s)
  <2>1. PICK q \in PendingOf(os, s) : r = Without(q, gone)
    BY <1>4
  <2>2. PICK a \in DOMAIN s : \E c \in s[a].rows : q = Pends(os, s, a, c)
    BY <1>3
  <2>3. PICK c \in s[a].rows : q = Pends(os, s, a, c)
    BY <2>2
  <2> QED
    BY <1>1, <1>2, <2>1, <2>3
<1> QED
  BY <1>5, <1>6

(* Nothing is forgotten with an object that was rolled back before.        *)
LEMMA PendingStays ==
  ASSUME NEW os, NEW s, NEW t, \A a : IdsAt(t, s, a) = IdsAt(os, s, a)
  PROVE  PendingOf(t, s) = PendingOf(os, s)
BY SamePending DEF PendingWithin

(* Every scope has a savepoint at the server.                              *)
ScopesHaveLevels(os, s) ==
  \A i, x : HasScope(os, i, x) =>
    /\ LastNamed(s, os[i].name) \in DOMAIN s
    /\ s[LastNamed(s, os[i].name)].name = os[i].name

LEMMA LevelOf ==
  ASSUME NEW s, IsStack(s, Level), NEW b \in DOMAIN s
  PROVE  LastNamed(s, s[b].name) = b
<1>1. s \in Seq(Level) /\ UniqueNames(s)
  BY DEF IsStack
<1> DEFINE n == s[b].name
<1>2. s[b].name = n
  OBVIOUS
<1> HIDE DEF n
<1>3. LastNamed(s, n) = b
  BY <1>1, <1>2, LastNamedIs
<1> QED
  BY <1>3 DEF n

LEMMA ScopeLevel ==
  ASSUME NEW ls, IsStack(ls, Layer), NEW s, IsStack(s, Level), s # <<>>, Matches(ls, s),
         NEW os, ScopesHaveLayers(os, ls, 0), NEW i, NEW x, HasScope(os, i, x), DOMAIN os \subseteq Nat \ {0}
  PROVE  \E l \in DOMAIN ls : \E b \in DOMAIN s :
           /\ ls[l].active /\ ls[l].name = os[i].name /\ s[b].name = os[i].name
           /\ LastNamed(s, os[i].name) = b
<1>1. PICK l \in DOMAIN ls : ls[l].active /\ ls[l].name = os[i].name
  BY DEF ScopesHaveLayers, HasScope, ScopeAfter
<1>2. PICK b \in DOMAIN s : s[b].name = os[i].name
  BY <1>1 DEF Matches
<1>3. LastNamed(s, os[i].name) = b
  <2>1. LastNamed(s, s[b].name) = b
    BY LevelOf
  <2> QED
    BY <1>2, <2>1
<1> QED
  BY <1>1, <1>2, <1>3

(* Releasing savepoints above those of all scopes changes nothing that is  *)
(* promised.                                                               *)
LEMMA MergeKeepsPending ==
  ASSUME NEW s, IsStack(s, Level), NEW k \in 1..Len(s), NEW t, t = Merge(s, k),
         NEW os, \A i, x : HasScope(os, i, x) =>
                   \E b \in 1..k : s[b].name = os[i].name
  PROVE  PendingOf(os, s) = PendingOf(os, t)
<1>1. s \in Seq(Level) /\ UniqueNames(s) /\ Len(s) \in Nat /\ DOMAIN s = 1..Len(s)
  BY DEF IsStack
<1>2. /\ t \in Seq(Level) /\ Len(t) = k /\ DOMAIN t = 1..k
      /\ \A i \in 1..k : t[i].name = s[i].name
      /\ \A i \in 1..(k-1) : t[i] = s[i]
      /\ \A c : c \in t[k].rows <=> \E i \in k..Len(s) : c \in s[i].rows
  <2>1. /\ t \in Seq(Level) /\ Len(t) = k
        /\ \A i \in 1..k : t[i].name = s[i].name
        /\ \A i \in 1..(k-1) : t[i] = s[i]
        /\ \A c : c \in t[k].rows <=> \E i \in k..Len(s) : c \in s[i].rows
    BY <1>1, MergeEffect
  <2> QED
    BY <2>1
<1>3. IsStack(t, Level)
  BY <1>1, <1>2 DEF IsStack, UniqueNames
<1>4. \A i, x : HasScope(os, i, x) =>
        LastNamed(t, os[i].name) = LastNamed(s, os[i].name) /\ LastNamed(s, os[i].name) \in 1..k
  <2> SUFFICES ASSUME NEW i, NEW x, HasScope(os, i, x)
               PROVE  /\ LastNamed(t, os[i].name) = LastNamed(s, os[i].name)
                      /\ LastNamed(s, os[i].name) \in 1..k
    OBVIOUS
  <2>1. PICK b \in 1..k : s[b].name = os[i].name
    OBVIOUS
  <2>2. LastNamed(s, s[b].name) = b
    BY <1>1, <2>1, LevelOf
  <2>3. LastNamed(t, t[b].name) = b
    BY <1>2, <1>3, <2>1, LevelOf
  <2> QED
    BY <1>2, <2>1, <2>2, <2>3
<1>5. ASSUME NEW a \in 1..k PROVE IdsAt(os, t, a) = IdsAt(os, s, a)
  <2> SUFFICES ASSUME NEW x PROVE x \in IdsAt(os, t, a) <=> x \in IdsAt(os, s, a)
    OBVIOUS
  <2> QED
    BY <1>4, InIdsAt
<1>6. ASSUME NEW a \in k..Len(s) PROVE IdsAt(os, s, a) = IdsAt(os, t, k)
  <2> SUFFICES ASSUME NEW x PROVE x \in IdsAt(os, s, a) <=> x \in IdsAt(os, t, k)
    OBVIOUS
  <2>1. x \in IdsAt(os, s, a) <=> \E i : HasScope(os, i, x) /\ LastNamed(s, os[i].name) <= a
    BY InIdsAt
  <2>2. x \in IdsAt(os, t, k) <=> \E i : HasScope(os, i, x) /\ LastNamed(t, os[i].name) <= k
    BY InIdsAt
  <2> QED
    BY <1>1, <1>4, <2>1, <2>2
<1>7. PendingWithin(os, s, os, t)
  <2> SUFFICES ASSUME NEW a \in DOMAIN s, NEW c \in s[a].rows
               PROVE  \E b \in DOMAIN t : c \in t[b].rows /\ IdsAt(os, s, a) = IdsAt(os, t, b)
    BY DEF PendingWithin
  <2>1. CASE a \in 1..(k-1)
    BY <1>2, <1>5, <2>1
  <2>2. CASE a \in k..Len(s)
    BY <1>2, <1>6, <2>2
  <2> QED
    BY <1>1, <2>1, <2>2
<1>8. PendingWithin(os, t, os, s)
  <2> SUFFICES ASSUME NEW a \in DOMAIN t, NEW c \in t[a].rows
               PROVE  \E b \in DOMAIN s : c \in s[b].rows /\ IdsAt(os, t, a) = IdsAt(os, s, b)
    BY DEF PendingWithin
  <2>1. CASE a \in 1..(k-1)
    BY <1>1, <1>2, <1>5, <2>1
  <2>2. CASE a = k
    <3>1. PICK b \in k..Len(s) : c \in s[b].rows
      BY <1>2, <2>2
    <3> QED
      BY <1>1, <1>6, <2>2, <3>1
  <2> QED
    BY <1>1, <1>2, <2>1, <2>2
<1> QED
  BY <1>7, <1>8, SamePending

(* popCommittableTransactions() commits when no scope is left, and else    *)
(* keeps what is promised.                                                 *)
LEMMA PopCloses ==
  ASSUME NEW ls, IsStack(ls, Layer), ls # <<>>, NEW s, IsStack(s, Level), s # <<>>, Matches(ls, s),
         NEW os \in Seq(ObjectType), ScopesHaveLayers(os, ls, 0), PopCommittable(ls, s),
         NEW t, t = server'
  PROVE  IF ScopeIds(os) = {}
         THEN /\ PendingOf(os, t) = {}
              /\ \/ rows' = rows \union Unsaved(s) /\ Tell("committed")
                 \/ UNCHANGED rows /\ Tell("failed")
         ELSE /\ PendingOf(os, t) = PendingOf(os, s)
              /\ UNCHANGED <<rows, callbacks, told>>
<1>1. /\ ls \in Seq(Layer) /\ s \in Seq(Level) /\ Len(ls) \in Nat \ {0} /\ DOMAIN ls = 1..Len(ls)
      /\ DOMAIN os \subseteq Nat \ {0}
  BY DEF IsStack
<1>2. PICK keep : /\ Keeps(ls, keep)
                  /\ \/ PopsNone(ls, s, keep)
                     \/ PopsAll(ls, s, keep)
                     \/ \E p : PopsSome(ls, s, keep, p)
  BY PopCases
<1>3. CASE ScopeIds(os) = {}
  <2>1. keep = 0
    <3> SUFFICES ASSUME keep # 0 PROVE FALSE
      OBVIOUS
    <3>1. keep \in DOMAIN ls /\ ls[keep].active
      BY <1>1, <1>2 DEF Keeps
    <3>2. PICK i \in DOMAIN os : ScopeAfter(os, 0, i)
      BY <3>1 DEF ScopesHaveLayers
    <3>3. HasScope(os, i, os[i].id)
      BY <3>2 DEF HasScope, ScopeAfter
    <3> QED
      BY <1>3, <3>3, InScopeIds
  <2>2. PopsAll(ls, s, keep)
    BY <1>1, <1>2, <2>1 DEF PopsNone, PopsSome
  <2>3. DoCommit(s)
    BY <2>2 DEF PopsAll
  <2>4. t = <<>>
    BY <2>3 DEF DoCommit
  <2>5. PendingOf(os, <<>>) = {}
    BY PendingIs
  <2> QED
    BY <1>3, <2>3, <2>4, <2>5 DEF DoCommit
<1>4. CASE ScopeIds(os) # {}
  <2>1. keep # 0
    <3>1. PICK i, x : HasScope(os, i, x)
      BY <1>4, InScopeIds
    <3>2. \E l \in DOMAIN ls : ls[l].active
      BY <1>1, <3>1, ScopeLevel
    <3> QED
      BY <1>1, <1>2, <3>2 DEF Keeps
  <2>2. CASE PopsNone(ls, s, keep)
    BY <1>4, <2>2 DEF PopsNone
  <2>3. ASSUME NEW p, PopsSome(ls, s, keep, p)
        PROVE  PendingOf(os, t) = PendingOf(os, s) /\ UNCHANGED <<rows, callbacks, told>>
    <3> DEFINE k == p - 1
    <3>1. /\ k \in 1..Len(s) /\ t = Merge(s, k)
          /\ \A i \in 1..keep, a \in DOMAIN s : s[a].name = ls[i].name => a < p
          /\ p \in 2..Len(s) /\ Len(s) \in Nat /\ DOMAIN s = 1..Len(s)
          /\ UNCHANGED <<rows, callbacks, told>>
      BY <1>1, <2>3 DEF PopsSome
    <3>2. ASSUME NEW i, NEW x, HasScope(os, i, x)
          PROVE  \E b \in 1..k : s[b].name = os[i].name
      <4>1. PICK l \in DOMAIN ls : \E b \in DOMAIN s :
              ls[l].active /\ ls[l].name = os[i].name /\ s[b].name = os[i].name
        BY <1>1, <3>2, ScopeLevel, SMTT(30)
      <4>2. PICK b \in DOMAIN s :
              ls[l].active /\ ls[l].name = os[i].name /\ s[b].name = os[i].name
        BY <4>1
      <4>3. l \in 1..keep
        BY <1>1, <1>2, <4>2 DEF Keeps
      <4>4. b < p
        BY <3>1, <4>2, <4>3
      <4> QED
        BY <3>1, <4>2, <4>4
    <3> HIDE DEF k
    <3>3. PendingOf(os, s) = PendingOf(os, t)
      BY <3>1, <3>2, MergeKeepsPending
    <3> QED
      BY <3>1, <3>3
  <2>4. ~PopsAll(ls, s, keep)
    BY <2>1 DEF PopsAll
  <2> QED
    BY <1>2, <1>4, <2>2, <2>3, <2>4
<1> QED
  BY <1>3, <1>4

(* How the levels moved when a savepoint was set.                          *)
Moved(s, t, n, i) ==
  /\ IsStack(t, Level) /\ Len(t) >= 2 /\ t[Len(t)] = NewLevel(n)
  /\ i \in 0..Len(s) /\ i # 1
  /\ \A a \in DOMAIN s : s[a].name = n <=> a = i
  /\ \A b \in 1..(Len(t)-1) :
       /\ Before(i, b) \in DOMAIN s /\ Before(i, b) # i
       /\ t[b].name = s[Before(i, b)].name
  /\ \A a \in DOMAIN s : a # i => \E b \in 1..(Len(t)-1) : Before(i, b) = a
  /\ \A b \in 1..(Len(t)-1) : \A c :
       c \in t[b].rows <=> \/ c \in s[Before(i, b)].rows
                           \/ i # 0 /\ b = i - 1 /\ c \in s[i].rows

LEMMA SavepointMoved ==
  ASSUME IsStack(server, Level), server # <<>>, NEW n \in Names, server[1].name # n,
         SetSavepoint(n)
  PROVE  \E i : Moved(server, server', n, i)
<1> DEFINE i == Savepoint(n)
           t == server'
<1>1. i = Savepoint(n) /\ t = server'
  OBVIOUS
<1> HIDE DEF i, t
<1>2. /\ IsStack(t, Level) /\ Len(t) >= 2 /\ t[Len(t)] = NewLevel(n)
      /\ i \in 0..Len(server) /\ i # 1
      /\ \A a \in DOMAIN server : server[a].name = n <=> a = i
      /\ \A b \in 1..(Len(t)-1) :
           /\ Before(i, b) \in DOMAIN server /\ Before(i, b) # i
           /\ t[b].name = server[Before(i, b)].name
      /\ \A a \in DOMAIN server : a # i => \E b \in 1..(Len(t)-1) : Before(i, b) = a
  BY <1>1, SavepointMoves
<1>3. \A b \in 1..(Len(t)-1) : \A c :
        c \in t[b].rows <=> \/ c \in server[Before(i, b)].rows
                            \/ i # 0 /\ b = i - 1 /\ c \in server[i].rows
  BY <1>1, SavepointMoves, SMTT(30)
<1>4. Moved(server, t, n, i)
  BY <1>2, <1>3 DEF Moved
<1> QED
  BY <1>1, <1>4

(* A new savepoint changes nothing that is promised: the level of an older *)
(* one of that name, which swallows it, belongs to no scope.               *)
ScopesNamed(os, S) == \A i, x : HasScope(os, i, x) => os[i].name \in S

LevelNames(s, I) == {s[b].name : b \in I}

LEMMA SavepointKeepsPending ==
  ASSUME IsStack(server, Level), server # <<>>, NEW n \in Names, server[1].name # n,
         SetSavepoint(n), NEW t, t = server',
         NEW os \in Seq(ObjectType), NEW o \in ObjectType, o.name = n, NEW u, u = Append(os, o),
         ScopesNamed(os, LevelNames(server, DOMAIN server) \ {n})
  PROVE  PendingOf(os, server) = PendingOf(u, t)
<1> DEFINE top == Len(t)
<1>0. PICK i : Moved(server, t, n, i)
  BY SavepointMoved
<1>1. /\ IsStack(t, Level) /\ top >= 2 /\ t[top] = NewLevel(n)
      /\ i \in 0..Len(server) /\ i # 1
      /\ \A a \in DOMAIN server : server[a].name = n <=> a = i
      /\ \A b \in 1..(top-1) :
           /\ Before(i, b) \in DOMAIN server /\ Before(i, b) # i
           /\ t[b].name = server[Before(i, b)].name
      /\ \A a \in DOMAIN server : a # i => \E b \in 1..(top-1) : Before(i, b) = a
      /\ \A b \in 1..(top-1) : \A c :
           c \in t[b].rows <=> \/ c \in server[Before(i, b)].rows
                               \/ i # 0 /\ b = i - 1 /\ c \in server[i].rows
  BY <1>0 DEF Moved
<1>2. /\ top \in Nat /\ DOMAIN t = 1..top /\ Len(server) \in Nat /\ DOMAIN server = 1..Len(server)
      /\ server \in Seq(Level) /\ t \in Seq(Level)
  BY <1>1 DEF IsStack
<1> HIDE DEF top
<1>3. /\ Len(u) = Len(os) + 1 /\ u[Len(u)] = o /\ Len(os) \in Nat
      /\ DOMAIN u = 1..(Len(os) + 1) /\ DOMAIN os = 1..Len(os)
      /\ \A j \in DOMAIN os : u[j] = os[j]
  BY ObjectAppended
<1>4. \A j, x : HasScope(u, j, x) =>
        (HasScope(os, j, x) /\ u[j].name = os[j].name) \/ u[j].name = n
  <2> SUFFICES ASSUME NEW j, NEW x, HasScope(u, j, x)
               PROVE  (HasScope(os, j, x) /\ u[j].name = os[j].name) \/ u[j].name = n
    OBVIOUS
  <2>1. j \in DOMAIN os \/ j = Len(u)
    BY <1>3 DEF HasScope
  <2> QED
    BY <1>3, <2>1 DEF HasScope
<1>5. \A j, x : HasScope(os, j, x) => HasScope(u, j, x) /\ u[j].name = os[j].name
  BY <1>3 DEF HasScope
<1>6. LastNamed(t, n) = top
  <2>1. top \in DOMAIN t /\ t[top].name = n
    BY <1>1, <1>2 DEF NewLevel
  <2> QED
    BY <1>1, <2>1, LevelOf
<1>7. \A b \in 1..(top-1), d \in 1..(top-1) : b <= d <=> Before(i, b) <= Before(i, d)
  BY <1>1, <1>2 DEF Before
<1>8. ASSUME NEW j, NEW x, HasScope(os, j, x)
      PROVE  \E b \in 1..(top-1) : /\ LastNamed(t, os[j].name) = b
                                   /\ LastNamed(server, os[j].name) = Before(i, b)
  <2>1. PICK a \in DOMAIN server : server[a].name = os[j].name /\ a # i
    BY <1>1, <1>8 DEF ScopesNamed, LevelNames
  <2>2. PICK b \in 1..(top-1) : Before(i, b) = a
    BY <1>1, <2>1
  <2>3. b \in DOMAIN t /\ t[b].name = os[j].name
    BY <1>1, <1>2, <2>1, <2>2
  <2>4. LastNamed(t, t[b].name) = b /\ LastNamed(server, server[a].name) = a
    BY <1>1, <2>1, <2>3, LevelOf
  <2> QED
    BY <2>1, <2>2, <2>3, <2>4
<1>9. ASSUME NEW b \in 1..(top-1) PROVE IdsAt(os, server, Before(i, b)) = IdsAt(u, t, b)
  <2> SUFFICES ASSUME NEW x PROVE x \in IdsAt(os, server, Before(i, b)) <=> x \in IdsAt(u, t, b)
    OBVIOUS
  <2>1. x \in IdsAt(os, server, Before(i, b)) <=>
          \E j : HasScope(os, j, x) /\ LastNamed(server, os[j].name) <= Before(i, b)
    BY InIdsAt
  <2>2. x \in IdsAt(u, t, b) <=> \E j : HasScope(u, j, x) /\ LastNamed(t, u[j].name) <= b
    BY InIdsAt
  <2>3. \A j : HasScope(os, j, x) =>
          (LastNamed(server, os[j].name) <= Before(i, b) <=> LastNamed(t, os[j].name) <= b)
    BY <1>7, <1>8
  <2>4. ~ (LastNamed(t, n) <= b)
    BY <1>2, <1>6
  <2> QED
    BY <1>4, <1>5, <2>1, <2>2, <2>3, <2>4
<1>10. ASSUME i # 0
       PROVE  /\ i - 1 \in 1..(top-1) /\ Before(i, i - 1) = i - 1 /\ i \in DOMAIN server
              /\ IdsAt(os, server, i) = IdsAt(os, server, i - 1)
  <2>1. i \in DOMAIN server /\ i - 1 \in DOMAIN server /\ i - 1 # i
    BY <1>1, <1>2, <1>10
  <2>2. PICK b \in 1..(top-1) : Before(i, b) = i - 1
    BY <1>1, <2>1
  <2>3. b = i - 1
    BY <1>1, <1>2, <2>1, <2>2 DEF Before
  <2>4. IdsAt(os, server, i) = IdsAt(os, server, i - 1)
    <3> SUFFICES ASSUME NEW x PROVE x \in IdsAt(os, server, i) <=> x \in IdsAt(os, server, i - 1)
      OBVIOUS
    <3>1. x \in IdsAt(os, server, i) <=>
            \E j : HasScope(os, j, x) /\ LastNamed(server, os[j].name) <= i
      BY InIdsAt
    <3>2. x \in IdsAt(os, server, i - 1) <=>
            \E j : HasScope(os, j, x) /\ LastNamed(server, os[j].name) <= i - 1
      BY InIdsAt
    <3>3. \A j : HasScope(os, j, x) =>
            LastNamed(server, os[j].name) \in 1..Len(server) /\ LastNamed(server, os[j].name) # i
      BY <1>1, <1>2, <1>8
    <3> QED
      BY <1>1, <1>2, <3>1, <3>2, <3>3
  <2> QED
    BY <2>1, <2>2, <2>3, <2>4
<1>11. PendingWithin(os, server, u, t)
  <2> SUFFICES ASSUME NEW a \in DOMAIN server, NEW c \in server[a].rows
               PROVE  \E b \in DOMAIN t : c \in t[b].rows /\ IdsAt(os, server, a) = IdsAt(u, t, b)
    BY DEF PendingWithin
  <2>1. CASE a # i
    <3>1. PICK b \in 1..(top-1) : Before(i, b) = a
      BY <1>1, <2>1
    <3>2. b \in DOMAIN t /\ c \in t[b].rows
      BY <1>1, <1>2, <3>1
    <3> QED
      BY <1>9, <3>1, <3>2
  <2>2. CASE a = i
    <3>1. i # 0
      BY <1>2, <2>2
    <3>2. i - 1 \in DOMAIN t /\ c \in t[i - 1].rows
      BY <1>1, <1>2, <1>10, <2>2, <3>1
    <3> QED
      BY <1>9, <1>10, <2>2, <3>1, <3>2
  <2> QED
    BY <2>1, <2>2
<1>12. PendingWithin(u, t, os, server)
  <2> SUFFICES ASSUME NEW b \in DOMAIN t, NEW c \in t[b].rows
               PROVE  \E a \in DOMAIN server :
                        c \in server[a].rows /\ IdsAt(u, t, b) = IdsAt(os, server, a)
    BY DEF PendingWithin
  <2>1. b \in 1..(top-1)
    BY <1>1, <1>2 DEF NewLevel
  <2>2. CASE c \in server[Before(i, b)].rows
    BY <1>1, <1>9, <2>1, <2>2
  <2>3. CASE i # 0 /\ b = i - 1 /\ c \in server[i].rows
    BY <1>9, <1>10, <2>1, <2>3
  <2> QED
    BY <1>1, <2>1, <2>2, <2>3
<1> QED
  BY <1>11, <1>12, SamePending

(* ROLLBACK TO SAVEPOINT drops what was written since its scope began.     *)
LEMMA RollBackForgets ==
  ASSUME IsStack(server, Level), NEW n \in Names, NEW p \in DOMAIN server, server[p].name = n,
         NEW s, s = RolledBackTo(n),
         NEW os, NEW i \in DOMAIN os, ~os[i].rolledBack, os[i].name = n, UniqueIds(os),
         NEW d, d = os[i].id,
         NEW t, \A r, a : IdsAt(t, r, a) = IdsAt(os, r, a) \ {d},
         ScopesNamed(t, LevelNames(server, 1..(p-1)))
  PROVE  PendingOf(t, s) = Forget({r \in PendingOf(os, server) : d \notin r.within}, {d})
<1> DEFINE P == {r \in PendingOf(os, server) : d \notin r.within}
<1>1. /\ IsStack(s, Level) /\ Len(s) = p /\ s[p] = NewLevel(n)
      /\ \A a \in 1..(p-1) : s[a] = server[a]
      /\ \A a \in 1..p : s[a].name = server[a].name
  BY RolledBackToEffect
<1>2. /\ DOMAIN s = 1..p /\ DOMAIN server = 1..Len(server) /\ Len(server) \in Nat /\ p \in Nat
  BY <1>1 DEF IsStack
<1>3. LastNamed(server, n) = p
  BY LevelOf
<1>4. \A a \in DOMAIN server : d \in IdsAt(os, server, a) <=> p <= a
  <2> SUFFICES ASSUME NEW a \in DOMAIN server PROVE d \in IdsAt(os, server, a) <=> p <= a
    OBVIOUS
  <2>1. d \in IdsAt(os, server, a) <=>
          \E j : HasScope(os, j, d) /\ LastNamed(server, os[j].name) <= a
    BY InIdsAt
  <2>2. \A j : HasScope(os, j, d) <=> j = i
    BY DEF HasScope, UniqueIds
  <2> QED
    BY <1>3, <2>1, <2>2
<1>5. ASSUME NEW a \in 1..(p-1) PROVE IdsAt(t, s, a) = IdsAt(os, server, a) \ {d}
  <2>1. \A j, x : HasScope(t, j, x) => LastNamed(s, t[j].name) = LastNamed(server, t[j].name)
    <3> SUFFICES ASSUME NEW j, NEW x, HasScope(t, j, x)
                 PROVE  LastNamed(s, t[j].name) = LastNamed(server, t[j].name)
      OBVIOUS
    <3>1. PICK b \in 1..(p-1) : server[b].name = t[j].name
      BY DEF ScopesNamed, LevelNames
    <3>2. b \in DOMAIN server /\ b \in DOMAIN s /\ s[b].name = t[j].name
      BY <1>1, <1>2, <3>1
    <3>3. LastNamed(s, s[b].name) = b /\ LastNamed(server, server[b].name) = b
      BY <1>1, <3>2, LevelOf
    <3> QED
      BY <3>1, <3>2, <3>3
  <2>2. \A x : x \in IdsAt(t, s, a) <=> x \in IdsAt(t, server, a)
    <3> SUFFICES ASSUME NEW x PROVE x \in IdsAt(t, s, a) <=> x \in IdsAt(t, server, a)
      OBVIOUS
    <3>1. x \in IdsAt(t, s, a) <=> \E j : HasScope(t, j, x) /\ LastNamed(s, t[j].name) <= a
      BY InIdsAt
    <3>2. x \in IdsAt(t, server, a) <=> \E j : HasScope(t, j, x) /\ LastNamed(server, t[j].name) <= a
      BY InIdsAt
    <3> QED
      BY <2>1, <3>1, <3>2
  <2>3. IdsAt(t, s, a) = IdsAt(t, server, a)
    BY <2>2
  <2> QED
    BY <2>3
<1>6. ASSUME NEW a \in 1..(p-1), NEW c
      PROVE  Without(Pends(os, server, a, c), {d}) = Pends(t, s, a, c)
  BY <1>5, PendsForget
<1>7. \A r : r \in P <=>
        \E a \in DOMAIN server : \E c \in server[a].rows : a < p /\ r = Pends(os, server, a, c)
  <2>1. \A a, c : Pends(os, server, a, c).within = IdsAt(os, server, a)
    BY DEF Pends
  <2>2. \A r : r \in PendingOf(os, server) <=>
          \E a \in DOMAIN server : \E c \in server[a].rows : r = Pends(os, server, a, c)
    BY PendingIs
  <2>3. \A a \in DOMAIN server : d \notin IdsAt(os, server, a) <=> a < p
    BY <1>2, <1>4
  <2> QED
    BY <2>1, <2>2, <2>3
<1> HIDE DEF P
<1>8. \A r : r \in PendingOf(t, s) <=> \E a \in DOMAIN s : \E c \in s[a].rows : r = Pends(t, s, a, c)
  BY PendingIs
<1>9. \A r : r \in Forget(P, {d}) <=> \E q \in P : r = Without(q, {d})
  BY DEF Forget
<1>10. ASSUME NEW r \in PendingOf(t, s) PROVE r \in Forget(P, {d})
  <2>1. PICK a \in DOMAIN s : \E c \in s[a].rows : r = Pends(t, s, a, c)
    BY <1>8
  <2>2. PICK c \in s[a].rows : r = Pends(t, s, a, c)
    BY <2>1
  <2>3. a \in 1..(p-1) /\ a \in DOMAIN server /\ a < p
    BY <1>1, <1>2, <2>2 DEF NewLevel
  <2>4. c \in server[a].rows /\ r = Without(Pends(os, server, a, c), {d})
    BY <1>1, <1>6, <2>2, <2>3
  <2>5. Pends(os, server, a, c) \in P
    BY <1>7, <2>3, <2>4
  <2> QED
    BY <1>9, <2>4, <2>5
<1>11. ASSUME NEW r \in Forget(P, {d}) PROVE r \in PendingOf(t, s)
  <2>1. PICK q \in P : r = Without(q, {d})
    BY <1>9
  <2>2. PICK a \in DOMAIN server : \E c \in server[a].rows : a < p /\ q = Pends(os, server, a, c)
    BY <1>7
  <2>3. PICK c \in server[a].rows : a < p /\ q = Pends(os, server, a, c)
    BY <2>2
  <2>4. a \in 1..(p-1) /\ a \in DOMAIN s
    BY <1>2, <2>3
  <2>5. c \in s[a].rows
    BY <1>1, <2>3, <2>4
  <2>6. r = Pends(t, s, a, c)
    BY <1>6, <2>1, <2>3, <2>4
  <2> QED
    BY <1>8, <2>4, <2>5, <2>6
<1> QED
  BY <1>10, <1>11 DEF P

(* What is written belongs to all scopes.                                  *)
LEMMA WriteAdds ==
  ASSUME IsStack(server, Level), server # <<>>, NEW c \in Change, Write(c), NEW t, t = server',
         NEW os, ScopesNamed(os, LevelNames(server, DOMAIN server))
  PROVE  PendingOf(os, t) = PendingOf(os, server) \union {[change |-> c, within |-> ScopeIds(os)]}
<1> DEFINE top == Len(server)
<1>1. /\ IsStack(t, Level) /\ Len(t) = top /\ DOMAIN t = DOMAIN server
      /\ SameNames(t, server)
      /\ \A a \in DOMAIN server : t[a].rows = IF a = top THEN server[a].rows \union {c}
                                              ELSE server[a].rows
  BY WriteEffect
<1>2. top \in DOMAIN server /\ DOMAIN server = 1..top /\ top \in Nat
  BY DEF IsStack
<1> HIDE DEF top
<1>3. \A j, x : HasScope(os, j, x) =>
        /\ LastNamed(t, os[j].name) = LastNamed(server, os[j].name)
        /\ LastNamed(server, os[j].name) <= top
  <2> SUFFICES ASSUME NEW j, NEW x, HasScope(os, j, x)
               PROVE  /\ LastNamed(t, os[j].name) = LastNamed(server, os[j].name)
                      /\ LastNamed(server, os[j].name) <= top
    OBVIOUS
  <2>1. PICK b \in DOMAIN server : server[b].name = os[j].name
    BY DEF ScopesNamed, LevelNames
  <2>2. b \in DOMAIN t /\ t[b].name = os[j].name
    BY <1>1, <2>1 DEF SameNames
  <2>3. LastNamed(t, t[b].name) = b /\ LastNamed(server, server[b].name) = b
    BY <1>1, <2>1, <2>2, LevelOf
  <2> QED
    BY <1>2, <2>1, <2>2, <2>3
<1>4. ASSUME NEW a PROVE IdsAt(os, t, a) = IdsAt(os, server, a)
  <2> SUFFICES ASSUME NEW x PROVE x \in IdsAt(os, t, a) <=> x \in IdsAt(os, server, a)
    OBVIOUS
  <2>1. x \in IdsAt(os, t, a) <=> \E j : HasScope(os, j, x) /\ LastNamed(t, os[j].name) <= a
    BY InIdsAt
  <2>2. x \in IdsAt(os, server, a) <=> \E j : HasScope(os, j, x) /\ LastNamed(server, os[j].name) <= a
    BY InIdsAt
  <2> QED
    BY <1>3, <2>1, <2>2
<1>5. IdsAt(os, server, top) = ScopeIds(os)
  <2> SUFFICES ASSUME NEW x PROVE x \in IdsAt(os, server, top) <=> x \in ScopeIds(os)
    OBVIOUS
  <2>1. x \in IdsAt(os, server, top) <=> \E j : HasScope(os, j, x) /\ LastNamed(server, os[j].name) <= top
    BY InIdsAt
  <2>2. x \in ScopeIds(os) <=> \E j : HasScope(os, j, x)
    BY InScopeIds
  <2> QED
    BY <1>3, <2>1, <2>2
<1>6. \A a, d : Pends(os, t, a, d) = Pends(os, server, a, d)
  BY <1>4 DEF Pends
<1> DEFINE new == [change |-> c, within |-> ScopeIds(os)]
<1>7. Pends(os, server, top, c) = new
  BY <1>5 DEF Pends
<1> HIDE DEF new
<1>8. \A r : r \in PendingOf(os, t) <=> \E a \in DOMAIN t : \E d \in t[a].rows : r = Pends(os, t, a, d)
  BY PendingIs
<1>9. \A r : r \in PendingOf(os, server) <=>
        \E a \in DOMAIN server : \E d \in server[a].rows : r = Pends(os, server, a, d)
  BY PendingIs
<1>10. ASSUME NEW r \in PendingOf(os, t) PROVE r \in PendingOf(os, server) \union {new}
  <2>1. PICK a \in DOMAIN t : \E d \in t[a].rows : r = Pends(os, t, a, d)
    BY <1>8
  <2>2. PICK d \in t[a].rows : r = Pends(os, t, a, d)
    BY <2>1
  <2>3. d \in server[a].rows \/ (a = top /\ d = c)
    BY <1>1, <2>2
  <2> QED
    BY <1>1, <1>6, <1>7, <1>9, <2>2, <2>3
<1>11. ASSUME NEW r \in PendingOf(os, server) \union {new} PROVE r \in PendingOf(os, t)
  <2>1. CASE r = new
    <3>1. c \in t[top].rows /\ top \in DOMAIN t
      BY <1>1, <1>2
    <3> QED
      BY <1>6, <1>7, <1>8, <2>1, <3>1
  <2>2. CASE r \in PendingOf(os, server)
    <3>1. PICK a \in DOMAIN server : \E d \in server[a].rows : r = Pends(os, server, a, d)
      BY <1>9, <2>2
    <3>2. PICK d \in server[a].rows : r = Pends(os, server, a, d)
      BY <3>1
    <3>3. a \in DOMAIN t /\ d \in t[a].rows
      BY <1>1, <3>2
    <3> QED
      BY <1>6, <1>8, <3>2, <3>3
  <2> QED
    BY <2>1, <2>2
<1>12. PendingOf(os, t) = PendingOf(os, server) \union {new}
  BY <1>10, <1>11
<1> QED
  BY <1>12 DEF new

(* The scopes that are left have the layers that are left.                 *)
LayersLeft(ls, u, n) ==
  /\ \A l \in DOMAIN u : /\ l \in DOMAIN ls /\ u[l].name = ls[l].name
                         /\ u[l].active => ls[l].active /\ ls[l].name # n
  /\ \A l \in DOMAIN ls : ls[l].active /\ ls[l].name # n => l \in DOMAIN u /\ u[l].active

LEMMA ScopesLeft ==
  ASSUME NEW ls \in Seq(Layer), NEW os \in Seq(ObjectType), ScopesHaveLayers(os, ls, 0),
         NEW i \in DOMAIN os, ~os[i].rolledBack,
         NEW t \in Seq(ObjectType), NEW f, Left(os, t, i, f),
         NEW u \in Seq(Layer), LayersLeft(ls, u, os[i].name)
  PROVE  ScopesHaveLayers(t, u, 0)
<1>1. /\ 0 \in 0..Len(t) /\ DOMAIN t = 1..Len(t) /\ Len(t) \in Nat
      /\ DOMAIN os = 1..Len(os) /\ Len(os) \in Nat
  OBVIOUS
<1>2. \A k \in DOMAIN t : ScopeAfter(t, 0, k) =>
        f[k] \in DOMAIN os /\ f[k] # i /\ ScopeAfter(os, 0, f[k]) /\ t[k].name = os[f[k]].name
  BY <1>1 DEF Left, ScopeAfter
<1>3. \A m \in DOMAIN os : ScopeAfter(os, 0, m) /\ m # i =>
        \E k \in DOMAIN t : f[k] = m /\ ScopeAfter(t, 0, k)
  BY <1>1 DEF Left, ScopeAfter
<1>4. ASSUME NEW l \in DOMAIN u, u[l].active
      PROVE  \E k \in DOMAIN t : ScopeAfter(t, 0, k) /\ t[k].name = u[l].name
  <2>1. l \in DOMAIN ls /\ u[l].name = ls[l].name /\ ls[l].active /\ ls[l].name # os[i].name
    BY <1>4 DEF LayersLeft
  <2>2. PICK m \in DOMAIN os : ScopeAfter(os, 0, m) /\ os[m].name = ls[l].name
    BY <2>1 DEF ScopesHaveLayers
  <2>3. PICK k \in DOMAIN t : f[k] = m /\ ScopeAfter(t, 0, k)
    BY <1>3, <2>1, <2>2
  <2> QED
    BY <1>2, <2>1, <2>2, <2>3
<1>5. ASSUME NEW k \in DOMAIN t, ScopeAfter(t, 0, k)
      PROVE  \E l \in DOMAIN u : u[l].active /\ u[l].name = t[k].name
  <2> DEFINE m == f[k]
  <2>1. m \in DOMAIN os /\ m # i /\ ScopeAfter(os, 0, m) /\ t[k].name = os[m].name
    BY <1>2, <1>5
  <2> HIDE DEF m
  <2>2. PICK l \in DOMAIN ls : ls[l].active /\ ls[l].name = os[m].name
    BY <2>1 DEF ScopesHaveLayers
  <2>3. ScopeAfter(os, 0, i)
    BY <1>1 DEF ScopeAfter
  <2>4. os[m].name # os[i].name
    BY <2>1, <2>3, OtherScopeOtherLayer
  <2> QED
    BY <2>1, <2>2, <2>4 DEF LayersLeft
<1>6. ASSUME NEW a \in DOMAIN t, NEW b \in DOMAIN t, NEW l \in DOMAIN u, NEW m \in DOMAIN u,
             ScopeAfter(t, 0, a), ScopeAfter(t, 0, b), a < b,
             u[l].name = t[a].name, u[m].name = t[b].name
      PROVE  l < m
  <2> DEFINE x == f[a]
             y == f[b]
  <2>1. /\ x \in DOMAIN os /\ ScopeAfter(os, 0, x) /\ t[a].name = os[x].name
        /\ y \in DOMAIN os /\ ScopeAfter(os, 0, y) /\ t[b].name = os[y].name
        /\ x < y
    BY <1>2, <1>6 DEF Left
  <2> HIDE DEF x, y
  <2>2. l \in DOMAIN ls /\ m \in DOMAIN ls /\ ls[l].name = os[x].name /\ ls[m].name = os[y].name
    BY <1>6, <2>1 DEF LayersLeft
  <2> QED
    BY <2>1, <2>2 DEF ScopesHaveLayers
<1> QED
  BY <1>1, <1>4, <1>5, <1>6 DEF ScopesHaveLayers

(* Without DDL.                                                            *)
LEMMA ScopesAre ==
  ASSUME ~Ddl, TypeInv, ScopesInv
  PROVE  /\ objects \in Seq(ObjectType) /\ UniqueIds(objects)
         /\ IsStack(layers, Layer) /\ IsStack(server, Level) /\ Matches(layers, server)
         /\ NoneWaits(layers) /\ ScopesHaveLayers(objects, layers, 0)
         /\ layers = <<>> <=> server = <<>>
         /\ ScopeIds(objects) = {} <=> layers = <<>>
         /\ ScopesNamed(objects, LevelNames(server, DOMAIN server))
<1>1. /\ objects \in Seq(ObjectType) /\ UniqueIds(objects)
      /\ IsStack(layers, Layer) /\ IsStack(server, Level) /\ Matches(layers, server)
  BY DEF TypeInv
<1>2. NoneWaits(layers) /\ ScopesHaveLayers(objects, layers, 0)
  BY DEF ScopesInv, ScopesMatch, ScopesHaveLayers
<1>3. layers = <<>> <=> server = <<>>
  BY <1>1 DEF ScopesInv, Matches
<1>4. \A i, x : HasScope(objects, i, x) =>
        \E l \in DOMAIN layers : layers[l].name = objects[i].name
  <2> SUFFICES ASSUME NEW i, NEW x, HasScope(objects, i, x)
               PROVE  \E l \in DOMAIN layers : layers[l].name = objects[i].name
    OBVIOUS
  <2>1. i \in DOMAIN objects /\ ScopeAfter(objects, 0, i)
    BY <1>1 DEF HasScope, ScopeAfter
  <2> QED
    BY <1>2, <2>1 DEF ScopesHaveLayers
<1>5. ASSUME layers # <<>> PROVE ScopeIds(objects) # {}
  <2>1. Len(layers) \in DOMAIN layers /\ layers[Len(layers)].active
    BY <1>1, <1>2, <1>5 DEF NoneWaits, IsStack
  <2>2. PICK i \in DOMAIN objects : ScopeAfter(objects, 0, i)
    BY <1>2, <2>1 DEF ScopesHaveLayers
  <2>3. HasScope(objects, i, objects[i].id)
    BY <2>2 DEF HasScope, ScopeAfter
  <2> QED
    BY <2>3, InScopeIds
<1>6. ASSUME layers = <<>> PROVE ScopeIds(objects) = {}
  <2>1. \A x : x \notin ScopeIds(objects)
    BY <1>4, <1>6, InScopeIds
  <2> QED
    BY <2>1
<1>7. ScopesNamed(objects, LevelNames(server, DOMAIN server))
  <2> SUFFICES ASSUME NEW i, NEW x, HasScope(objects, i, x)
               PROVE  \E b \in DOMAIN server : server[b].name = objects[i].name
    BY DEF ScopesNamed, LevelNames
  <2>1. PICK l \in DOMAIN layers : layers[l].name = objects[i].name
    BY <1>4
  <2>2. server # <<>>
    BY <1>3, <2>1
  <2> QED
    BY <1>1, <2>1, <2>2 DEF Matches
<1> QED
  BY <1>1, <1>2, <1>3, <1>5, <1>6, <1>7

(* The promise's actions in terms of its mapped variables.                 *)
LEMMA PromisedBegin ==
  ASSUME NEW o \in Object, o \notin ScopeIds(objects),
         ScopeIds(objects') = ScopeIds(objects) \union {o},
         AroundOf(objects') = [AroundOf(objects) EXCEPT ![o] = ScopeIds(objects)],
         PendingOf(objects', server') = PendingOf(objects, server),
         UNCHANGED <<rows, callbacks, told>>
  PROVE  Promise!Begin(o)
<1>1. /\ o \notin PromisedLive /\ PromisedLive' = PromisedLive \union {o}
      /\ PromisedAround' = [PromisedAround EXCEPT ![o] = PromisedLive]
      /\ PromisedPending' = PromisedPending
  BY MappingIs, MappingMoves
<1> QED
  BY <1>1 DEF Promise!Begin, PromisedLive, PromisedAround, PromisedPending

(* What becomes of the changes rest that outlive scope o.                  *)
Outcome(o, rest) ==
  IF ScopeIds(objects') = {}
  THEN /\ PendingOf(objects', server') = {}
       /\ \/ rows' = rows \union {r.change : r \in rest} /\ Tell("committed")
          \/ UNCHANGED rows /\ Tell("failed")
  ELSE /\ PendingOf(objects', server') = Forget(rest, {o})
       /\ UNCHANGED <<rows, callbacks, told>>

LEMMA PromisedClose ==
  ASSUME NEW o, NEW rest,
         ScopeIds(objects') = ScopeIds(objects) \ {o},
         AroundOf(objects') = AroundWithout(objects, {o}),
         Outcome(o, rest)
  PROVE  Promise!Close(o, rest)
<1> DEFINE L == PromisedLive'
           A == PromisedAround'
           P == PromisedPending'
<1>1. /\ L = PromisedLive \ {o}
      /\ A = [u \in Object |-> IF u = o THEN {} ELSE PromisedAround[u] \ {o}]
      /\ IF L = {}
         THEN /\ P = {}
              /\ \/ rows' = rows \union {r.change : r \in rest} /\ Tell("committed")
                 \/ UNCHANGED rows /\ Tell("failed")
         ELSE /\ P = {[r EXCEPT !.within = @ \ {o}] : r \in rest}
              /\ UNCHANGED <<rows, callbacks, told>>
  <2>1. L = PromisedLive \ {o} /\ L = ScopeIds(objects')
    BY MappingIs, MappingMoves
  <2>2. A = [u \in Object |-> IF u = o THEN {} ELSE PromisedAround[u] \ {o}]
    BY MappingIs, MappingMoves DEF AroundWithout
  <2>3. P = PendingOf(objects', server')
    BY MappingMoves
  <2>4. Forget(rest, {o}) = {[r EXCEPT !.within = @ \ {o}] : r \in rest}
    BY DEF Forget, Without
  <2> QED
    BY <2>1, <2>2, <2>3, <2>4 DEF Outcome
<1> QED
  BY <1>1 DEF Promise!Close, Promise!Tell, Tell, PromisedLive, PromisedAround, PromisedPending

ChangesOf(P) == {r.change : r \in P}

LEMMA ForgetChanges ==
  ASSUME NEW os, NEW s, NEW P, P \subseteq PendingOf(os, s), NEW gone
  PROVE  ChangesOf(Forget(P, gone)) = ChangesOf(P)
<1>1. ASSUME NEW r \in P PROVE Without(r, gone).change = r.change
  <2>1. PICK a \in DOMAIN s : \E c \in s[a].rows : r = Pends(os, s, a, c)
    BY PendingIs
  <2>2. PICK c \in s[a].rows : r = Pends(os, s, a, c)
    BY <2>1
  <2> QED
    BY <2>2 DEF Pends, Without
<1>2. \A q : q \in Forget(P, gone) <=> \E r \in P : q = Without(r, gone)
  BY DEF Forget
<1> DEFINE C == {r.change : r \in Forget(P, gone)}
           D == {r.change : r \in P}
<1>3. \A c : c \in C <=> \E q \in Forget(P, gone) : c = q.change
  OBVIOUS
<1>4. \A c : c \in D <=> \E r \in P : c = r.change
  OBVIOUS
<1> HIDE DEF C, D
<1>5. \A c : c \in C => c \in D
  BY <1>1, <1>2, <1>3, <1>4
<1>6. \A c : c \in D => c \in C
  <2> SUFFICES ASSUME NEW r \in P PROVE r.change \in C
    BY <1>4
  <2>1. Without(r, gone) \in Forget(P, gone)
    BY <1>2
  <2> QED
    BY <1>1, <1>3, <2>1
<1>7. C = D
  BY <1>5, <1>6
<1> QED
  BY <1>7 DEF C, D, ChangesOf

LEMMA StartPromised ==
  ASSUME ~Ddl, TypeInv, ScopesInv, NEW o \in Object, NEW n \in Given \union {Root},
         StartTransaction(o, n)
  PROVE  Promise!Begin(o)
<1> DEFINE depth == Len(layers)
           name  == IF depth = 0 THEN Root ELSE IF n = Root THEN depth ELSE n
           obj   == [id |-> o, name |-> name, rolledBack |-> FALSE]
<1>1. /\ objects \in Seq(ObjectType) /\ layers \in Seq(Layer) /\ depth \in Nat
      /\ IsStack(layers, Layer) /\ IsStack(server, Level) /\ Matches(layers, server)
      /\ layers = <<>> <=> server = <<>>
      /\ ScopesHaveLayers(objects, layers, 0)
      /\ ScopesNamed(objects, LevelNames(server, DOMAIN server))
  BY ScopesAre DEF IsStack
<1>2. /\ ~IsLayer(name) /\ \A i \in DOMAIN objects : objects[i].id # o
      /\ IF depth = 0 THEN server' = <<NewLevel(Root)>> ELSE SetSavepoint(name)
      /\ objects' = Append(objects, obj)
      /\ UNCHANGED <<rows, callbacks, told>>
  BY DEF StartTransaction, NewLevel
<1>3. /\ name \in Names /\ obj \in ObjectType /\ obj.id = o /\ obj.name = name /\ ~obj.rolledBack
  <2>1. name \in Names
    BY <1>1 DEF Names, Root
  <2> HIDE DEF name
  <2> QED
    BY <2>1 DEF ObjectType
<1> HIDE DEF obj
<1>4. /\ o \notin ScopeIds(objects) /\ ScopeIds(objects') = ScopeIds(objects) \union {o}
      /\ AroundOf(objects') = [AroundOf(objects) EXCEPT ![o] = ScopeIds(objects)]
  <2>1. \A i \in DOMAIN objects : objects[i].id # obj.id
    BY <1>2, <1>3
  <2>2. /\ obj.id \notin ScopeIds(objects) /\ ScopeIds(objects') = ScopeIds(objects) \union {obj.id}
        /\ AroundOf(objects') = [AroundOf(objects) EXCEPT ![obj.id] = ScopeIds(objects)]
    BY <1>1, <1>2, <1>3, <2>1, ScopeBegins
  <2> QED
    BY <1>3, <2>2
<1>5. PendingOf(objects', server') = PendingOf(objects, server)
  <2>1. CASE depth = 0
    <3>1. server = <<>> /\ server' = <<NewLevel(Root)>>
      BY <1>1, <1>2, <2>1
    <3>2. PendingOf(objects, <<>>) = {}
      BY PendingIs
    <3>3. PendingOf(objects', <<NewLevel(Root)>>) = {}
      <4>1. \A a \in DOMAIN <<NewLevel(Root)>> : <<NewLevel(Root)>>[a].rows = {}
        BY DEF NewLevel
      <4> QED
        BY <4>1, PendingIs
    <3> QED
      BY <3>1, <3>2, <3>3
  <2>2. CASE depth # 0
    <3>1. server # <<>> /\ SetSavepoint(name) /\ layers # <<>> /\ 1 \in DOMAIN layers
      BY <1>1, <1>2, <2>2
    <3>2. \A l \in DOMAIN layers : layers[l].name # name
      BY <1>2 DEF IsLayer
    <3>3. server[1].name # name
      BY <1>1, <3>1, <3>2 DEF Matches
    <3>4. ScopesNamed(objects, LevelNames(server, DOMAIN server) \ {name})
      <4>1. ASSUME NEW i, NEW x, HasScope(objects, i, x) PROVE objects[i].name # name
        <5>1. i \in DOMAIN objects /\ ScopeAfter(objects, 0, i)
          BY <1>1, <4>1 DEF HasScope, ScopeAfter
        <5> QED
          BY <1>1, <3>2, <5>1 DEF ScopesHaveLayers
      <4> QED
        BY <1>1, <4>1 DEF ScopesNamed
    <3> HIDE DEF name
    <3> QED
      BY <1>1, <1>2, <1>3, <3>1, <3>3, <3>4, SavepointKeepsPending, ZenonT(40)
  <2> QED
    BY <2>1, <2>2
<1> QED
  BY <1>2, <1>4, <1>5, PromisedBegin

(* The destructor of a scope.                                              *)
LEMMA DestructPromised ==
  ASSUME ~Ddl, TypeInv, ScopesInv, NEW i \in DOMAIN objects, ~objects[i].rolledBack, Destruct(i),
         NEW d, d = objects[i].id
  PROVE  Promise!End(d)
<1>0. PICK n, os, ls, rest : /\ n = objects[i].name /\ os = objects' /\ ls = Deactivate(n)
                             /\ rest = PendingOf(objects, server)
  OBVIOUS
<1>1. /\ objects \in Seq(ObjectType) /\ UniqueIds(objects)
      /\ IsStack(layers, Layer) /\ IsStack(server, Level) /\ Matches(layers, server)
      /\ layers = <<>> <=> server = <<>>
  BY ScopesAre
<1>2. layers \in Seq(Layer) /\ server \in Seq(Level)
  BY <1>1 DEF IsStack
<1>3. ScopesHaveLayers(objects, layers, 0)
  BY ScopesAre
<1>4. HasScope(objects, i, d)
  BY DEF HasScope
<1>5. IsLayer(n) /\ layers # <<>>
  <2>1. ScopeAfter(objects, 0, i)
    BY <1>1 DEF ScopeAfter
  <2>2. \E l \in DOMAIN layers : layers[l].active /\ layers[l].name = objects[i].name
    BY <1>3, <2>1 DEF ScopesHaveLayers
  <2> QED
    BY <1>0, <1>2, <2>2 DEF IsLayer
<1>6. os = RemoveAt(objects, i) /\ PopCommittable(Deactivate(objects[i].name), server)
  BY <1>0, <1>5 DEF Destruct
<1>7. PopCommittable(ls, server)
  BY <1>0, <1>6 DEF PopCommittable
<1>8. os \in Seq(ObjectType)
  BY <1>1, <1>6, ObjectRemoved
<1>9. PICK f : Left(objects, os, i, f)
  BY <1>1, <1>6, RemovedLeft
<1>10. /\ ScopeIds(os) = ScopeIds(objects) \ {d}
       /\ AroundOf(os) = AroundWithout(objects, {d})
       /\ \A s, a : IdsAt(os, s, a) = IdsAt(objects, s, a) \ {d}
  <2>1. ScopeEnded(objects, os, Gone(objects, i))
    BY <1>1, <1>9, ScopeEnds
  <2>2. Gone(objects, i) = {d}
    BY DEF Gone
  <2> QED
    BY <2>1, <2>2 DEF ScopeEnded
<1>11. /\ IsStack(ls, Layer) /\ Len(ls) = Len(layers) /\ DOMAIN ls = DOMAIN layers
       /\ \A l \in DOMAIN layers : /\ ls[l].name = layers[l].name
                                   /\ ls[l].active <=> layers[l].active /\ layers[l].name # n
  BY <1>0, <1>1, DeactivateEffect
<1>12. ls \in Seq(Layer) /\ ls # <<>> /\ Matches(ls, server)
  <2>1. ls \in Seq(Layer) /\ ls # <<>>
    BY <1>2, <1>5, <1>11 DEF IsStack
  <2>2. Matches(ls, server)
    BY <1>1, <1>11, SameNamesMatch
  <2> QED
    BY <2>1, <2>2
<1>13. ScopesHaveLayers(os, ls, 0)
  <2>1. LayersLeft(layers, ls, objects[i].name)
    BY <1>0, <1>11 DEF LayersLeft
  <2> QED
    BY <1>1, <1>2, <1>3, <1>8, <1>9, <1>12, <2>1, ScopesLeft
<1>14. PendingOf(os, server) = Forget(rest, {d})
  BY <1>0, <1>10, PendingForgets
<1>15. IF ScopeIds(os) = {}
       THEN /\ PendingOf(os, server') = {}
            /\ \/ rows' = rows \union Unsaved(server) /\ Tell("committed")
               \/ UNCHANGED rows /\ Tell("failed")
       ELSE /\ PendingOf(os, server') = PendingOf(os, server)
            /\ UNCHANGED <<rows, callbacks, told>>
  BY <1>1, <1>5, <1>7, <1>8, <1>11, <1>12, <1>13, PopCloses
<1>16. Unsaved(server) = {r.change : r \in rest}
  BY <1>0, <1>2, ChangesPending
<1>17. Promise!Close(d, rest)
  <2>1. /\ ScopeIds(objects') = ScopeIds(objects) \ {d}
        /\ AroundOf(objects') = AroundWithout(objects, {d})
    BY <1>0, <1>10
  <2>2. Outcome(d, rest)
    BY <1>0, <1>14, <1>15, <1>16 DEF Outcome
  <2> QED
    BY <2>1, <2>2, PromisedClose
<1>18. d \in PromisedLive /\ PromisedPending = rest
  BY <1>0, <1>4, InScopeIds, MappingIs
<1> QED
  BY <1>17, <1>18 DEF Promise!End, Promise!Close, PromisedLive, PromisedPending

(* The destructor of an object that was rolled back.                       *)
LEMMA GonePromised ==
  ASSUME ~Ddl, TypeInv, ScopesInv, NEW i \in DOMAIN objects, objects[i].rolledBack, Destruct(i)
  PROVE  UNCHANGED Promise!apiVars
<1>0. PICK os : os = objects'
  OBVIOUS
<1>1. objects \in Seq(ObjectType) /\ UniqueIds(objects)
  BY ScopesAre
<1>2. os = RemoveAt(objects, i) /\ UNCHANGED <<server, rows, callbacks, told>>
  BY <1>0 DEF Destruct
<1>3. PICK f : Left(objects, os, i, f)
  BY <1>1, <1>2, RemovedLeft
<1>4. ScopeEnded(objects, os, {})
  <2>1. ScopeEnded(objects, os, Gone(objects, i))
    BY <1>1, <1>3, ScopeEnds
  <2> QED
    BY <2>1 DEF Gone
<1>5. ScopeIds(os) = ScopeIds(objects)
  BY <1>4 DEF ScopeEnded
<1>6. AroundOf(os) = AroundOf(objects)
  <2>1. \A u \in Object : AroundWithout(objects, {})[u] = AroundOf(objects)[u]
    BY DEF AroundWithout
  <2>2. AroundWithout(objects, {}) = [u \in Object |-> AroundWithout(objects, {})[u]]
    BY DEF AroundWithout
  <2> QED
    BY <1>4, <2>1, <2>2, AroundIs DEF ScopeEnded
<1>7. PendingOf(os, server) = PendingOf(objects, server)
  BY <1>4, PendingStays DEF ScopeEnded
<1>8. /\ PromisedLive' = PromisedLive /\ PromisedAround' = PromisedAround
      /\ PromisedPending' = PromisedPending
  BY <1>0, <1>2, <1>5, <1>6, <1>7, MappingIs, MappingMoves
<1> QED
  BY <1>2, <1>8 DEF Promise!apiVars, PromisedLive, PromisedAround, PromisedPending

LEMMA RollBackPromised ==
  ASSUME ~Ddl, ~RollBackAny, TypeInv, ScopesInv, NEW i \in DOMAIN objects, RollBack(i),
         NEW d, d = objects[i].id
  PROVE  Promise!Undo(d)
<1>0. PICK n, os, top, left, rest :
        /\ n = objects[i].name /\ os = objects' /\ top = Len(layers)
        /\ left = Under(layers, top)
        /\ rest = {r \in PendingOf(objects, server) : d \notin r.within}
  OBVIOUS
<1>1. /\ objects \in Seq(ObjectType) /\ UniqueIds(objects)
      /\ IsStack(layers, Layer) /\ IsStack(server, Level) /\ Matches(layers, server)
      /\ layers = <<>> <=> server = <<>>
  BY ScopesAre
<1>2. layers \in Seq(Layer) /\ server \in Seq(Level) /\ UniqueNames(layers)
  BY <1>1 DEF IsStack
<1>3. ScopesHaveLayers(objects, layers, 0) /\ NoneWaits(layers)
  BY ScopesAre
<1>4. ~objects[i].rolledBack /\ \A j \in DOMAIN objects : j > i => objects[j].rolledBack
  BY DEF RollBack, MayRollBack
<1>5. HasScope(objects, i, d) /\ ScopeAfter(objects, 0, i)
  BY <1>1, <1>4 DEF HasScope, ScopeAfter
<1>6. top \in DOMAIN layers /\ layers[top].name = n /\ layers[top].active
  <2>1. /\ Len(layers) \in DOMAIN layers /\ layers[Len(layers)].name = objects[i].name
        /\ layers[Len(layers)].active
    BY <1>1, <1>3, <1>4, <1>5, InnermostLayer
  <2> QED
    BY <1>0, <2>1
<1>7. IsLayer(n) /\ Open
  BY <1>1, <1>2, <1>6 DEF IsLayer, Open
<1>8. StopsAt(n) = top
  <2>1. PICK stop : stop = StopsAt(n)
    OBVIOUS
  <2>2. stop \in DOMAIN layers /\ \A j \in DOMAIN layers : j > stop => layers[j].name # n
    BY <1>1, <1>7, <2>1, StopsAtIs
  <2> QED
    BY <1>0, <1>2, <1>6, <2>1, <2>2
<1>9. /\ os = RolledBackAt(objects, i)
      /\ \/ /\ left # <<>>
            /\ PopCommittable(left, RolledBackTo(n))
         \/ /\ left = <<>>
            /\ server' = <<>> /\ Tell("failed") /\ UNCHANGED rows
  <2>1. /\ os = RolledBackAt(objects, i)
        /\ \/ /\ Under(layers, StopsAt(objects[i].name)) # <<>>
              /\ PopCommittable(Under(layers, StopsAt(objects[i].name)),
                                RolledBackTo(objects[i].name))
           \/ /\ Under(layers, StopsAt(objects[i].name)) = <<>>
              /\ server' = <<>> /\ Tell("failed") /\ UNCHANGED rows
    BY <1>0, <1>6, <1>7, <1>8 DEF RollBack, RolledBackAt, Under
  <2>2. left = Under(layers, StopsAt(objects[i].name))
    BY <1>0, <1>8
  <2>3. RolledBackTo(objects[i].name) = RolledBackTo(n)
    BY <1>0
  <2> QED
    BY <2>1, <2>2, <2>3 DEF PopCommittable
<1>10. os \in Seq(ObjectType)
  BY <1>1, <1>9, ObjectRolledBack
<1>11. PICK f : Left(objects, os, i, f)
  BY <1>1, <1>9, RolledBackLeft
<1>12. ScopeEnded(objects, os, {d})
  <2>1. ScopeEnded(objects, os, Gone(objects, i))
    BY <1>1, <1>11, ScopeEnds
  <2>2. Gone(objects, i) = {d}
    BY <1>4 DEF Gone
  <2> QED
    BY <2>1, <2>2
<1>13. /\ left \in Seq(Layer) /\ DOMAIN left = 1..(top - 1)
       /\ \A q \in 1..(top-1) : q \in DOMAIN layers /\ q < top /\ left[q] = layers[q]
  BY <1>0, <1>2, <1>6 DEF Under
<1>14. ScopesHaveLayers(os, left, 0)
  <2>1. \A q \in DOMAIN layers : layers[q].name # n => q \in DOMAIN left
    BY <1>0, <1>2, <1>6, <1>13
  <2>2. \A q \in DOMAIN left : layers[q].name # n
    BY <1>2, <1>6, <1>13 DEF UniqueNames
  <2>3. LayersLeft(layers, left, objects[i].name)
    BY <1>0, <1>13, <2>1, <2>2 DEF LayersLeft
  <2> QED
    BY <1>1, <1>2, <1>3, <1>4, <1>10, <1>11, <1>13, <2>3, ScopesLeft
<1>15. PICK s : s = RolledBackTo(n)
  OBVIOUS
<1>16. PICK p \in DOMAIN server : server[p].name = n
  BY <1>1, <1>2, <1>6, <1>7 DEF Matches, Open
<1>17. n \in Names
  <2>1. layers[top] \in Layer
    BY <1>2, <1>6
  <2> QED
    BY <1>6, <2>1 DEF Layer
<1>18. ScopesNamed(os, LevelNames(server, 1..(p-1)))
  <2> SUFFICES ASSUME NEW j, NEW x, HasScope(os, j, x)
               PROVE  \E b \in 1..(p-1) : server[b].name = os[j].name
    BY DEF ScopesNamed, LevelNames
  <2>1. j \in DOMAIN os /\ ScopeAfter(os, 0, j)
    BY <1>10 DEF HasScope, ScopeAfter
  <2>2. PICK l \in DOMAIN left : left[l].name = os[j].name
    BY <1>14, <2>1 DEF ScopesHaveLayers
  <2>3. l \in DOMAIN layers /\ l < top /\ layers[l].name = os[j].name
    BY <1>13, <2>2
  <2>4. PICK b \in DOMAIN server : server[b].name = os[j].name
    BY <1>1, <1>7, <2>3 DEF Matches, Open
  <2>5. b < p
    BY <1>1, <1>6, <1>7, <1>16, <2>3, <2>4 DEF Matches, Open
  <2>6. b \in 1..(p-1)
    BY <1>2, <1>16, <2>4, <2>5
  <2> QED
    BY <2>4, <2>6
<1>19. PendingOf(os, s) = Forget(rest, {d})
  <2>1. \A r, a : IdsAt(os, r, a) = IdsAt(objects, r, a) \ {d}
    BY <1>12 DEF ScopeEnded
  <2>2. objects[i].name = n
    BY <1>0
  <2> QED
    BY <1>0, <1>1, <1>4, <1>15, <1>16, <1>17, <1>18, <2>1, <2>2, RollBackForgets, SMTT(30)
<1>20. Unsaved(s) = {r.change : r \in rest} /\ IsStack(s, Level) /\ s # <<>>
  <2>1. IsStack(s, Level) /\ Len(s) = p
    BY <1>1, <1>15, <1>16, <1>17, RolledBackToEffect
  <2>2. s \in Seq(Level) /\ s # <<>>
    BY <1>2, <1>16, <2>1 DEF IsStack
  <2>3. Unsaved(s) = ChangesOf(Forget(rest, {d}))
    BY <1>19, <2>2, ChangesPending DEF ChangesOf
  <2>4. rest \subseteq PendingOf(objects, server)
    BY <1>0
  <2>5. ChangesOf(Forget(rest, {d})) = ChangesOf(rest)
    BY <2>4, ForgetChanges
  <2> QED
    BY <2>1, <2>2, <2>3, <2>5 DEF ChangesOf
<1>21. Outcome(d, rest)
  <2>1. CASE left # <<>> /\ PopCommittable(left, RolledBackTo(n))
    <3>1. /\ IsStack(left, Layer) /\ IsStack(RolledBackTo(n), Level)
          /\ Matches(left, RolledBackTo(n))
      BY <1>0, <1>1, <1>6, <1>7, <2>1, RollBackMatches
    <3>2. PopCommittable(left, s)
      BY <1>15, <2>1 DEF PopCommittable
    <3>3. IF ScopeIds(os) = {}
          THEN /\ PendingOf(os, server') = {}
               /\ \/ rows' = rows \union Unsaved(s) /\ Tell("committed")
                  \/ UNCHANGED rows /\ Tell("failed")
          ELSE /\ PendingOf(os, server') = PendingOf(os, s)
               /\ UNCHANGED <<rows, callbacks, told>>
      BY <1>10, <1>14, <1>15, <1>20, <2>1, <3>1, <3>2, PopCloses
    <3> QED
      BY <1>0, <1>19, <1>20, <3>3 DEF Outcome
  <2>2. CASE left = <<>> /\ server' = <<>> /\ Tell("failed") /\ UNCHANGED rows
    <3>1. ScopeIds(os) = {}
      <4>1. \A j, x : ~HasScope(os, j, x)
        <5> SUFFICES ASSUME NEW j, NEW x, HasScope(os, j, x) PROVE FALSE
          OBVIOUS
        <5>1. j \in DOMAIN os /\ ScopeAfter(os, 0, j)
          BY <1>10 DEF HasScope, ScopeAfter
        <5> QED
          BY <1>14, <2>2, <5>1 DEF ScopesHaveLayers
      <4> QED
        BY <4>1, InScopeIds
    <3>2. PendingOf(os, <<>>) = {}
      BY PendingIs
    <3> QED
      BY <1>0, <2>2, <3>1, <3>2 DEF Outcome
  <2> QED
    BY <1>9, <2>1, <2>2
<1>22. Promise!Close(d, rest)
  BY <1>0, <1>12, <1>21, PromisedClose DEF ScopeEnded
<1>23. /\ d \in PromisedLive /\ rest = {r \in PromisedPending : d \notin r.within}
  BY <1>0, <1>5, InScopeIds, MappingIs
<1>24. \A u \in PromisedLive : u \in Object /\ d \notin PromisedAround[u]
  <2> SUFFICES ASSUME NEW u \in ScopeIds(objects) PROVE u \in Object /\ d \notin AroundOf(objects)[u]
    BY MappingIs
  <2>1. u \in Object
    <3>1. PICK j : HasScope(objects, j, u)
      BY InScopeIds
    <3>2. objects[j] \in ObjectType /\ objects[j].id = u
      BY <1>1, <3>1 DEF HasScope
    <3> QED
      BY <3>2 DEF ObjectType
  <2>2. ASSUME d \in AroundOf(objects)[u] PROVE FALSE
    <3>1. PICK k, j : HasScope(objects, k, u) /\ HasScope(objects, j, d) /\ j < k
      BY <2>1, <2>2, InAround
    <3>2. j = i
      BY <1>1, <1>5, <3>1 DEF HasScope, UniqueIds
    <3> QED
      BY <1>1, <1>4, <3>1, <3>2 DEF HasScope
  <2> QED
    BY <2>1, <2>2
<1> QED
  BY <1>22, <1>23, <1>24 DEF Promise!Undo, Promise!Close, PromisedLive, PromisedAround, PromisedPending

LEMMA WritePromised ==
  ASSUME ~Ddl, TypeInv, ScopesInv, NEW c \in Change, Write(c)
  PROVE  Promise!Make(c)
<1>1. /\ IsStack(server, Level) /\ server \in Seq(Level)
      /\ layers = <<>> <=> server = <<>>
      /\ ScopeIds(objects) = {} <=> layers = <<>>
      /\ ScopesNamed(objects, LevelNames(server, DOMAIN server))
  BY ScopesAre DEF IsStack
<1>2. /\ c \notin rows \union Unsaved(server)
      /\ UNCHANGED <<objects, callbacks, told>>
      /\ IF server # <<>> THEN UNCHANGED rows ELSE rows' = rows \union {c} /\ UNCHANGED server
  BY DEF Write, Open
<1>3. /\ ScopeIds(objects') = ScopeIds(objects) /\ AroundOf(objects') = AroundOf(objects)
      /\ PendingOf(objects', server') = PendingOf(objects, server')
  BY <1>2
<1>4. Unsaved(server) = ChangesOf(PromisedPending)
  BY <1>1, ChangesPending, MappingIs DEF ChangesOf
<1>5. IF PromisedLive = {}
      THEN rows' = rows \union {c} /\ PromisedPending' = PromisedPending
      ELSE /\ PromisedPending' = PromisedPending \union {[change |-> c, within |-> PromisedLive]}
           /\ UNCHANGED rows
  <2>1. CASE server = <<>>
    BY <1>1, <1>2, <1>3, <2>1, MappingIs, MappingMoves
  <2>2. CASE server # <<>>
    <3>1. PendingOf(objects, server') =
            PendingOf(objects, server) \union {[change |-> c, within |-> ScopeIds(objects)]}
      BY <1>1, <2>2, WriteAdds
    <3> QED
      BY <1>1, <1>2, <1>3, <2>2, <3>1, MappingIs, MappingMoves
  <2> QED
    BY <2>1, <2>2
<1>6. PromisedLive' = PromisedLive /\ PromisedAround' = PromisedAround
  BY <1>3, MappingIs, MappingMoves
<1> QED
  BY <1>2, <1>4, <1>5, <1>6
  DEF Promise!Make, Promise!Changes, ChangesOf, PromisedLive, PromisedAround, PromisedPending

LEMMA AskPromised ==
  ASSUME ~Ddl, TypeInv, ScopesInv, NEW c \in Callback, AddCallback(c)
  PROVE  Promise!Ask(c)
<1>1. layers # <<>> /\ UNCHANGED <<objects, server, rows, told>> /\ callbacks' = callbacks \union {c}
  BY DEF AddCallback, InTransaction
<1>2. ScopeIds(objects) # {}
  BY <1>1, ScopesAre
<1>3. PromisedLive # {}
  BY <1>2, MappingIs
<1>4. /\ PromisedLive' = PromisedLive /\ PromisedAround' = PromisedAround
      /\ PromisedPending' = PromisedPending
  BY <1>1, MappingIs, MappingMoves
<1> QED
  BY <1>1, <1>3, <1>4 DEF Promise!Ask, PromisedLive, PromisedAround, PromisedPending

(* The layers and savepoints implement the promise of NestedTransactions:  *)
(* every call maps to Begin, End, Undo, Make or Ask of it, or changes      *)
(* nothing there.  So a change is saved if and only if no scope that was   *)
(* open when it was made was undone, and only when the last scope ends.    *)
THEOREM PromiseKept ==
  ASSUME ~Ddl, ~RollBackAny
  PROVE  Spec => PromiseSpec
<1>1. Init => Promise!Init
  <2> SUFFICES ASSUME Init PROVE Promise!Init
    OBVIOUS
  <2>1. \A x : x \notin ScopeIds(<<>>)
    BY InScopeIds DEF HasScope
  <2>2. PromisedLive = {} /\ PromisedPending = {}
    <3>1. PendingOf(<<>>, <<>>) = {}
      BY PendingIs
    <3> QED
      BY <2>1, <3>1, MappingIs DEF Init
  <2>3. PromisedAround = [o \in Object |-> {}]
    <3>1. ASSUME NEW o \in Object PROVE AroundOf(<<>>)[o] = {}
      BY InAround DEF HasScope
    <3>2. AroundOf(<<>>) = [o \in Object |-> AroundOf(<<>>)[o]]
      BY AroundIs
    <3> QED
      BY <3>1, <3>2, MappingIs DEF Init
  <2> QED
    BY <2>2, <2>3 DEF Init, Promise!Init, PromisedLive, PromisedAround, PromisedPending
<1>2. TypeInv /\ ScopesInv /\ [Next]_vars => [Promise!Next]_(Promise!apiVars)
  <2> SUFFICES ASSUME TypeInv, ScopesInv, [Next]_vars
               PROVE  Promise!Next \/ UNCHANGED Promise!apiVars
    OBVIOUS
  <2>1. ASSUME NEW o \in Object, NEW n \in Given \union {Root}, StartTransaction(o, n)
        PROVE  Promise!Next
    BY <2>1, StartPromised DEF Promise!Next
  <2>2. ASSUME NEW i \in DOMAIN objects, Destruct(i)
        PROVE  Promise!Next \/ UNCHANGED Promise!apiVars
    <3>0. objects[i].id \in Object
      <4>1. objects[i] \in ObjectType
        BY DEF TypeInv
      <4> QED
        BY <4>1 DEF ObjectType
    <3>1. PICK d \in Object : d = objects[i].id
      BY <3>0
    <3>2. CASE objects[i].rolledBack
      BY <2>2, <3>2, GonePromised
    <3>3. CASE ~objects[i].rolledBack
      <4>1. Promise!End(d)
        BY <2>2, <3>1, <3>3, DestructPromised
      <4> QED
        BY <4>1 DEF Promise!Next
    <3> QED
      BY <3>2, <3>3
  <2>3. ASSUME NEW i \in DOMAIN objects, RollBack(i) PROVE Promise!Next
    <3>0. objects[i].id \in Object
      <4>1. objects[i] \in ObjectType
        BY DEF TypeInv
      <4> QED
        BY <4>1 DEF ObjectType
    <3>1. PICK d \in Object : d = objects[i].id
      BY <3>0
    <3>2. Promise!Undo(d)
      BY <2>3, <3>1, RollBackPromised
    <3> QED
      BY <3>2 DEF Promise!Next
  <2>4. ASSUME NEW c \in Change, Write(c) PROVE Promise!Next
    BY <2>4, WritePromised DEF Promise!Next
  <2>5. ASSUME NEW c \in Callback, AddCallback(c) PROVE Promise!Next
    BY <2>5, AskPromised DEF Promise!Next
  <2>6. CASE AlterTable
    BY <2>6 DEF AlterTable
  <2>7. CASE UNCHANGED vars
    <3>1. UNCHANGED <<objects, server, rows, callbacks, told>>
      BY <2>7 DEF vars
    <3>2. /\ PromisedLive' = PromisedLive /\ PromisedAround' = PromisedAround
          /\ PromisedPending' = PromisedPending
      BY <3>1, MappingIs, MappingMoves
    <3> QED
      BY <3>1, <3>2 DEF Promise!apiVars, PromisedLive, PromisedAround, PromisedPending
  <2> QED
    BY <2>1, <2>2, <2>3, <2>4, <2>5, <2>6, <2>7 DEF Next
<1>3. Orderly
  BY DEF Orderly
<1> QED
  BY <1>1, <1>2, <1>3, ScopesHold, PTL DEF Spec, PromiseSpec, Promise!Spec
=============================================================================

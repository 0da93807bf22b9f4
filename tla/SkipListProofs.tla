--------------------------- MODULE SkipListProofs ----------------------------
(***************************************************************************)
(* Proofs about SkipList for every set of items, order of scores, number   *)
(* of nodes, of levels and of iterators.                                   *)
(***************************************************************************)
EXTENDS SkipList, ModArith, FiniteSetTheorems, SequenceTheorems, TLAPS

(* A heap of nodes: each has a forward array of 1 to MaxLevel pointers to  *)
(* nodes or NULL, the header one of MaxLevel.                              *)
Levels == 0 .. MaxLevel - 1
Ptr(ns) == (DOMAIN ns \ {Header}) \cup {Null}
On(ns, i) == {m \in DOMAIN ns : i \in DOMAIN ns[m].forward}
Shape(ns) ==
  /\ Header \in DOMAIN ns /\ DOMAIN ns \subseteq Ids \cup {Header}
  /\ IsFiniteSet(DOMAIN ns)
  /\ \A m \in DOMAIN ns : \E h \in 1 .. MaxLevel :
       ns[m] \in [item : Items \cup {Null}, forward : [0 .. h - 1 -> Ptr(ns)]]
  /\ DOMAIN ns[Header].forward = Levels
  /\ \A m \in DOMAIN ns \ {Header} : ns[m].item \in Items

(* pos numbers the nodes from the header to NULL, and at every level a     *)
(* forward pointer leads to the next node of that level.                   *)
LinksNext(ns, pos, i, m) ==
  LET t == ns[m].forward[i]
  IN  /\ t \in Ptr(ns) /\ (t # Null => t \in On(ns, i))
      /\ pos[m] < pos[t]
      /\ \A k \in On(ns, i) : pos[m] < pos[k] => pos[t] <= pos[k]
Laid(ns, pos) ==
  /\ \A m \in DOMAIN ns \cup {Null} : pos[m] \in Nat
  /\ \A m, k \in DOMAIN ns \cup {Null} : pos[m] = pos[k] => m = k
  /\ \A m \in DOMAIN ns : /\ pos[m] < pos[Null]
                          /\ m # Header => pos[Header] < pos[m]
  /\ \A i \in Levels : \A m \in On(ns, i) : LinksNext(ns, pos, i, m)

-----------------------------------------------------------------------------
(* Numbers                                                                 *)

(* A nonempty set of numbered nodes has a first one, and a last one if the *)
(* numbers are bounded.                                                    *)
LEMMA FirstOf ==
  ASSUME NEW B, B # {}, NEW pos, \A m \in B : pos[m] \in Nat
  PROVE  \E m \in B : \A k \in B : pos[m] <= pos[k]
<1> DEFINE N == {pos[m] : m \in B}
<1>1. N \in SUBSET Nat /\ N # {}
  OBVIOUS
<1>2. PICK n \in N : \A k \in N : n <= k
  BY <1>1, LeastNumber
<1>3. PICK m \in B : n = pos[m]
  BY <1>2
<1>4. \A k \in B : pos[k] \in N
  OBVIOUS
<1> QED
  BY <1>2, <1>3, <1>4

LEMMA LastOf ==
  ASSUME NEW B, B # {}, NEW pos, NEW top \in Nat,
         \A m \in B : pos[m] \in Nat /\ pos[m] <= top
  PROVE  \E m \in B : \A k \in B : pos[k] <= pos[m]
<1> DEFINE rev == [m \in B |-> top - pos[m]]
<1>1. \A m \in B : rev[m] \in Nat
  OBVIOUS
<1>2. PICK m \in B : \A k \in B : rev[m] <= rev[k]
  <2> HIDE DEF rev
  <2> QED
    BY <1>1, FirstOf
<1>3. ASSUME NEW k \in B PROVE pos[k] <= pos[m]
  <2>1. top - pos[m] <= top - pos[k]
    BY <1>2
  <2> QED
    BY <2>1
<1> QED
  BY <1>3

-----------------------------------------------------------------------------
(* Levels                                                                  *)

LEMMA LevelRange == 0 \in Levels /\ Levels \subseteq Nat /\ MaxLevel \in Nat \ {0}
  BY SkipListAssumption DEF Levels

LEMMA ShapeFacts ==
  ASSUME NEW ns, Shape(ns)
  PROVE  /\ Null \notin DOMAIN ns /\ On(ns, 0) = DOMAIN ns
         /\ \A i : On(ns, i) \subseteq DOMAIN ns
         /\ \A i \in Levels : Header \in On(ns, i)
         /\ \A i : \A m \in On(ns, i) : i \in Levels
         /\ \A i \in Nat : \A j \in 0 .. i : On(ns, i) \subseteq On(ns, j)
<1>1. Null \notin DOMAIN ns
  BY SkipListAssumption DEF Shape
<1>2. ASSUME NEW m \in DOMAIN ns
      PROVE  \E h \in 1 .. MaxLevel : DOMAIN ns[m].forward = 0 .. h - 1
  <2>1. PICK h \in 1 .. MaxLevel :
          ns[m] \in [item : Items \cup {Null}, forward : [0 .. h - 1 -> Ptr(ns)]]
    BY DEF Shape
  <2>2. ns[m].forward \in [0 .. h - 1 -> Ptr(ns)]
    BY <2>1
  <2> QED
    BY <2>2
<1>3. On(ns, 0) = DOMAIN ns
  BY <1>2, LevelRange DEF On
<1>4. ASSUME NEW i, NEW m \in On(ns, i) PROVE i \in Levels
  <2>1. PICK h \in 1 .. MaxLevel : DOMAIN ns[m].forward = 0 .. h - 1
    BY <1>2 DEF On
  <2> QED
    BY <2>1, LevelRange DEF On, Levels
<1>5. ASSUME NEW i \in Nat, NEW j \in 0 .. i, NEW m \in On(ns, i) PROVE m \in On(ns, j)
  <2>1. PICK h \in 1 .. MaxLevel : DOMAIN ns[m].forward = 0 .. h - 1
    BY <1>2 DEF On
  <2> QED
    BY <2>1, LevelRange DEF On
<1>6. \A i \in Levels : Header \in On(ns, i)
  BY DEF On, Shape
<1>7. \A i : On(ns, i) \subseteq DOMAIN ns
  BY DEF On
<1> QED
  BY <1>1, <1>3, <1>4, <1>5, <1>6, <1>7

LEMMA HeightIs ==
  ASSUME NEW ns, Shape(ns), NEW m \in DOMAIN ns
  PROVE  /\ Cardinality(DOMAIN ns[m].forward) \in 1 .. MaxLevel
         /\ \A i \in Nat : m \in On(ns, i) <=> i < Cardinality(DOMAIN ns[m].forward)
<1>1. PICK h \in 1 .. MaxLevel :
        ns[m] \in [item : Items \cup {Null}, forward : [0 .. h - 1 -> Ptr(ns)]]
  BY DEF Shape
<1>2. DOMAIN ns[m].forward = 0 .. h - 1
  BY <1>1
<1>3. h \in Nat /\ h > 0 /\ h <= MaxLevel
  BY LevelRange
<1>4. Cardinality(0 .. h - 1) = h
  BY <1>3, FS_Interval
<1>5. \A i \in Nat : m \in On(ns, i) <=> i < h
  BY <1>2, <1>3 DEF On
<1> QED
  BY <1>2, <1>3, <1>4, <1>5

(* What the numbering says of two nodes of a level.                        *)
LEMMA LaidFacts ==
  ASSUME NEW ns, Shape(ns), NEW pos, Laid(ns, pos)
  PROVE  /\ \A m \in DOMAIN ns \cup {Null} : pos[m] \in Nat
         /\ \A m, k \in DOMAIN ns \cup {Null} : pos[m] = pos[k] => m = k
         /\ \A m \in DOMAIN ns : pos[m] < pos[Null] /\ pos[Header] <= pos[m]
         /\ \A m \in DOMAIN ns : m # Header => pos[Header] < pos[m]
         /\ Header \in DOMAIN ns /\ Header # Null /\ Null \notin DOMAIN ns
<1>1. \A m \in DOMAIN ns : m # Header => pos[Header] < pos[m]
  BY DEF Laid
<1>2. Header \in DOMAIN ns
  BY DEF Shape
<1>3. ASSUME NEW m \in DOMAIN ns PROVE pos[Header] <= pos[m]
  <2>1. pos[m] \in Nat /\ pos[Header] \in Nat
    BY <1>2 DEF Laid
  <2> QED
    BY <1>1, <2>1
<1> QED
  BY <1>1, <1>2, <1>3, ShapeFacts, SkipListAssumption DEF Laid

LEMMA NextFacts ==
  ASSUME NEW ns, Shape(ns), NEW pos, Laid(ns, pos), NEW i, NEW m \in On(ns, i)
  PROVE  /\ ns[m].forward[i] \in On(ns, i) \cup {Null}
         /\ ns[m].forward[i] # Header
         /\ ns[m].forward[i] # Null => ns[ns[m].forward[i]].item \in Items
         /\ pos[m] \in Nat /\ pos[ns[m].forward[i]] \in Nat
         /\ pos[m] < pos[ns[m].forward[i]]
         /\ pos[ns[m].forward[i]] <= pos[Null]
         /\ \A k \in On(ns, i) :
              pos[m] < pos[k] => pos[ns[m].forward[i]] <= pos[k]
<1>1. i \in Levels /\ m \in DOMAIN ns
  BY ShapeFacts
<1>2. LinksNext(ns, pos, i, m)
  BY <1>1 DEF Laid
<1> DEFINE t == ns[m].forward[i]
<1>3. /\ t \in Ptr(ns) /\ (t # Null => t \in On(ns, i)) /\ pos[m] < pos[t]
      /\ \A k \in On(ns, i) : pos[m] < pos[k] => pos[t] <= pos[k]
  BY <1>2 DEF LinksNext
<1> HIDE DEF t
<1>4. t \in On(ns, i) \cup {Null} /\ t \in DOMAIN ns \cup {Null} /\ t # Header
  BY <1>3, SkipListAssumption DEF Ptr
<1>5. t # Null => ns[t].item \in Items
  BY <1>4 DEF Shape
<1>6. pos[m] \in Nat /\ pos[t] \in Nat /\ pos[Null] \in Nat
  BY <1>1, <1>4 DEF Laid
<1>7. pos[t] <= pos[Null]
  <2>1. CASE t = Null
    BY <1>6, <2>1
  <2>2. CASE t # Null
    <3>1. pos[t] < pos[Null]
      BY <1>4, <2>2 DEF Laid
    <3> QED
      BY <1>6, <3>1
  <2> QED
    BY <2>1, <2>2
<1> QED
  BY <1>3, <1>4, <1>5, <1>6, <1>7 DEF t

-----------------------------------------------------------------------------
(* The search at one level                                                 *)

Passes(ns, passed, i, m) ==
  ns[m].forward[i] # Null /\ ns[ns[m].forward[i]].item \in passed
WalkLaw(ns, passed, i, w) ==
  w = [m \in On(ns, i) |->
         IF Passes(ns, passed, i, m) THEN w[ns[m].forward[i]] ELSE m]
WalkOf(ns, passed, i) == CHOOSE w : WalkLaw(ns, passed, i, w)

(* The walk ends at the first node that does not pass.                     *)
LEMMA WalkSolves ==
  ASSUME NEW ns, Shape(ns), NEW pos, Laid(ns, pos), NEW passed, NEW i
  PROVE  WalkLaw(ns, passed, i, WalkOf(ns, passed, i))
<1> DEFINE End(m) == {k \in On(ns, i) : pos[m] <= pos[k] /\ ~Passes(ns, passed, i, k)}
           IsFirst(B, k) == k \in B /\ \A j \in B : pos[k] <= pos[j]
           w == [m \in On(ns, i) |-> CHOOSE k : IsFirst(End(m), k)]
<1>1. /\ pos[Null] \in Nat /\ \A m \in On(ns, i) : pos[m] \in Nat /\ pos[m] < pos[Null]
      /\ \A m, k \in On(ns, i) : pos[m] = pos[k] => m = k
      /\ Null \notin On(ns, i)
  BY LaidFacts, ShapeFacts
<1>2. ASSUME NEW m \in On(ns, i), Passes(ns, passed, i, m)
      PROVE  ns[m].forward[i] \in On(ns, i) /\ End(m) = End(ns[m].forward[i])
  <2> DEFINE t == ns[m].forward[i]
  <2>1. t \in On(ns, i)
    BY <1>2, NextFacts DEF Passes
  <2>2. pos[m] < pos[t] /\ \A k \in On(ns, i) : pos[m] < pos[k] => pos[t] <= pos[k]
    BY NextFacts
  <2> HIDE DEF t
  <2>3. ASSUME NEW k \in On(ns, i), ~Passes(ns, passed, i, k)
        PROVE  pos[m] <= pos[k] <=> pos[t] <= pos[k]
    <3>1. k # m
      BY <1>2, <2>3
    <3>2. pos[m] # pos[k]
      BY <1>1, <3>1
    <3> QED
      BY <1>1, <2>1, <2>2, <3>2
  <2>4. End(m) = End(t)
    BY <2>3
  <2> QED
    BY <2>1, <2>4 DEF t
<1>3. ASSUME NEW m \in On(ns, i), ~Passes(ns, passed, i, m) PROVE w[m] = m
  <2>1. IsFirst(End(m), m)
    BY <1>1, <1>3
  <2>2. \A k : IsFirst(End(m), k) => k = m
    <3> SUFFICES ASSUME NEW k, IsFirst(End(m), k) PROVE k = m
      OBVIOUS
    <3>1. k \in On(ns, i) /\ pos[k] <= pos[m] /\ pos[m] <= pos[k]
      BY <2>1
    <3> QED
      BY <1>1, <3>1
  <2> HIDE DEF IsFirst, End
  <2> QED
    BY <2>1, <2>2
<1>4. ASSUME NEW m \in On(ns, i)
      PROVE  w[m] = IF Passes(ns, passed, i, m) THEN w[ns[m].forward[i]] ELSE m
  <2>1. CASE Passes(ns, passed, i, m)
    <3>1. ns[m].forward[i] \in On(ns, i) /\ End(m) = End(ns[m].forward[i])
      BY <1>2, <2>1
    <3> HIDE DEF End, IsFirst
    <3>2. w[m] = w[ns[m].forward[i]]
      BY <3>1
    <3> QED
      BY <2>1, <3>2
  <2>2. CASE ~Passes(ns, passed, i, m)
    BY <1>3, <2>2
  <2> QED
    BY <2>1, <2>2
<1>5. w = [m \in On(ns, i) |-> w[m]]
  OBVIOUS
<1> HIDE DEF w
<1>6. WalkLaw(ns, passed, i, w)
  BY <1>4, <1>5 DEF WalkLaw
<1> QED
  BY <1>6 DEF WalkOf

LEMMA WalkStep ==
  ASSUME NEW ns, Shape(ns), NEW pos, Laid(ns, pos), NEW passed, NEW i, NEW m \in On(ns, i)
  PROVE  WalkOf(ns, passed, i)[m] =
           IF Passes(ns, passed, i, m)
             THEN WalkOf(ns, passed, i)[ns[m].forward[i]] ELSE m
<1> DEFINE w == WalkOf(ns, passed, i)
<1>1. WalkLaw(ns, passed, i, w)
  BY WalkSolves
<1> HIDE DEF w
<1>2. w = [k \in On(ns, i) |->
             IF Passes(ns, passed, i, k) THEN w[ns[k].forward[i]] ELSE k]
  BY <1>1, Zenon DEF WalkLaw
<1>3. \A k \in On(ns, i) :
        w[k] = IF Passes(ns, passed, i, k) THEN w[ns[k].forward[i]] ELSE k
  BY <1>2, Zenon
<1> QED
  BY <1>3 DEF w

(* A walk stays on its level, passes all it meets and stops at what it may *)
(* not pass.                                                               *)
WalksTo(ns, pos, passed, i, m, r) ==
  /\ r \in On(ns, i) /\ pos[m] <= pos[r] /\ ~Passes(ns, passed, i, r)
  /\ \A k \in On(ns, i) : pos[m] < pos[k] /\ pos[k] <= pos[r] => ns[k].item \in passed

LEMMA WalkFacts ==
  ASSUME NEW ns, Shape(ns), NEW pos, Laid(ns, pos), NEW passed, NEW i, NEW m \in On(ns, i)
  PROVE  WalksTo(ns, pos, passed, i, m, WalkOf(ns, passed, i)[m])
<1> DEFINE w == WalkOf(ns, passed, i)
           Bad == {k \in On(ns, i) : ~WalksTo(ns, pos, passed, i, k, w[k])}
<1>1. /\ pos[Null] \in Nat /\ \A k \in On(ns, i) : pos[k] \in Nat /\ pos[k] < pos[Null]
      /\ \A j, k \in On(ns, i) : pos[j] = pos[k] => j = k
  BY LaidFacts, ShapeFacts
<1>2. \A k \in On(ns, i) :
        w[k] = IF Passes(ns, passed, i, k) THEN w[ns[k].forward[i]] ELSE k
  BY WalkStep
<1> HIDE DEF w
<1>3. ASSUME NEW k \in On(ns, i), ~Passes(ns, passed, i, k) PROVE k \notin Bad
  BY <1>1, <1>2, <1>3 DEF WalksTo
<1>4. ASSUME NEW k \in Bad PROVE ns[k].forward[i] \in Bad /\ pos[k] < pos[ns[k].forward[i]]
  <2> DEFINE t == ns[k].forward[i]
  <2>1. Passes(ns, passed, i, k)
    BY <1>3
  <2>2. /\ t \in On(ns, i) /\ pos[k] < pos[t] /\ ns[t].item \in passed
        /\ \A j \in On(ns, i) : pos[k] < pos[j] => pos[t] <= pos[j]
    BY <2>1, NextFacts DEF Passes
  <2>3. w[k] = w[t]
    BY <1>2, <2>1
  <2> HIDE DEF t
  <2>4. ASSUME WalksTo(ns, pos, passed, i, t, w[t]) PROVE FALSE
    <3> DEFINE r == w[t]
    <3>1. /\ r \in On(ns, i) /\ pos[t] <= pos[r] /\ ~Passes(ns, passed, i, r)
          /\ \A j \in On(ns, i) : pos[t] < pos[j] /\ pos[j] <= pos[r] => ns[j].item \in passed
      BY <2>4 DEF WalksTo
    <3>2. w[k] = r
      BY <2>3
    <3> HIDE DEF r
    <3>3. pos[k] <= pos[r]
      BY <1>1, <2>2, <3>1
    <3>4. ASSUME NEW j \in On(ns, i), pos[k] < pos[j], pos[j] <= pos[r]
          PROVE  ns[j].item \in passed
      <4>1. CASE j = t
        BY <2>2, <4>1
      <4>2. CASE j # t
        <5>1. pos[t] < pos[j]
          BY <1>1, <2>2, <3>4, <4>2
        <5> QED
          BY <3>1, <3>4, <5>1
      <4> QED
        BY <4>1, <4>2
    <3>5. WalksTo(ns, pos, passed, i, k, r)
      BY <3>1, <3>3, <3>4 DEF WalksTo
    <3> QED
      BY <3>2, <3>5
  <2> QED
    BY <2>2, <2>4 DEF t
<1>5. Bad = {}
  <2> SUFFICES ASSUME Bad # {} PROVE FALSE
    OBVIOUS
  <2>1. \A k \in Bad : pos[k] \in Nat /\ pos[k] <= pos[Null]
    BY <1>1
  <2>2. pos[Null] \in Nat
    BY <1>1
  <2> HIDE DEF Bad
  <2>3. PICK k \in Bad : \A j \in Bad : pos[j] <= pos[k]
    BY <2>1, <2>2, LastOf
  <2> DEFINE t == ns[k].forward[i]
  <2>4. t \in Bad /\ pos[k] < pos[t] /\ pos[t] <= pos[k]
    BY <1>4, <2>3
  <2> QED
    BY <2>1, <2>4
<1> QED
  BY <1>5 DEF w

-----------------------------------------------------------------------------
(* The breadcrumbs                                                         *)

LEMMA LastNumber ==
  ASSUME NEW n \in Nat, NEW B \in SUBSET (0 .. n), B # {}
  PROVE  \E m \in B : \A k \in B : k <= m
<1> DEFINE same == [m \in B |-> m]
<1>1. \A m \in B : same[m] \in Nat /\ same[m] <= n
  OBVIOUS
<1>2. PICK m \in B : \A k \in B : same[k] <= same[m]
  <2> HIDE DEF same
  <2> QED
    BY <1>1, LastOf
<1> QED
  BY <1>2

Start(n, u, i) == IF i = n - 1 THEN Header ELSE u[i + 1]
TrailLaw(ns, passed, n, u) ==
  u = [i \in 0 .. n - 1 |->
         WalkOf(ns, passed, i)[IF i = n - 1 THEN Header ELSE u[i + 1]]]
TrailOf(ns, passed, n) == CHOOSE u : TrailLaw(ns, passed, n, u)

LEMMA TrailSolves ==
  ASSUME NEW ns, NEW passed, NEW n \in Nat
  PROVE  \A i \in 0 .. n - 1 : TrailOf(ns, passed, n)[i] =
           WalkOf(ns, passed, i)[Start(n, TrailOf(ns, passed, n), i)]
<1> DEFINE Right(u, i) == u[i] = WalkOf(ns, passed, i)[Start(n, u, i)]
           Solved(d) == \E u : /\ u = [i \in 0 .. n - 1 |-> u[i]]
                               /\ \A i \in 0 .. n - 1 : n <= i + d => Right(u, i)
           D == {d \in 0 .. n : ~Solved(d)}
<1>1. Solved(0)
  <2> DEFINE u == [i \in 0 .. n - 1 |-> 0]
  <2>1. u = [i \in 0 .. n - 1 |-> u[i]]
    OBVIOUS
  <2>2. \A i \in 0 .. n - 1 : ~(n <= i + 0)
    OBVIOUS
  <2> HIDE DEF u, Right
  <2> QED
    BY <2>1, <2>2
<1>2. ASSUME NEW d \in Nat, d < n, Solved(d) PROVE Solved(d + 1)
  <2>1. PICK u : /\ u = [i \in 0 .. n - 1 |-> u[i]]
                 /\ \A i \in 0 .. n - 1 : n <= i + d => Right(u, i)
    BY <1>2
  <2> DEFINE j == n - 1 - d
             r == WalkOf(ns, passed, j)[Start(n, u, j)]
             v == [i \in 0 .. n - 1 |-> IF i = j THEN r ELSE u[i]]
  <2>2. j \in 0 .. n - 1 /\ j + 1 + d = n
    BY <1>2
  <2>3. v = [i \in 0 .. n - 1 |-> v[i]]
    OBVIOUS
  <2>4. v[j] = r /\ \A i \in 0 .. n - 1 : i # j => v[i] = u[i]
    BY <2>2
  <2> HIDE DEF v
  <2>5. ASSUME NEW i \in 0 .. n - 1, j <= i PROVE Start(n, v, i) = Start(n, u, i)
    <3>1. CASE i = n - 1
      BY <3>1 DEF Start
    <3>2. CASE i # n - 1
      <4>1. i + 1 \in 0 .. n - 1 /\ i + 1 # j
        BY <2>2, <2>5, <3>2
      <4> QED
        BY <2>4, <4>1 DEF Start
    <3> QED
      BY <3>1, <3>2
  <2>6. Right(v, j)
    <3>1. Start(n, v, j) = Start(n, u, j)
      BY <2>2, <2>5
    <3> QED
      BY <2>4, <3>1
  <2>7. ASSUME NEW i \in 0 .. n - 1, n <= i + (d + 1) PROVE Right(v, i)
    <3>1. CASE i = j
      BY <2>6, <3>1
    <3>2. CASE i # j
      <4>1. j <= i /\ n <= i + d
        BY <1>2, <2>7, <3>2
      <4>2. Right(u, i) /\ v[i] = u[i] /\ Start(n, v, i) = Start(n, u, i)
        BY <2>1, <2>4, <2>5, <3>2, <4>1
      <4> QED
        BY <4>2
    <3> QED
      BY <3>1, <3>2
  <2> HIDE DEF Right
  <2> QED
    BY <2>3, <2>7
<1> HIDE DEF Solved
<1>3. D = {}
  <2> SUFFICES ASSUME D # {} PROVE FALSE
    OBVIOUS
  <2>0. D \in SUBSET Nat
    OBVIOUS
  <2>1. PICK d \in D : \A e \in D : d <= e
    <3> HIDE DEF D
    <3> QED
      BY <2>0, LeastNumber
  <2>2. d \in Nat /\ d <= n /\ ~Solved(d) /\ d # 0
    BY <1>1, <2>1
  <2>3. d - 1 \in 0 .. n /\ d - 1 \notin D /\ (d - 1) + 1 = d
    BY <2>1, <2>2
  <2>4. Solved(d - 1)
    BY <2>3
  <2> QED
    BY <1>2, <2>2, <2>3, <2>4
<1>4. Solved(n)
  BY <1>3
<1>5. PICK u : /\ u = [i \in 0 .. n - 1 |-> u[i]]
               /\ \A i \in 0 .. n - 1 : n <= i + n => Right(u, i)
  BY <1>4 DEF Solved
<1>6. ASSUME NEW i \in 0 .. n - 1
      PROVE  u[i] = WalkOf(ns, passed, i)[IF i = n - 1 THEN Header ELSE u[i + 1]]
  <2>1. n <= i + n
    OBVIOUS
  <2>2. u[i] = WalkOf(ns, passed, i)[Start(n, u, i)]
    BY <1>5, <2>1
  <2> QED
    BY <2>2, Zenon DEF Start
<1>7. TrailLaw(ns, passed, n, u)
  BY <1>5, <1>6 DEF TrailLaw
<1> DEFINE t == TrailOf(ns, passed, n)
<1>8. TrailLaw(ns, passed, n, t)
  BY <1>7 DEF TrailOf
<1> HIDE DEF t
<1>9. t = [i \in 0 .. n - 1 |->
             WalkOf(ns, passed, i)[IF i = n - 1 THEN Header ELSE t[i + 1]]]
  BY <1>8, Zenon DEF TrailLaw
<1>10. \A i \in 0 .. n - 1 :
         t[i] = WalkOf(ns, passed, i)[IF i = n - 1 THEN Header ELSE t[i + 1]]
  BY <1>9, Zenon
<1> QED
  BY <1>10 DEF t, Start

(* Each breadcrumb is at a node of its level: the header or one passed.    *)
Crumbs(ns, pos, passed, n, u) ==
  \A i \in 0 .. n - 1 :
    /\ u[i] \in On(ns, i) /\ Start(n, u, i) \in On(ns, i)
    /\ WalksTo(ns, pos, passed, i, Start(n, u, i), u[i])
    /\ u[i] = Header \/ ns[u[i]].item \in passed
    /\ pos[u[i]] <= pos[u[0]]

LEMMA TrailFacts ==
  ASSUME NEW ns, Shape(ns), NEW pos, Laid(ns, pos), NEW passed, NEW n \in 1 .. MaxLevel
  PROVE  Crumbs(ns, pos, passed, n, TrailOf(ns, passed, n))
<1> DEFINE u == TrailOf(ns, passed, n)
           S(i) == Start(n, u, i)
<1>1. n \in Nat /\ 0 .. n - 1 \subseteq Levels /\ n - 1 \in 0 .. n - 1 /\ n - 1 \in Nat
  BY LevelRange DEF Levels
<1>2. \A i \in 0 .. n - 1 : u[i] = WalkOf(ns, passed, i)[S(i)]
  BY <1>1, TrailSolves
<1>3. \A i \in 0 .. n - 1 : S(i) = IF i = n - 1 THEN Header ELSE u[i + 1]
  BY DEF Start
<1>4. /\ \A i \in 0 .. n - 1 : Header \in On(ns, i)
      /\ \A i \in 0 .. n - 1 : \A m \in On(ns, i + 1) : m \in On(ns, i)
      /\ \A i : On(ns, i) \subseteq DOMAIN ns
      /\ \A m \in DOMAIN ns : pos[m] \in Nat
      /\ \A m, k \in DOMAIN ns : pos[m] = pos[k] => m = k
  <2>1. ASSUME NEW i \in 0 .. n - 1 PROVE On(ns, i + 1) \subseteq On(ns, i)
    <3>1. i + 1 \in Nat /\ i \in 0 .. i + 1
      OBVIOUS
    <3> QED
      BY <3>1, ShapeFacts
  <2> QED
    BY <1>1, <2>1, ShapeFacts, LaidFacts
<1> HIDE DEF u, S
<1>5. \A i \in 0 .. n - 1 : S(i) \in On(ns, i) =>
        WalksTo(ns, pos, passed, i, S(i), u[i])
  BY <1>2, WalkFacts
<1> DEFINE Bad == {i \in 0 .. n - 1 : S(i) \notin On(ns, i)}
<1>6. Bad = {}
  <2> SUFFICES ASSUME Bad # {} PROVE FALSE
    OBVIOUS
  <2>1. Bad \in SUBSET (0 .. n - 1)
    OBVIOUS
  <2>2. PICK i \in Bad : \A k \in Bad : k <= i
    <3> HIDE DEF Bad
    <3> QED
      BY <1>1, <2>1, LastNumber
  <2>3. i \in 0 .. n - 1 /\ i # n - 1
    BY <1>3, <1>4
  <2>4. i + 1 \in 0 .. n - 1 /\ i + 1 \notin Bad
    BY <2>2, <2>3
  <2>5. u[i + 1] \in On(ns, i + 1)
    BY <1>5, <2>4 DEF WalksTo
  <2>6. S(i) = u[i + 1] /\ u[i + 1] \in On(ns, i)
    BY <1>3, <1>4, <2>3, <2>5
  <2> QED
    BY <2>6
<1>7. \A i \in 0 .. n - 1 :
        S(i) \in On(ns, i) /\ u[i] \in On(ns, i) /\ WalksTo(ns, pos, passed, i, S(i), u[i])
  BY <1>5, <1>6 DEF WalksTo
<1> HIDE DEF Bad
<1> DEFINE Odd == {i \in 0 .. n - 1 : ~(u[i] = Header \/ ns[u[i]].item \in passed)}
<1>8. Odd = {}
  <2> SUFFICES ASSUME Odd # {} PROVE FALSE
    OBVIOUS
  <2>1. Odd \in SUBSET (0 .. n - 1)
    OBVIOUS
  <2>2. PICK i \in Odd : \A k \in Odd : k <= i
    <3> HIDE DEF Odd
    <3> QED
      BY <1>1, <2>1, LastNumber
  <2>3. u[i] = S(i)
    <3>1. /\ pos[S(i)] <= pos[u[i]] /\ u[i] \in On(ns, i) /\ S(i) \in On(ns, i)
          /\ pos[S(i)] < pos[u[i]] /\ pos[u[i]] <= pos[u[i]] => ns[u[i]].item \in passed
      BY <1>7 DEF WalksTo
    <3>2. pos[S(i)] \in Nat /\ pos[u[i]] \in Nat
      BY <1>4, <3>1
    <3>3. ~(pos[S(i)] < pos[u[i]])
      BY <3>1, <3>2
    <3>4. pos[S(i)] = pos[u[i]]
      BY <3>1, <3>2, <3>3
    <3> QED
      BY <1>4, <3>1, <3>4
  <2>4. i # n - 1
    BY <1>3, <2>3
  <2>5. i + 1 \in 0 .. n - 1 /\ i + 1 \notin Odd
    BY <2>2, <2>4
  <2>6. S(i) = u[i + 1]
    BY <1>3, <2>4
  <2> QED
    BY <2>3, <2>5, <2>6
<1> HIDE DEF Odd
<1> DEFINE Far == {i \in 0 .. n - 1 : ~(pos[u[i]] <= pos[u[0]])}
<1>9. Far = {}
  <2> SUFFICES ASSUME Far # {} PROVE FALSE
    OBVIOUS
  <2>1. Far \in SUBSET Nat /\ 0 \in 0 .. n - 1
    BY <1>1
  <2>2. PICK i \in Far : \A k \in Far : i <= k
    <3> HIDE DEF Far
    <3> QED
      BY <2>1, LeastNumber
  <2>3. \A k \in 0 .. n - 1 : pos[u[k]] \in Nat
    BY <1>4, <1>7
  <2>4. i # 0
    BY <2>1, <2>3
  <2>5. i - 1 \in 0 .. n - 1 /\ i - 1 \notin Far /\ i - 1 # n - 1 /\ (i - 1) + 1 = i
    BY <2>2, <2>4
  <2>6. S(i - 1) = u[i]
    BY <1>3, <2>5
  <2>7. pos[S(i - 1)] <= pos[u[i - 1]]
    BY <1>7, <2>5 DEF WalksTo
  <2>8. pos[u[i - 1]] <= pos[u[0]] /\ pos[u[i]] <= pos[u[i - 1]]
    BY <2>5, <2>6, <2>7
  <2>9. pos[u[i - 1]] \in Nat /\ pos[u[i]] \in Nat /\ pos[u[0]] \in Nat
    BY <2>1, <2>3, <2>5
  <2> QED
    BY <2>8, <2>9
<1>10. \A i \in 0 .. n - 1 : u[i] = Header \/ ns[u[i]].item \in passed
  BY <1>8 DEF Odd
<1>11. \A i \in 0 .. n - 1 : pos[u[i]] <= pos[u[0]]
  BY <1>9 DEF Far
<1> QED
  BY <1>7, <1>10, <1>11 DEF Crumbs, u, S

(* The breadcrumbs are a cut: at every level the last node not beyond the  *)
(* one at level 0.  The node a search may not pass is on all levels below, *)
(* so no lower level goes beyond it.                                       *)
Cut(ns, pos, u) ==
  \A i \in Levels :
    /\ u[i] \in On(ns, i) /\ pos[u[i]] <= pos[u[0]]
    /\ \A k \in On(ns, i) : pos[k] <= pos[u[0]] => pos[k] <= pos[u[i]]

LEMMA CrumbsCut ==
  ASSUME NEW ns, Shape(ns), NEW pos, Laid(ns, pos), NEW passed, NEW n \in 1 .. MaxLevel,
         NEW u, Crumbs(ns, pos, passed, n, u),
         NEW i \in 0 .. n - 1, NEW k \in On(ns, i), pos[k] <= pos[u[0]]
  PROVE  pos[k] <= pos[u[i]]
<1> SUFFICES ASSUME ~(pos[k] <= pos[u[i]]) PROVE FALSE
  OBVIOUS
<1> DEFINE t == ns[u[i]].forward[i]
<1>1. n \in Nat /\ i \in Nat /\ 0 \in 0 .. n - 1 /\ 0 .. i \subseteq 0 .. n - 1
  BY LevelRange
<1>2. \A j \in 0 .. n - 1 : u[j] \in On(ns, j) /\ Start(n, u, j) \in On(ns, j)
  BY DEF Crumbs
<1>3. \A j : \A m \in On(ns, j) : pos[m] \in Nat /\ pos[m] < pos[Null]
  BY LaidFacts, ShapeFacts
<1>4. pos[u[i]] < pos[k] /\ pos[k] < pos[Null] /\ pos[Null] \in Nat
  BY <1>1, <1>2, <1>3, LaidFacts
<1>5. /\ t \in On(ns, i) \cup {Null} /\ pos[u[i]] < pos[t] /\ pos[t] <= pos[k]
      /\ pos[t] \in Nat
  BY <1>2, <1>4, NextFacts
<1>6. t # Null
  BY <1>3, <1>4, <1>5
<1>7. ns[t].item \notin passed
  <2>1. ~Passes(ns, passed, i, u[i])
    BY DEF Crumbs, WalksTo
  <2> QED
    BY <1>6, <2>1 DEF Passes
<1> HIDE DEF t
<1> DEFINE B == {j \in 0 .. i : pos[t] <= pos[u[j]]}
<1>8. 0 \in B
  <2>1. pos[k] \in Nat /\ pos[u[0]] \in Nat
    BY <1>1, <1>2, <1>3
  <2> QED
    BY <1>1, <1>5, <2>1
<1>9. PICK j \in B : \A e \in B : e <= j
  <2>1. B \in SUBSET (0 .. i) /\ B # {}
    BY <1>8
  <2> HIDE DEF B
  <2> QED
    BY <1>1, <2>1, LastNumber
<1>10. j \in 0 .. i /\ pos[t] <= pos[u[j]] /\ j \in 0 .. n - 1
  BY <1>1
<1>11. pos[u[i]] \in Nat
  BY <1>2, <1>3
<1>12. j # i
  BY <1>5, <1>10, <1>11
<1>13. j + 1 \in 0 .. i /\ j + 1 \notin B /\ j # n - 1
  BY <1>1, <1>9, <1>10, <1>12
<1>14. Start(n, u, j) = u[j + 1]
  BY <1>13 DEF Start
<1>15. pos[u[j + 1]] \in Nat /\ pos[u[j + 1]] < pos[t]
  <2>1. j + 1 \in 0 .. n - 1
    BY <1>1, <1>13
  <2> QED
    BY <1>2, <1>3, <1>5, <1>13, <2>1
<1>16. t \in On(ns, j)
  BY <1>1, <1>5, <1>6, <1>10, ShapeFacts
<1>17. WalksTo(ns, pos, passed, j, Start(n, u, j), u[j])
  BY <1>10 DEF Crumbs
<1> QED
  BY <1>7, <1>10, <1>14, <1>15, <1>16, <1>17 DEF WalksTo

LEMMA TrailCuts ==
  ASSUME NEW ns, Shape(ns), NEW pos, Laid(ns, pos), NEW passed, NEW n \in 1 .. MaxLevel,
         \A i \in Levels : i >= n => On(ns, i) = {Header},
         NEW u, \A i \in Levels :
                  u[i] = IF i < n THEN TrailOf(ns, passed, n)[i] ELSE Header
  PROVE  Cut(ns, pos, u)
<1> DEFINE v == TrailOf(ns, passed, n)
<1>1. Crumbs(ns, pos, passed, n, v)
  BY TrailFacts
<1> HIDE DEF v
<1>2. n \in Nat /\ 0 < n /\ 0 \in Levels /\ Levels \subseteq Nat /\ 0 \in 0 .. n - 1
  BY LevelRange
<1>3. u[0] = v[0]
  BY <1>2 DEF v
<1>4. ASSUME NEW i \in Levels, i < n
      PROVE  /\ u[i] \in On(ns, i) /\ pos[u[i]] <= pos[u[0]]
             /\ \A k \in On(ns, i) : pos[k] <= pos[u[0]] => pos[k] <= pos[u[i]]
  <2>1. i \in 0 .. n - 1 /\ u[i] = v[i]
    BY <1>2, <1>4 DEF v
  <2>2. v[i] \in On(ns, i) /\ pos[v[i]] <= pos[v[0]]
    BY <1>1, <2>1 DEF Crumbs
  <2>3. \A k \in On(ns, i) : pos[k] <= pos[v[0]] => pos[k] <= pos[v[i]]
    BY <1>1, <2>1, CrumbsCut
  <2> QED
    BY <1>3, <2>1, <2>2, <2>3
<1>5. ASSUME NEW i \in Levels, ~(i < n)
      PROVE  /\ u[i] \in On(ns, i) /\ pos[u[i]] <= pos[u[0]]
             /\ \A k \in On(ns, i) : pos[k] <= pos[u[0]] => pos[k] <= pos[u[i]]
  <2>1. i >= n
    BY <1>2, <1>5
  <2>2. On(ns, i) = {Header} /\ u[i] = Header
    BY <1>5, <2>1
  <2>3. v[0] \in DOMAIN ns
    BY <1>1, <1>2, ShapeFacts DEF Crumbs
  <2>4. pos[Header] <= pos[v[0]]
    BY <2>3, LaidFacts
  <2>5. pos[Header] \in Nat
    BY LaidFacts
  <2>6. \A k \in On(ns, i) : pos[k] <= pos[u[i]]
    BY <2>2, <2>5
  <2> QED
    BY <1>3, <2>2, <2>4, <2>6
<1> QED
  BY <1>4, <1>5 DEF Cut

(* At every level the next node after a cut is the first one beyond it.    *)
LEMMA CutNext ==
  ASSUME NEW ns, Shape(ns), NEW pos, Laid(ns, pos), NEW u, Cut(ns, pos, u), NEW i \in Levels
  PROVE  /\ u[i] \in On(ns, i) /\ u[0] \in DOMAIN ns
         /\ pos[u[0]] < pos[ns[u[i]].forward[i]]
         /\ \A k \in On(ns, i) :
              pos[u[0]] < pos[k] => pos[ns[u[i]].forward[i]] <= pos[k]
<1> DEFINE t == ns[u[i]].forward[i]
<1>1. /\ u[i] \in On(ns, i) /\ pos[u[i]] <= pos[u[0]]
      /\ \A k \in On(ns, i) : pos[k] <= pos[u[0]] => pos[k] <= pos[u[i]]
  BY DEF Cut
<1>2. u[0] \in DOMAIN ns
  BY LevelRange, ShapeFacts DEF Cut
<1>3. /\ t \in On(ns, i) \cup {Null} /\ pos[u[i]] \in Nat /\ pos[t] \in Nat
      /\ pos[u[i]] < pos[t] /\ \A k \in On(ns, i) : pos[u[i]] < pos[k] => pos[t] <= pos[k]
  BY <1>1, NextFacts
<1>4. pos[u[0]] \in Nat /\ pos[u[0]] < pos[Null]
  BY <1>2, LaidFacts
<1> HIDE DEF t
<1>5. pos[u[0]] < pos[t]
  <2>1. CASE t = Null
    BY <1>4, <2>1
  <2>2. CASE t # Null
    BY <1>1, <1>3, <1>4, <2>2
  <2> QED
    BY <2>1, <2>2
<1>6. ASSUME NEW k \in On(ns, i), pos[u[0]] < pos[k] PROVE pos[t] <= pos[k]
  <2>1. pos[k] \in Nat
    BY LaidFacts, ShapeFacts
  <2>2. pos[u[i]] < pos[k]
    BY <1>1, <1>3, <1>4, <1>6, <2>1
  <2> QED
    BY <1>3, <2>2
<1> QED
  BY <1>1, <1>2, <1>5, <1>6 DEF t

-----------------------------------------------------------------------------
(* A node is inserted                                                      *)

InsertedAt(ns, ns2, n, x, h, u) ==
  /\ n \in Ids \ DOMAIN ns /\ x \in Items /\ h \in 1 .. MaxLevel
  /\ DOMAIN ns2 = DOMAIN ns \cup {n}
  /\ ns2[n] = [item |-> x, forward |-> [i \in 0 .. h - 1 |-> ns[u[i]].forward[i]]]
  /\ \A m \in DOMAIN ns :
       ns2[m] = [item |-> ns[m].item,
                 forward |-> [i \in DOMAIN ns[m].forward |->
                    IF i < h /\ u[i] = m THEN n ELSE ns[m].forward[i]]]

LEMMA InsertShape ==
  ASSUME NEW ns, Shape(ns), NEW pos, Laid(ns, pos), NEW u, Cut(ns, pos, u),
         NEW ns2, NEW n, NEW x, NEW h, InsertedAt(ns, ns2, n, x, h, u)
  PROVE  /\ Shape(ns2) /\ n # Null /\ n # Header /\ n \notin DOMAIN ns
         /\ \A i \in Levels : On(ns2, i) = On(ns, i) \cup (IF i < h THEN {n} ELSE {})
         /\ \A i \in Levels : i < h => ns2[n].forward[i] = ns[u[i]].forward[i]
         /\ \A i \in Levels : \A m \in On(ns, i) :
              ns2[m].forward[i] = IF i < h /\ u[i] = m THEN n ELSE ns[m].forward[i]
<1>1. /\ n \in Ids /\ n \notin DOMAIN ns /\ x \in Items /\ h \in 1 .. MaxLevel
      /\ DOMAIN ns2 = DOMAIN ns \cup {n} /\ Header \in DOMAIN ns
  BY DEF InsertedAt, Shape
<1>2. n # Null /\ n # Header
  BY <1>1, SkipListAssumption
<1>3. h \in Nat /\ h > 0 /\ h <= MaxLevel /\ 0 .. h - 1 \subseteq Levels /\ MaxLevel \in Nat
  BY <1>1, LevelRange DEF Levels
<1>4. /\ ns2[n].item = x /\ ns2[n].forward = [i \in 0 .. h - 1 |-> ns[u[i]].forward[i]]
  BY DEF InsertedAt
<1>5. ASSUME NEW m \in DOMAIN ns
      PROVE  /\ ns2[m].item = ns[m].item /\ DOMAIN ns2[m].forward = DOMAIN ns[m].forward
             /\ \A i \in DOMAIN ns[m].forward :
                  ns2[m].forward[i] = IF i < h /\ u[i] = m THEN n ELSE ns[m].forward[i]
  BY DEF InsertedAt
<1>6. Ptr(ns2) = Ptr(ns) \cup {n}
  BY <1>1, <1>2 DEF Ptr
<1>7. ASSUME NEW i \in 0 .. h - 1 PROVE ns[u[i]].forward[i] \in Ptr(ns)
  <2>1. i \in Levels
    BY <1>3
  <2>2. u[i] \in On(ns, i)
    BY <2>1 DEF Cut
  <2> QED
    BY <2>1, <2>2 DEF Laid, LinksNext
<1>8. ASSUME NEW m \in DOMAIN ns2
      PROVE  \E g \in 1 .. MaxLevel :
        ns2[m] \in [item : Items \cup {Null}, forward : [0 .. g - 1 -> Ptr(ns2)]]
  <2>1. CASE m = n
    <3>1. [i \in 0 .. h - 1 |-> ns[u[i]].forward[i]] \in [0 .. h - 1 -> Ptr(ns2)]
      BY <1>6, <1>7
    <3>2. ns2[n] \in [item : Items \cup {Null}, forward : [0 .. h - 1 -> Ptr(ns2)]]
      BY <1>1, <3>1 DEF InsertedAt
    <3> QED
      BY <1>1, <2>1, <3>2
  <2>2. CASE m # n
    <3>1. m \in DOMAIN ns
      BY <1>1, <2>2
    <3>2. PICK g \in 1 .. MaxLevel :
            ns[m] \in [item : Items \cup {Null}, forward : [0 .. g - 1 -> Ptr(ns)]]
      BY <3>1 DEF Shape
    <3> DEFINE f2 == [i \in DOMAIN ns[m].forward |->
                        IF i < h /\ u[i] = m THEN n ELSE ns[m].forward[i]]
    <3>3. /\ ns[m].item \in Items \cup {Null} /\ DOMAIN ns[m].forward = 0 .. g - 1
          /\ \A i \in 0 .. g - 1 : ns[m].forward[i] \in Ptr(ns)
      BY <3>2
    <3>4. f2 \in [0 .. g - 1 -> Ptr(ns2)]
      BY <1>6, <3>3
    <3>5. ns2[m] = [item |-> ns[m].item, forward |-> f2]
      BY <3>1 DEF InsertedAt
    <3> HIDE DEF f2
    <3>6. ns2[m] \in [item : Items \cup {Null}, forward : [0 .. g - 1 -> Ptr(ns2)]]
      BY <3>3, <3>4, <3>5
    <3> QED
      BY <3>6
  <2> QED
    BY <2>1, <2>2
<1>9. Shape(ns2)
  <2>1. IsFiniteSet(DOMAIN ns2)
    BY <1>1, FS_AddElement DEF Shape
  <2>2. DOMAIN ns2 \subseteq Ids \cup {Header}
    BY <1>1 DEF Shape
  <2>3. DOMAIN ns2[Header].forward = Levels
    BY <1>1, <1>5 DEF Shape
  <2>4. \A m \in DOMAIN ns2 \ {Header} : ns2[m].item \in Items
    BY <1>1, <1>4, <1>5 DEF Shape
  <2> QED
    BY <1>1, <1>8, <2>1, <2>2, <2>3, <2>4 DEF Shape
<1>10. ASSUME NEW i \in Levels PROVE On(ns2, i) = On(ns, i) \cup (IF i < h THEN {n} ELSE {})
  <2>1. i \in DOMAIN ns2[n].forward <=> i < h
    BY <1>3, <1>4, LevelRange
  <2> QED
    BY <1>1, <1>5, <2>1 DEF On
<1>11. ASSUME NEW i \in Levels, i < h PROVE ns2[n].forward[i] = ns[u[i]].forward[i]
  <2>1. i \in 0 .. h - 1
    BY <1>3, <1>11, LevelRange
  <2> QED
    BY <1>4, <2>1
<1>12. ASSUME NEW i \in Levels, NEW m \in On(ns, i)
       PROVE  ns2[m].forward[i] = IF i < h /\ u[i] = m THEN n ELSE ns[m].forward[i]
  BY <1>5 DEF On
<1> QED
  BY <1>1, <1>2, <1>9, <1>10, <1>11, <1>12

(* The new node comes right after the cut; the others are spread apart to  *)
(* make room for its number.                                               *)
Spread(ns, pos, n, u) ==
  [m \in DOMAIN ns \cup {n, Null} |-> IF m = n THEN 2 * pos[u[0]] + 1 ELSE 2 * pos[m]]

LEMMA InsertLaid ==
  ASSUME NEW ns, Shape(ns), NEW pos, Laid(ns, pos), NEW u, Cut(ns, pos, u),
         NEW ns2, NEW n, NEW x, NEW h, InsertedAt(ns, ns2, n, x, h, u)
  PROVE  Laid(ns2, Spread(ns, pos, n, u))
<1> DEFINE p2 == Spread(ns, pos, n, u)
           c == pos[u[0]]
<1>1. /\ Shape(ns2) /\ n # Null /\ n # Header /\ n \notin DOMAIN ns
      /\ \A i \in Levels : On(ns2, i) = On(ns, i) \cup (IF i < h THEN {n} ELSE {})
      /\ \A i \in Levels : i < h => ns2[n].forward[i] = ns[u[i]].forward[i]
      /\ \A i \in Levels : \A m \in On(ns, i) :
           ns2[m].forward[i] = IF i < h /\ u[i] = m THEN n ELSE ns[m].forward[i]
  BY InsertShape
<1>2. DOMAIN ns2 = DOMAIN ns \cup {n} /\ Null \notin DOMAIN ns
  BY ShapeFacts DEF InsertedAt
<1>3. p2[n] = 2 * c + 1 /\ \A m \in DOMAIN ns \cup {Null} : p2[m] = 2 * pos[m]
  BY <1>1 DEF Spread
<1>4. /\ \A m \in DOMAIN ns \cup {Null} : pos[m] \in Nat
      /\ \A m, k \in DOMAIN ns \cup {Null} : pos[m] = pos[k] => m = k
      /\ \A m \in DOMAIN ns : pos[m] < pos[Null]
      /\ \A m \in DOMAIN ns : m # Header => pos[Header] < pos[m]
      /\ Header \in DOMAIN ns
  BY LaidFacts
<1>5. u[0] \in DOMAIN ns /\ c \in Nat /\ c < pos[Null] /\ pos[Header] <= c
  <2>1. u[0] \in DOMAIN ns
    BY LevelRange, ShapeFacts DEF Cut
  <2> QED
    BY <2>1, LaidFacts
<1> HIDE DEF p2, c
<1>6. \A m \in DOMAIN ns2 \cup {Null} : p2[m] \in Nat
  BY <1>2, <1>3, <1>4, <1>5
<1>7. ASSUME NEW m \in DOMAIN ns2 \cup {Null}, NEW k \in DOMAIN ns2 \cup {Null}, p2[m] = p2[k]
      PROVE  m = k
  <2>1. \A j \in DOMAIN ns \cup {Null} : p2[j] # p2[n]
    BY <1>3, <1>4, <1>5
  <2>2. CASE m = n \/ k = n
    BY <1>2, <1>7, <2>1, <2>2
  <2>3. CASE m # n /\ k # n
    <3>1. m \in DOMAIN ns \cup {Null} /\ k \in DOMAIN ns \cup {Null}
      BY <1>2, <2>3
    <3>2. pos[m] = pos[k]
      BY <1>3, <1>4, <1>7, <3>1
    <3> QED
      BY <1>4, <3>1, <3>2
  <2> QED
    BY <2>2, <2>3
<1>8. ASSUME NEW m \in DOMAIN ns2
      PROVE  p2[m] < p2[Null] /\ (m # Header => p2[Header] < p2[m])
  <2>1. CASE m = n
    BY <1>3, <1>4, <1>5, <2>1
  <2>2. CASE m # n
    <3>1. m \in DOMAIN ns
      BY <1>2, <2>2
    <3> QED
      BY <1>3, <1>4, <3>1
  <2> QED
    BY <2>1, <2>2
<1>9. ASSUME NEW i \in Levels, NEW m \in On(ns2, i) PROVE LinksNext(ns2, p2, i, m)
  <2> DEFINE a == u[i]
             t == ns[u[i]].forward[i]
             s == ns2[m].forward[i]
             f == ns[m].forward[i]
  <2>1. /\ a \in On(ns, i) /\ pos[a] <= c /\ pos[a] \in Nat
        /\ \A k \in On(ns, i) : pos[k] <= c => pos[k] <= pos[a]
    BY <1>4, ShapeFacts DEF Cut, c
  <2>2. /\ t \in On(ns, i) \cup {Null} /\ t # Header /\ pos[t] \in Nat /\ c < pos[t]
        /\ \A k \in On(ns, i) : c < pos[k] => pos[t] <= pos[k]
    BY <2>1, CutNext, NextFacts DEF c
  <2>3. /\ On(ns2, i) = On(ns, i) \cup (IF i < h THEN {n} ELSE {})
        /\ On(ns, i) \subseteq DOMAIN ns /\ n \notin On(ns, i) /\ Null \notin On(ns, i)
    BY <1>1, <1>2, ShapeFacts
  <2>4. \A k \in On(ns, i) \cup {Null} : p2[k] = 2 * pos[k] /\ pos[k] \in Nat
    BY <1>3, <1>4, <2>3
  <2>5. i < h /\ m = n => s = t
    BY <1>1
  <2>6. m # n => m \in On(ns, i) /\ s = IF i < h /\ a = m THEN n ELSE f
    BY <1>1, <2>3
  <2>7. m # n => /\ f \in On(ns, i) \cup {Null} /\ f # Header /\ pos[f] \in Nat
                 /\ pos[m] \in Nat /\ pos[m] < pos[f]
                 /\ \A k \in On(ns, i) : pos[m] < pos[k] => pos[f] <= pos[k]
    BY <2>6, NextFacts
  <2> HIDE DEF a, t, f
  <2>8. SUFFICES /\ s \in On(ns2, i) \cup {Null} /\ s # Header
                 /\ p2[m] < p2[s]
                 /\ \A k \in On(ns2, i) : p2[m] < p2[k] => p2[s] <= p2[k]
    <3>1. \A k \in On(ns2, i) : k \in DOMAIN ns2 /\ k # Null
      BY <1>1, ShapeFacts
    <3>2. s \in Ptr(ns2) /\ (s # Null => s \in On(ns2, i))
      BY <2>8, <3>1 DEF Ptr
    <3> QED
      BY <2>8, <3>2 DEF LinksNext
  <2> HIDE DEF s
  <2>9. CASE m = n
    <3>1. i < h
      BY <2>3, <2>9
    <3>2. s = t
      BY <2>5, <2>9, <3>1
    <3>3. p2[m] = 2 * c + 1 /\ p2[s] = 2 * pos[t]
      BY <1>3, <2>2, <2>4, <2>9, <3>2
    <3>4. p2[m] < p2[s]
      BY <1>5, <2>2, <3>3
    <3>5. ASSUME NEW k \in On(ns2, i), p2[m] < p2[k] PROVE p2[s] <= p2[k]
      <4>1. k # n
        BY <1>3, <1>5, <2>9, <3>5
      <4>2. k \in On(ns, i)
        BY <2>3, <4>1
      <4>3. p2[k] = 2 * pos[k] /\ pos[k] \in Nat
        BY <2>4, <4>2
      <4>4. c < pos[k]
        BY <1>5, <3>3, <3>5, <4>3
      <4>5. pos[t] <= pos[k]
        BY <2>2, <4>2, <4>4
      <4> QED
        BY <2>2, <3>3, <4>3, <4>5
    <3> QED
      BY <2>2, <2>3, <3>2, <3>4, <3>5
  <2>10. CASE m # n /\ i < h /\ m = a
    <3>1. s = n /\ m \in On(ns, i)
      BY <2>6, <2>10
    <3>2. p2[m] = 2 * pos[a] /\ p2[s] = 2 * c + 1
      BY <1>3, <2>4, <2>10, <3>1
    <3>3. p2[m] < p2[s]
      BY <1>5, <2>1, <3>2
    <3>4. ASSUME NEW k \in On(ns2, i), p2[m] < p2[k] PROVE p2[s] <= p2[k]
      <4>1. CASE k = n
        BY <1>5, <3>1, <3>2, <4>1
      <4>2. CASE k # n
        <5>1. k \in On(ns, i)
          BY <2>3, <4>2
        <5>2. p2[k] = 2 * pos[k] /\ pos[k] \in Nat
          BY <2>4, <5>1
        <5>3. pos[a] < pos[k]
          BY <2>1, <3>2, <3>4, <5>2
        <5>4. ~(pos[k] <= c)
          BY <2>1, <5>1, <5>2, <5>3
        <5> QED
          BY <1>5, <3>2, <5>2, <5>4
      <4> QED
        BY <4>1, <4>2
    <3>5. s \in On(ns2, i) /\ s # Header
      BY <1>1, <2>3, <2>10, <3>1
    <3> QED
      BY <3>3, <3>4, <3>5
  <2>11. CASE m # n /\ ~(i < h /\ m = a)
    <3>1. s = f /\ m \in On(ns, i)
      BY <2>6, <2>11
    <3>2. p2[m] = 2 * pos[m] /\ p2[s] = 2 * pos[f]
      BY <2>4, <2>7, <2>11, <3>1
    <3>3. p2[m] < p2[s]
      BY <2>7, <2>11, <3>2
    <3>4. ASSUME NEW k \in On(ns2, i), p2[m] < p2[k] PROVE p2[s] <= p2[k]
      <4>1. CASE k = n
        <5>1. i < h /\ m # a
          BY <2>3, <2>11, <4>1
        <5>2. p2[k] = 2 * c + 1
          BY <1>3, <4>1
        <5>3. pos[m] <= c
          BY <1>5, <2>7, <2>11, <3>2, <3>4, <5>2
        <5>4. pos[m] <= pos[a] /\ pos[m] # pos[a]
          BY <1>4, <2>1, <2>3, <3>1, <5>1, <5>3
        <5>5. pos[f] <= pos[a]
          BY <2>1, <2>7, <2>11, <5>4
        <5> QED
          BY <1>5, <2>1, <2>7, <2>11, <3>2, <5>2, <5>5
      <4>2. CASE k # n
        <5>1. k \in On(ns, i)
          BY <2>3, <4>2
        <5>2. p2[k] = 2 * pos[k] /\ pos[k] \in Nat
          BY <2>4, <5>1
        <5>3. pos[m] < pos[k]
          BY <2>7, <2>11, <3>2, <3>4, <5>2
        <5>4. pos[f] <= pos[k]
          BY <2>7, <2>11, <5>1, <5>3
        <5> QED
          BY <2>7, <2>11, <3>2, <5>2, <5>4
      <4> QED
        BY <4>1, <4>2
    <3>5. s \in On(ns2, i) \cup {Null} /\ s # Header
      BY <2>3, <2>7, <2>11, <3>1
    <3> QED
      BY <3>3, <3>4, <3>5
  <2> QED
    BY <2>9, <2>10, <2>11
<1>10. Laid(ns2, p2)
  BY <1>6, <1>7, <1>8, <1>9 DEF Laid
<1> QED
  BY <1>10 DEF p2

-----------------------------------------------------------------------------
(* A node is removed: at each of its levels the node that points at it is  *)
(* led to the one after it.                                                *)

RemovedAt(ns, ns2, t) ==
  /\ t \in DOMAIN ns /\ t # Header
  /\ DOMAIN ns2 = DOMAIN ns \ {t}
  /\ \A m \in DOMAIN ns2 :
       ns2[m] = [item |-> ns[m].item,
                 forward |-> [i \in DOMAIN ns[m].forward |->
                    IF ns[m].forward[i] = t THEN ns[t].forward[i]
                    ELSE ns[m].forward[i]]]

LEMMA RemoveShape ==
  ASSUME NEW ns, Shape(ns), NEW pos, Laid(ns, pos),
         NEW ns2, NEW t, RemovedAt(ns, ns2, t)
  PROVE  /\ Shape(ns2)
         /\ \A i : On(ns2, i) = On(ns, i) \ {t}
         /\ \A i : \A m \in On(ns2, i) :
              ns2[m].forward[i] = IF ns[m].forward[i] = t THEN ns[t].forward[i]
                                  ELSE ns[m].forward[i]
<1>1. /\ DOMAIN ns2 = DOMAIN ns \ {t} /\ Header \in DOMAIN ns2 /\ t \in DOMAIN ns
      /\ t # Header /\ t # Null
  BY ShapeFacts DEF RemovedAt, Shape
<1>2. Ptr(ns2) = Ptr(ns) \ {t}
  BY <1>1 DEF Ptr
<1>3. ASSUME NEW m \in DOMAIN ns2
      PROVE  /\ ns2[m].item = ns[m].item /\ DOMAIN ns2[m].forward = DOMAIN ns[m].forward
             /\ \A i \in DOMAIN ns[m].forward :
                  ns2[m].forward[i] = IF ns[m].forward[i] = t THEN ns[t].forward[i]
                                      ELSE ns[m].forward[i]
  BY DEF RemovedAt
<1>4. \A i : On(ns2, i) = On(ns, i) \ {t}
  BY <1>1, <1>3 DEF On
<1>5. ASSUME NEW m \in DOMAIN ns2, NEW i \in DOMAIN ns[m].forward
      PROVE  ns2[m].forward[i] \in Ptr(ns2)
  <2> DEFINE f == ns[m].forward[i]
             g == ns[t].forward[i]
  <2>1. m \in On(ns, i)
    BY <1>1, <1>5 DEF On
  <2>2. f \in Ptr(ns) /\ (f # Null => f \in On(ns, i))
    BY <2>1, ShapeFacts DEF Laid, LinksNext
  <2>3. ns2[m].forward[i] = IF f = t THEN g ELSE f
    BY <1>3, <1>5
  <2>4. f = t => g \in Ptr(ns) /\ g # t
    <3>1. f = t => t \in On(ns, i)
      BY <1>1, <2>2
    <3>2. t \in On(ns, i) => g \in Ptr(ns) /\ pos[t] \in Nat /\ pos[g] \in Nat /\ pos[t] < pos[g]
      BY ShapeFacts, NextFacts DEF Laid, LinksNext
    <3> QED
      BY <3>1, <3>2
  <2> QED
    BY <1>2, <2>2, <2>3, <2>4
<1>6. ASSUME NEW m \in DOMAIN ns2
      PROVE  \E g \in 1 .. MaxLevel :
        ns2[m] \in [item : Items \cup {Null}, forward : [0 .. g - 1 -> Ptr(ns2)]]
  <2>1. m \in DOMAIN ns
    BY <1>1
  <2>2. PICK g \in 1 .. MaxLevel :
          ns[m] \in [item : Items \cup {Null}, forward : [0 .. g - 1 -> Ptr(ns)]]
    BY <2>1 DEF Shape
  <2> DEFINE f2 == [i \in DOMAIN ns[m].forward |->
                      IF ns[m].forward[i] = t THEN ns[t].forward[i]
                      ELSE ns[m].forward[i]]
  <2>3. ns[m].item \in Items \cup {Null} /\ DOMAIN ns[m].forward = 0 .. g - 1
    BY <2>2
  <2>4. ns2[m] = [item |-> ns[m].item, forward |-> f2]
    BY DEF RemovedAt
  <2>5. \A i \in 0 .. g - 1 : f2[i] \in Ptr(ns2)
    <3>1. ns2[m].forward = f2
      BY <2>4
    <3> QED
      BY <1>5, <2>3, <3>1
  <2>6. f2 \in [0 .. g - 1 -> Ptr(ns2)]
    BY <2>3, <2>5
  <2> HIDE DEF f2
  <2>7. ns2[m] \in [item : Items \cup {Null}, forward : [0 .. g - 1 -> Ptr(ns2)]]
    BY <2>3, <2>4, <2>6
  <2> QED
    BY <2>7
<1>7. Shape(ns2)
  <2>1. IsFiniteSet(DOMAIN ns2)
    BY <1>1, FS_RemoveElement DEF Shape
  <2>2. DOMAIN ns2 \subseteq Ids \cup {Header}
    BY <1>1 DEF Shape
  <2>3. DOMAIN ns2[Header].forward = Levels
    BY <1>1, <1>3 DEF Shape
  <2>4. \A m \in DOMAIN ns2 \ {Header} : ns2[m].item \in Items
    BY <1>1, <1>3 DEF Shape
  <2> QED
    BY <1>1, <1>6, <2>1, <2>2, <2>3, <2>4 DEF Shape
<1>8. ASSUME NEW i, NEW m \in On(ns2, i)
      PROVE  ns2[m].forward[i] = IF ns[m].forward[i] = t THEN ns[t].forward[i]
                                 ELSE ns[m].forward[i]
  BY <1>3 DEF On
<1> QED
  BY <1>4, <1>7, <1>8

LEMMA RemoveLaid ==
  ASSUME NEW ns, Shape(ns), NEW pos, Laid(ns, pos),
         NEW ns2, NEW t, RemovedAt(ns, ns2, t)
  PROVE  Laid(ns2, pos)
<1>1. /\ Shape(ns2) /\ \A i : On(ns2, i) = On(ns, i) \ {t}
      /\ \A i : \A m \in On(ns2, i) :
           ns2[m].forward[i] = IF ns[m].forward[i] = t THEN ns[t].forward[i]
                               ELSE ns[m].forward[i]
  BY RemoveShape
<1>2. DOMAIN ns2 \subseteq DOMAIN ns /\ t \in DOMAIN ns
  BY DEF RemovedAt
<1>3. ASSUME NEW i \in Levels, NEW m \in On(ns2, i) PROVE LinksNext(ns2, pos, i, m)
  <2> DEFINE f == ns[m].forward[i]
             g == ns[t].forward[i]
             s == ns2[m].forward[i]
  <2>1. /\ m \in On(ns, i) /\ m # t /\ On(ns2, i) = On(ns, i) \ {t}
        /\ s = IF f = t THEN g ELSE f
    BY <1>1
  <2>2. /\ f \in On(ns, i) \cup {Null} /\ f # Header /\ pos[f] \in Nat
        /\ pos[m] \in Nat /\ pos[m] < pos[f]
        /\ \A k \in On(ns, i) : pos[m] < pos[k] => pos[f] <= pos[k]
    BY <2>1, NextFacts
  <2>3. t \in On(ns, i) =>
          /\ g \in On(ns, i) \cup {Null} /\ g # Header /\ pos[g] \in Nat
          /\ pos[t] \in Nat /\ pos[t] < pos[g]
          /\ \A k \in On(ns, i) : pos[t] < pos[k] => pos[g] <= pos[k]
    BY NextFacts
  <2>4. \A k \in On(ns, i) : pos[k] = pos[t] => k = t
    BY <1>2, LaidFacts, ShapeFacts
  <2>5. \A k \in On(ns, i) : pos[k] \in Nat
    BY LaidFacts, ShapeFacts
  <2>6. t # Null
    BY <1>2, ShapeFacts
  <2> HIDE DEF f, g
  <2>7. SUFFICES /\ s \in On(ns2, i) \cup {Null} /\ s # Header
                 /\ pos[m] < pos[s]
                 /\ \A k \in On(ns2, i) : pos[m] < pos[k] => pos[s] <= pos[k]
    <3>1. \A k \in On(ns2, i) : k \in DOMAIN ns2 /\ k # Null
      BY <1>1, ShapeFacts
    <3>2. s \in Ptr(ns2) /\ (s # Null => s \in On(ns2, i))
      BY <2>7, <3>1 DEF Ptr
    <3> QED
      BY <2>7, <3>2 DEF LinksNext
  <2> HIDE DEF s
  <2>8. CASE f = t
    <3>1. t \in On(ns, i) /\ s = g
      BY <2>1, <2>2, <2>6, <2>8
    <3>2. g # t
      BY <2>3, <3>1
    <3>3. ASSUME NEW k \in On(ns2, i), pos[m] < pos[k] PROVE pos[g] <= pos[k]
      <4>1. k \in On(ns, i) /\ k # t /\ pos[k] \in Nat
        BY <2>1, <2>5
      <4>2. pos[t] <= pos[k] /\ pos[t] # pos[k]
        BY <2>2, <2>4, <2>8, <3>3, <4>1
      <4> QED
        BY <2>3, <3>1, <4>1, <4>2
    <3>4. pos[m] < pos[g]
      BY <2>2, <2>3, <2>8, <3>1
    <3> QED
      BY <2>1, <2>3, <3>1, <3>2, <3>3, <3>4
  <2>9. CASE f # t
    BY <2>1, <2>2, <2>9
  <2> QED
    BY <2>8, <2>9
<1> QED
  <2>1. \A m \in DOMAIN ns2 \cup {Null} : pos[m] \in Nat
    BY <1>2 DEF Laid
  <2>2. \A m, k \in DOMAIN ns2 \cup {Null} : pos[m] = pos[k] => m = k
    BY <1>2 DEF Laid
  <2>3. \A m \in DOMAIN ns2 : pos[m] < pos[Null] /\ (m # Header => pos[Header] < pos[m])
    BY <1>2 DEF Laid
  <2> QED
    BY <1>3, <2>1, <2>2, <2>3 DEF Laid

-----------------------------------------------------------------------------
(* Sequences in the order of the numbers                                   *)

Sorts(pos, S, s) ==
  /\ s \in Seq(S) /\ \A x \in S : \E p \in 1 .. Len(s) : s[p] = x
  /\ \A p, q \in 1 .. Len(s) : p < q => pos[s[p]] < pos[s[q]]

LEMMA SortsFacts ==
  ASSUME NEW pos, NEW S, NEW s, Sorts(pos, S, s), \A x \in S : pos[x] \in Nat
  PROVE  /\ Len(s) \in Nat /\ \A p \in 1 .. Len(s) : s[p] \in S
         /\ \A p, q \in 1 .. Len(s) : s[p] = s[q] => p = q
         /\ \A p, q \in 1 .. Len(s) : pos[s[p]] < pos[s[q]] => p < q
<1>1. Len(s) \in Nat /\ s \in [1 .. Len(s) -> S]
  BY LenProperties DEF Sorts
<1>2. \A p \in 1 .. Len(s) : s[p] \in S /\ pos[s[p]] \in Nat
  BY <1>1
<1>3. \A p, q \in 1 .. Len(s) : p < q => pos[s[p]] < pos[s[q]]
  BY DEF Sorts
<1>4. ASSUME NEW p \in 1 .. Len(s), NEW q \in 1 .. Len(s), s[p] = s[q] PROVE p = q
  <2>1. ~(p < q) /\ ~(q < p)
    BY <1>2, <1>3, <1>4
  <2> QED
    BY <1>1, <2>1
<1>5. ASSUME NEW p \in 1 .. Len(s), NEW q \in 1 .. Len(s), pos[s[p]] < pos[s[q]] PROVE p < q
  <2>1. p # q /\ ~(q < p)
    BY <1>2, <1>3, <1>5
  <2> QED
    BY <1>1, <2>1
<1> QED
  BY <1>1, <1>2, <1>4, <1>5

(* Such a sequence begins every other one of its set.                      *)
LEMMA SortsPrefix ==
  ASSUME NEW pos, NEW S, NEW s, Sorts(pos, S, s), NEW t, Sorts(pos, S, t),
         \A x \in S : pos[x] \in Nat
  PROVE  \A p \in 1 .. Len(s) : p \in 1 .. Len(t) /\ s[p] = t[p]
<1> DEFINE D == {p \in 1 .. Len(s) : ~(p \in 1 .. Len(t) /\ s[p] = t[p])}
<1>1. /\ Len(s) \in Nat /\ \A p \in 1 .. Len(s) : s[p] \in S
      /\ Len(t) \in Nat /\ \A p \in 1 .. Len(t) : t[p] \in S
      /\ \A p, q \in 1 .. Len(s) : s[p] = s[q] => p = q
      /\ \A p, q \in 1 .. Len(t) : t[p] = t[q] => p = q
  BY SortsFacts
<1>2. /\ \A x \in S : \E p \in 1 .. Len(s) : s[p] = x
      /\ \A x \in S : \E p \in 1 .. Len(t) : t[p] = x
      /\ \A p, q \in 1 .. Len(s) : p < q => pos[s[p]] < pos[s[q]]
      /\ \A p, q \in 1 .. Len(t) : p < q => pos[t[p]] < pos[t[q]]
  BY DEF Sorts
<1>3. D = {}
  <2> SUFFICES ASSUME D # {} PROVE FALSE
    OBVIOUS
  <2>1. D \in SUBSET Nat
    OBVIOUS
  <2>2. PICK p \in D : \A k \in D : p <= k
    <3> HIDE DEF D
    <3> QED
      BY <2>1, LeastNumber
  <2>3. p \in 1 .. Len(s) /\ ~(p \in 1 .. Len(t) /\ s[p] = t[p])
    OBVIOUS
  <2>4. \A k \in 1 .. Len(s) : k < p => k \in 1 .. Len(t) /\ s[k] = t[k]
    BY <1>1, <2>2
  <2> HIDE DEF D
  <2>5. PICK q \in 1 .. Len(t) : t[q] = s[p]
    BY <1>1, <1>2, <2>3
  <2>6. ~(q < p)
    <3> SUFFICES ASSUME q < p PROVE FALSE
      OBVIOUS
    <3>1. q \in 1 .. Len(s)
      BY <1>1, <2>3
    <3> QED
      BY <1>1, <2>3, <2>4, <2>5, <3>1
  <2>7. p \in 1 .. Len(t) /\ q # p
    BY <1>1, <2>3, <2>5, <2>6
  <2>8. PICK r \in 1 .. Len(s) : s[r] = t[p]
    BY <1>1, <1>2, <2>7
  <2>9. ~(r < p)
    <3> SUFFICES ASSUME r < p PROVE FALSE
      OBVIOUS
    <3>1. s[r] = t[r] /\ r \in 1 .. Len(t)
      BY <2>4
    <3>2. r = p
      BY <1>1, <2>7, <2>8, <3>1
    <3>3. p \in Nat
      BY <2>7
    <3> QED
      BY <3>2, <3>3
  <2>10. r # p
    BY <2>3, <2>7, <2>8
  <2>11. p < q /\ p < r
    BY <1>1, <2>3, <2>6, <2>7, <2>9, <2>10
  <2>12. pos[t[p]] < pos[t[q]] /\ pos[s[p]] < pos[s[r]]
    BY <1>2, <2>3, <2>7, <2>11
  <2>13. pos[t[p]] \in Nat /\ pos[s[p]] \in Nat
    BY <1>1, <2>3, <2>7
  <2> QED
    BY <2>5, <2>8, <2>12, <2>13
<1> QED
  BY <1>3

LEMMA SortsUnique ==
  ASSUME NEW pos, NEW S, NEW s, Sorts(pos, S, s), NEW t, Sorts(pos, S, t),
         \A x \in S : pos[x] \in Nat
  PROVE  s = t
<1>1. \A p \in 1 .. Len(s) : p \in 1 .. Len(t) /\ s[p] = t[p]
  BY SortsPrefix
<1>2. \A p \in 1 .. Len(t) : p \in 1 .. Len(s) /\ t[p] = s[p]
  BY SortsPrefix
<1>3. s \in Seq(S) /\ t \in Seq(S) /\ Len(s) \in Nat /\ Len(t) \in Nat
  BY LenProperties DEF Sorts
<1>4. Len(s) = Len(t)
  <2>1. Len(s) <= Len(t)
    BY <1>1, <1>3
  <2>2. Len(t) <= Len(s)
    BY <1>2, <1>3
  <2> QED
    BY <1>3, <2>1, <2>2
<1> QED
  BY <1>1, <1>3, <1>4, SeqEqual

LEMMA SortsNone == \A pos : Sorts(pos, {}, <<>>)
<1>1. <<>> \in Seq({}) /\ Len(<<>>) = 0
  BY EmptySeq
<1> QED
  BY <1>1 DEF Sorts

(* A first element in front.                                               *)
LEMMA SortsCons ==
  ASSUME NEW pos, NEW S, NEW s, Sorts(pos, S, s), NEW x, \A y \in S : pos[x] < pos[y]
  PROVE  Sorts(pos, S \cup {x}, <<x>> \o s)
<1> DEFINE T == S \cup {x}
           t == <<x>> \o s
<1>1. /\ s \in Seq(S) /\ Len(s) \in Nat /\ s \in [1 .. Len(s) -> S]
      /\ \A y \in S : \E p \in 1 .. Len(s) : s[p] = y
      /\ \A p, q \in 1 .. Len(s) : p < q => pos[s[p]] < pos[s[q]]
  BY LenProperties DEF Sorts
<1>2. s \in Seq(T) /\ <<x>> \in Seq(T) /\ Len(<<x>>) = 1 /\ <<x>>[1] = x
  BY <1>1, SeqMonotonic
<1>3. /\ t \in Seq(T) /\ Len(t) = 1 + Len(s)
      /\ \A i \in 1 .. 1 + Len(s) : t[i] = IF i <= 1 THEN x ELSE s[i - 1]
  <2> HIDE DEF T
  <2>1. /\ t \in Seq(T) /\ Len(t) = 1 + Len(s)
        /\ \A i \in 1 .. 1 + Len(s) :
             t[i] = IF i <= 1 THEN <<x>>[i] ELSE s[i - 1]
    BY <1>2, ConcatProperties
  <2>2. \A i \in 1 .. 1 + Len(s) : i <= 1 => i = 1
    OBVIOUS
  <2> QED
    BY <1>2, <2>1, <2>2
<1> HIDE DEF t
<1>4. t[1] = x /\ \A p \in 1 .. Len(s) : t[p + 1] = s[p]
  <2>1. 1 \in 1 .. 1 + Len(s) /\ 1 <= 1
    BY <1>1
  <2>2. \A p \in 1 .. Len(s) : /\ p + 1 \in 1 .. 1 + Len(s) /\ ~(p + 1 <= 1)
                               /\ (p + 1) - 1 = p
    BY <1>1
  <2> QED
    BY <1>3, <2>1, <2>2
<1>5. ASSUME NEW y \in T PROVE \E p \in 1 .. Len(t) : t[p] = y
  <2>1. CASE y = x
    BY <1>1, <1>3, <1>4, <2>1
  <2>2. CASE y # x
    <3>1. PICK p \in 1 .. Len(s) : s[p] = y
      BY <1>1, <2>2
    <3>2. p + 1 \in 1 .. Len(t) /\ t[p + 1] = y
      BY <1>1, <1>3, <1>4, <3>1
    <3> QED
      BY <3>2
  <2> QED
    BY <2>1, <2>2
<1>6. ASSUME NEW p \in 1 .. Len(t), NEW q \in 1 .. Len(t), p < q
      PROVE  pos[t[p]] < pos[t[q]]
  <2>1. q - 1 \in 1 .. Len(s) /\ t[q] = s[q - 1] /\ s[q - 1] \in S
    <3>1. q \in 1 .. 1 + Len(s) /\ ~(q <= 1) /\ q - 1 \in 1 .. Len(s)
      BY <1>1, <1>3, <1>6
    <3> QED
      BY <1>1, <1>3, <3>1
  <2>2. CASE p = 1
    BY <1>4, <2>1, <2>2
  <2>3. CASE p # 1
    <3>1. p \in 1 .. 1 + Len(s) /\ ~(p <= 1) /\ p - 1 \in 1 .. Len(s) /\ p - 1 < q - 1
      BY <1>1, <1>3, <1>6, <2>3
    <3>2. t[p] = s[p - 1]
      BY <1>3, <3>1
    <3> QED
      BY <1>1, <2>1, <3>1, <3>2
  <2> QED
    BY <2>2, <2>3
<1> QED
  BY <1>3, <1>5, <1>6 DEF Sorts, t

(* Every finite set can be put in order: there is no smallest one that     *)
(* cannot.                                                                 *)
LEMMA SortsExists ==
  ASSUME NEW S, IsFiniteSet(S), NEW pos, \A x \in S : pos[x] \in Nat,
         \A x, y \in S : pos[x] = pos[y] => x = y
  PROVE  \E s : Sorts(pos, S, s)
<1> DEFINE Has(T) == \E s : Sorts(pos, T, s)
           D == {n \in Nat : \E T \in SUBSET S : Cardinality(T) = n /\ ~Has(T)}
<1>1. ASSUME NEW T \in SUBSET S
      PROVE  /\ IsFiniteSet(T) /\ Cardinality(T) \in Nat
             /\ \A x \in T : Cardinality(T \ {x}) = Cardinality(T) - 1
  <2>1. IsFiniteSet(T)
    BY FS_Subset
  <2> QED
    BY <2>1, FS_CardinalityType, FS_RemoveElement
<1>2. Has({})
  BY SortsNone
<1>3. ASSUME NEW T \in SUBSET S, T # {},
             \A U \in SUBSET S : Cardinality(U) = Cardinality(T) - 1 => Has(U)
      PROVE  Has(T)
  <2>1. \A x \in T : pos[x] \in Nat
    OBVIOUS
  <2>2. PICK x \in T : \A y \in T : pos[x] <= pos[y]
    BY <1>3, <2>1, FirstOf
  <2> DEFINE U == T \ {x}
  <2>3. U \in SUBSET S /\ Cardinality(U) = Cardinality(T) - 1
    BY <1>1
  <2>4. PICK s : Sorts(pos, U, s)
    BY <1>3, <2>3
  <2>5. \A y \in U : pos[x] < pos[y]
    <3> TAKE y \in U
    <3>1. pos[x] <= pos[y] /\ pos[x] # pos[y] /\ pos[x] \in Nat /\ pos[y] \in Nat
      BY <2>2
    <3> QED
      BY <3>1
  <2>6. T = U \cup {x}
    OBVIOUS
  <2> HIDE DEF U
  <2>7. Sorts(pos, U \cup {x}, <<x>> \o s)
    BY <2>4, <2>5, SortsCons
  <2> QED
    BY <2>6, <2>7
<1> HIDE DEF Has
<1>4. D = {}
  <2> SUFFICES ASSUME D # {} PROVE FALSE
    OBVIOUS
  <2>1. D \in SUBSET Nat
    OBVIOUS
  <2>2. PICK n \in D : \A k \in D : n <= k
    <3> HIDE DEF D
    <3> QED
      BY <2>1, LeastNumber
  <2>3. PICK T \in SUBSET S : Cardinality(T) = n /\ ~Has(T)
    OBVIOUS
  <2>4. ASSUME NEW U \in SUBSET S, Cardinality(U) = Cardinality(T) - 1 PROVE Has(U)
    <3>1. Cardinality(U) \in Nat /\ ~(n <= Cardinality(U))
      BY <1>1, <2>3, <2>4
    <3>2. Cardinality(U) \notin D
      BY <2>2, <3>1
    <3> QED
      BY <3>1, <3>2
  <2>5. T # {}
    BY <1>2, <2>3
  <2> QED
    BY <1>3, <2>3, <2>4, <2>5
<1>5. Has(S)
  BY <1>1, <1>4
<1> QED
  BY <1>5 DEF Has

LEMMA SortsLen ==
  ASSUME NEW pos, NEW S, NEW s, Sorts(pos, S, s), \A x \in S : pos[x] \in Nat
  PROVE  IsFiniteSet(S) /\ Cardinality(S) = Len(s)
<1>1. /\ Len(s) \in Nat /\ s \in [1 .. Len(s) -> S]
      /\ \A x \in S : \E p \in 1 .. Len(s) : s[p] = x
      /\ \A p, q \in 1 .. Len(s) : s[p] = s[q] => p = q
  <2>1. Len(s) \in Nat /\ s \in [1 .. Len(s) -> S]
    BY LenProperties DEF Sorts
  <2>2. \A x \in S : \E p \in 1 .. Len(s) : s[p] = x
    BY DEF Sorts
  <2>3. \A p, q \in 1 .. Len(s) : s[p] = s[q] => p = q
    BY SortsFacts
  <2> QED
    BY <2>1, <2>2, <2>3
<1>2. IsFiniteSet(1 .. Len(s)) /\ Cardinality(1 .. Len(s)) = Len(s)
  BY <1>1, FS_Interval
<1>3. s \in Surjection(1 .. Len(s), S) /\ s \in Injection(1 .. Len(s), S)
  BY <1>1 DEF Surjection, Injection, IsInjective
<1>4. IsFiniteSet(S) /\ Cardinality(S) = Cardinality(1 .. Len(s))
  BY <1>2, <1>3, FS_Surjection
<1> QED
  BY <1>2, <1>4

(* A last element behind.                                                  *)
LEMMA SortsAppend ==
  ASSUME NEW pos, NEW S, NEW s, Sorts(pos, S, s), NEW x, \A y \in S : pos[y] < pos[x]
  PROVE  Sorts(pos, S \cup {x}, Append(s, x))
<1> DEFINE T == S \cup {x}
           t == Append(s, x)
<1>1. /\ s \in Seq(S) /\ Len(s) \in Nat /\ s \in [1 .. Len(s) -> S]
      /\ \A y \in S : \E p \in 1 .. Len(s) : s[p] = y
      /\ \A p, q \in 1 .. Len(s) : p < q => pos[s[p]] < pos[s[q]]
  BY LenProperties DEF Sorts
<1>2. s \in Seq(T)
  BY <1>1, SeqMonotonic
<1>3. /\ t \in Seq(T) /\ Len(t) = Len(s) + 1 /\ t[Len(s) + 1] = x
      /\ \A p \in 1 .. Len(s) : t[p] = s[p]
  BY <1>2, AppendProperties
<1> HIDE DEF t
<1>4. ASSUME NEW y \in T PROVE \E p \in 1 .. Len(t) : t[p] = y
  <2>1. CASE y = x
    BY <1>1, <1>3, <2>1
  <2>2. CASE y # x
    <3>1. PICK p \in 1 .. Len(s) : s[p] = y
      BY <1>1, <2>2
    <3>2. p \in 1 .. Len(t) /\ t[p] = y
      BY <1>1, <1>3, <3>1
    <3> QED
      BY <3>2
  <2> QED
    BY <2>1, <2>2
<1>5. ASSUME NEW p \in 1 .. Len(t), NEW q \in 1 .. Len(t), p < q
      PROVE  pos[t[p]] < pos[t[q]]
  <2>1. p \in 1 .. Len(s) /\ t[p] = s[p] /\ s[p] \in S
    BY <1>1, <1>3, <1>5
  <2>2. CASE q = Len(s) + 1
    BY <1>3, <2>1, <2>2
  <2>3. CASE q # Len(s) + 1
    <3>1. q \in 1 .. Len(s)
      BY <1>1, <1>3, <2>3
    <3> QED
      BY <1>1, <1>3, <1>5, <2>1, <3>1
  <2> QED
    BY <2>2, <2>3
<1> QED
  BY <1>3, <1>4, <1>5 DEF Sorts, t

-----------------------------------------------------------------------------
(* The nodes of a level                                                    *)

ListLaw(ns, i, f) ==
  f = [m \in On(ns, i) \cup {Null} |->
         IF m = Null THEN <<>> ELSE <<m>> \o f[ns[m].forward[i]]]
ListOf(ns, i) == CHOOSE f : ListLaw(ns, i, f)
Rest(ns, pos, i, m) == {k \in On(ns, i) : pos[m] <= pos[k]}

LEMMA RestFacts ==
  ASSUME NEW ns, Shape(ns), NEW pos, Laid(ns, pos), NEW i
  PROVE  /\ Rest(ns, pos, i, Null) = {}
         /\ \A m \in On(ns, i) :
              /\ ns[m].forward[i] \in On(ns, i) \cup {Null}
              /\ Rest(ns, pos, i, m) = Rest(ns, pos, i, ns[m].forward[i]) \cup {m}
              /\ \A k \in Rest(ns, pos, i, ns[m].forward[i]) : pos[m] < pos[k]
<1>1. \A k \in On(ns, i) : pos[k] \in Nat /\ pos[k] < pos[Null]
  BY LaidFacts, ShapeFacts
<1>2. \A k, m \in On(ns, i) : pos[k] = pos[m] => k = m
  BY LaidFacts, ShapeFacts
<1>3. pos[Null] \in Nat
  BY LaidFacts
<1>4. Rest(ns, pos, i, Null) = {}
  BY <1>1, <1>3 DEF Rest
<1>5. ASSUME NEW m \in On(ns, i)
      PROVE  /\ ns[m].forward[i] \in On(ns, i) \cup {Null}
             /\ Rest(ns, pos, i, m) = Rest(ns, pos, i, ns[m].forward[i]) \cup {m}
             /\ \A k \in Rest(ns, pos, i, ns[m].forward[i]) : pos[m] < pos[k]
  <2> DEFINE t == ns[m].forward[i]
  <2>1. /\ t \in On(ns, i) \cup {Null} /\ pos[t] \in Nat /\ pos[m] < pos[t]
        /\ \A k \in On(ns, i) : pos[m] < pos[k] => pos[t] <= pos[k]
    BY NextFacts
  <2> HIDE DEF t
  <2>2. \A k \in On(ns, i) : pos[m] <= pos[k] <=> k = m \/ pos[t] <= pos[k]
    <3> TAKE k \in On(ns, i)
    <3>1. pos[k] \in Nat /\ pos[m] \in Nat
      BY <1>1
    <3>2. k # m => pos[k] # pos[m]
      BY <1>2
    <3> QED
      BY <2>1, <3>1, <3>2
  <2>3. Rest(ns, pos, i, m) = Rest(ns, pos, i, t) \cup {m}
    BY <2>2 DEF Rest
  <2>4. \A k \in Rest(ns, pos, i, t) : pos[m] < pos[k]
    BY <1>1, <2>1 DEF Rest
  <2> QED
    BY <2>1, <2>3, <2>4 DEF t
<1> QED
  BY <1>4, <1>5

LEMMA ListSolves ==
  ASSUME NEW ns, Shape(ns), NEW pos, Laid(ns, pos), NEW i
  PROVE  ListLaw(ns, i, ListOf(ns, i))
<1> DEFINE R(m) == Rest(ns, pos, i, m)
           Is(T, s) == Sorts(pos, T, s)
           f == [m \in On(ns, i) \cup {Null} |-> CHOOSE s : Is(R(m), s)]
<1>1. /\ R(Null) = {}
      /\ \A m \in On(ns, i) :
           /\ ns[m].forward[i] \in On(ns, i) \cup {Null}
           /\ R(m) = R(ns[m].forward[i]) \cup {m}
           /\ \A k \in R(ns[m].forward[i]) : pos[m] < pos[k]
  BY RestFacts
<1>2. /\ IsFiniteSet(DOMAIN ns) /\ On(ns, i) \subseteq DOMAIN ns /\ Null \notin On(ns, i)
      /\ \A k \in On(ns, i) : pos[k] \in Nat
      /\ \A k, m \in On(ns, i) : pos[k] = pos[m] => k = m
  BY ShapeFacts, LaidFacts DEF Shape
<1>3. \A m : R(m) \subseteq On(ns, i)
  BY DEF Rest
<1> HIDE DEF R
<1>4. ASSUME NEW m \in On(ns, i) \cup {Null} PROVE Is(R(m), f[m])
  <2>1. R(m) \in SUBSET DOMAIN ns
    BY <1>2, <1>3
  <2>2. IsFiniteSet(R(m))
    BY <1>2, <2>1, FS_Subset
  <2>3. \A k \in R(m) : pos[k] \in Nat
    BY <1>2, <1>3
  <2>4. \A k, j \in R(m) : pos[k] = pos[j] => k = j
    BY <1>2, <1>3
  <2>5. \E s : Is(R(m), s)
    BY <2>2, <2>3, <2>4, SortsExists
  <2> HIDE DEF Is
  <2> QED
    BY <2>5
<1>5. \A m : \A s, t : Is(R(m), s) /\ Is(R(m), t) => s = t
  <2> SUFFICES ASSUME NEW m, NEW s, NEW t, Is(R(m), s), Is(R(m), t) PROVE s = t
    OBVIOUS
  <2>1. \A k \in R(m) : pos[k] \in Nat
    BY <1>2, <1>3
  <2> QED
    BY <2>1, SortsUnique
<1>6. f = [m \in On(ns, i) \cup {Null} |-> f[m]]
  OBVIOUS
<1> HIDE DEF f
<1>7. f[Null] = <<>>
  <2>1. Is(R(Null), <<>>)
    BY <1>1, SortsNone
  <2> HIDE DEF Is
  <2> QED
    BY <1>4, <1>5, <2>1
<1>8. ASSUME NEW m \in On(ns, i) PROVE f[m] = <<m>> \o f[ns[m].forward[i]]
  <2> DEFINE t == ns[m].forward[i]
  <2>1. /\ t \in On(ns, i) \cup {Null} /\ R(m) = R(t) \cup {m}
        /\ \A k \in R(t) : pos[m] < pos[k]
    BY <1>1
  <2> HIDE DEF t
  <2>2. Is(R(t), f[t])
    BY <1>4, <2>1
  <2>3. Is(R(t) \cup {m}, <<m>> \o f[t])
    BY <2>1, <2>2, SortsCons
  <2>4. Is(R(m), f[m])
    BY <1>4
  <2>5. f[m] = <<m>> \o f[t]
    <3> HIDE DEF Is
    <3> QED
      BY <1>5, <2>1, <2>3, <2>4
  <2> QED
    BY <2>5 DEF t
<1>9. ASSUME NEW m \in On(ns, i) \cup {Null}
      PROVE  f[m] = IF m = Null THEN <<>> ELSE <<m>> \o f[ns[m].forward[i]]
  BY <1>7, <1>8
<1>10. ListLaw(ns, i, f)
  BY <1>6, <1>9 DEF ListLaw
<1> QED
  BY <1>10 DEF ListOf

LEMMA ListStep ==
  ASSUME NEW ns, Shape(ns), NEW pos, Laid(ns, pos), NEW i
  PROVE  /\ ListOf(ns, i)[Null] = <<>>
         /\ \A m \in On(ns, i) :
              ListOf(ns, i)[m] = <<m>> \o ListOf(ns, i)[ns[m].forward[i]]
<1> DEFINE f == ListOf(ns, i)
<1>1. ListLaw(ns, i, f)
  BY ListSolves
<1> HIDE DEF f
<1>2. f = [m \in On(ns, i) \cup {Null} |->
             IF m = Null THEN <<>> ELSE <<m>> \o f[ns[m].forward[i]]]
  BY <1>1, Zenon DEF ListLaw
<1>3. \A m \in On(ns, i) \cup {Null} :
        f[m] = IF m = Null THEN <<>> ELSE <<m>> \o f[ns[m].forward[i]]
  BY <1>2, Zenon
<1>4. Null \notin On(ns, i)
  BY ShapeFacts
<1> QED
  BY <1>3, <1>4 DEF f

(* The nodes listed from one on are those that do not come before it.      *)
LEMMA ListSorts ==
  ASSUME NEW ns, Shape(ns), NEW pos, Laid(ns, pos), NEW i,
         NEW m \in On(ns, i) \cup {Null}
  PROVE  Sorts(pos, Rest(ns, pos, i, m), ListOf(ns, i)[m])
<1> DEFINE R(k) == Rest(ns, pos, i, k)
           f == ListOf(ns, i)
           Bad == {k \in On(ns, i) \cup {Null} : ~Sorts(pos, R(k), f[k])}
<1>1. /\ R(Null) = {}
      /\ \A k \in On(ns, i) :
           /\ ns[k].forward[i] \in On(ns, i) \cup {Null}
           /\ R(k) = R(ns[k].forward[i]) \cup {k}
           /\ \A j \in R(ns[k].forward[i]) : pos[k] < pos[j]
  BY RestFacts
<1>2. f[Null] = <<>> /\ \A k \in On(ns, i) : f[k] = <<k>> \o f[ns[k].forward[i]]
  BY ListStep
<1>3. /\ pos[Null] \in Nat
      /\ \A k \in On(ns, i) \cup {Null} : pos[k] \in Nat /\ pos[k] <= pos[Null]
  BY LaidFacts, ShapeFacts
<1>4. \A k \in On(ns, i) : pos[k] < pos[ns[k].forward[i]]
  BY NextFacts
<1> HIDE DEF R, f
<1>5. Null \notin Bad
  BY <1>1, <1>2, SortsNone
<1>6. ASSUME NEW k \in Bad PROVE ns[k].forward[i] \in Bad /\ k \in On(ns, i)
  <2> DEFINE t == ns[k].forward[i]
  <2>1. k \in On(ns, i)
    BY <1>5
  <2>2. /\ t \in On(ns, i) \cup {Null} /\ R(k) = R(t) \cup {k}
        /\ \A j \in R(t) : pos[k] < pos[j]
    BY <1>1, <2>1
  <2>3. f[k] = <<k>> \o f[t]
    BY <1>2, <2>1
  <2> HIDE DEF t
  <2>4. Sorts(pos, R(t), f[t]) => Sorts(pos, R(k), f[k])
    <3> SUFFICES ASSUME Sorts(pos, R(t), f[t]) PROVE Sorts(pos, R(k), f[k])
      OBVIOUS
    <3>1. Sorts(pos, R(t) \cup {k}, <<k>> \o f[t])
      BY <2>2, SortsCons
    <3> QED
      BY <2>2, <2>3, <3>1
  <2> QED
    BY <2>1, <2>2, <2>4 DEF t
<1>7. Bad = {}
  <2> SUFFICES ASSUME Bad # {} PROVE FALSE
    OBVIOUS
  <2>1. \A k \in Bad : pos[k] \in Nat /\ pos[k] <= pos[Null]
    BY <1>3
  <2> HIDE DEF Bad
  <2>2. PICK k \in Bad : \A j \in Bad : pos[j] <= pos[k]
    BY <1>3, <2>1, LastOf
  <2> DEFINE t == ns[k].forward[i]
  <2>3. t \in Bad /\ pos[k] < pos[t] /\ pos[t] <= pos[k]
    BY <1>4, <1>6, <2>2
  <2> QED
    BY <2>1, <2>3
<1> QED
  BY <1>7 DEF R, f

-----------------------------------------------------------------------------
(* Subsequences                                                            *)

Kept(s, T, k, p) == IF s[p] \in T THEN Append(k[p - 1], s[p]) ELSE k[p - 1]
KeptLaw(s, T, k) ==
  k = [p \in 0 .. Len(s) |->
         IF p = 0 THEN <<>> ELSE IF s[p] \in T THEN Append(k[p - 1], s[p]) ELSE k[p - 1]]
KeptOf(s, T) == CHOOSE k : KeptLaw(s, T, k)

LEMMA AmongIs == \A s, T : Among(s, T) = KeptOf(s, T)[Len(s)]
  BY DEF Among, KeptOf, KeptLaw

LEMMA KeptStep ==
  ASSUME NEW s, Len(s) \in Nat, NEW T
  PROVE  /\ KeptOf(s, T)[0] = <<>>
         /\ \A p \in 1 .. Len(s) : KeptOf(s, T)[p] = Kept(s, T, KeptOf(s, T), p)
<1> DEFINE n == Len(s)
           Right(k, p) == k[p] = IF p = 0 THEN <<>> ELSE Kept(s, T, k, p)
           Solved(d) == \E k : /\ k = [p \in 0 .. n |-> k[p]]
                               /\ \A p \in 0 .. n : p <= d => Right(k, p)
           D == {d \in 0 .. n : ~Solved(d)}
<1>1. Solved(0)
  <2> DEFINE k == [p \in 0 .. n |-> <<>>]
  <2>1. k = [p \in 0 .. n |-> k[p]]
    OBVIOUS
  <2>2. \A p \in 0 .. n : p <= 0 => p = 0
    OBVIOUS
  <2>3. Right(k, 0)
    OBVIOUS
  <2> HIDE DEF k, Right
  <2> QED
    BY <2>1, <2>2, <2>3
<1>2. ASSUME NEW d \in Nat, d < n, Solved(d) PROVE Solved(d + 1)
  <2>1. PICK k : /\ k = [p \in 0 .. n |-> k[p]]
                 /\ \A p \in 0 .. n : p <= d => Right(k, p)
    BY <1>2
  <2> DEFINE r == Kept(s, T, k, d + 1)
             v == [p \in 0 .. n |-> IF p = d + 1 THEN r ELSE k[p]]
  <2>2. v = [p \in 0 .. n |-> v[p]]
    OBVIOUS
  <2>3. v[d + 1] = r /\ \A p \in 0 .. n : p # d + 1 => v[p] = k[p]
    BY <1>2
  <2> HIDE DEF v
  <2>4. ASSUME NEW p \in 1 .. n, p <= d + 1 PROVE Kept(s, T, v, p) = Kept(s, T, k, p)
    <3>1. p - 1 \in 0 .. n /\ p - 1 # d + 1
      BY <1>2, <2>4
    <3>2. v[p - 1] = k[p - 1]
      BY <2>3, <3>1
    <3> QED
      BY <3>2 DEF Kept
  <2>5. Right(v, d + 1)
    <3>1. d + 1 \in 1 .. n /\ d + 1 <= d + 1 /\ d + 1 # 0
      BY <1>2
    <3>2. Kept(s, T, v, d + 1) = r
      BY <2>4, <3>1
    <3> QED
      BY <2>3, <3>1, <3>2
  <2>6. ASSUME NEW p \in 0 .. n, p <= d PROVE Right(v, p)
    <3>1. Right(k, p) /\ v[p] = k[p]
      BY <1>2, <2>1, <2>3, <2>6
    <3>2. CASE p = 0
      BY <3>1, <3>2
    <3>3. CASE p # 0
      <4>1. p \in 1 .. n /\ p <= d + 1
        BY <1>2, <2>6, <3>3
      <4>2. Kept(s, T, v, p) = Kept(s, T, k, p)
        BY <2>4, <4>1
      <4> QED
        BY <3>1, <3>3, <4>2
    <3> QED
      BY <3>2, <3>3
  <2>7. \A p \in 0 .. n : p <= d + 1 => p <= d \/ p = d + 1
    BY <1>2
  <2> HIDE DEF Right
  <2>8. \A p \in 0 .. n : p <= d + 1 => Right(v, p)
    BY <2>5, <2>6, <2>7
  <2> QED
    BY <2>2, <2>8
<1> HIDE DEF Solved
<1>3. D = {}
  <2> SUFFICES ASSUME D # {} PROVE FALSE
    OBVIOUS
  <2>0. D \in SUBSET Nat
    OBVIOUS
  <2>1. PICK d \in D : \A e \in D : d <= e
    <3> HIDE DEF D
    <3> QED
      BY <2>0, LeastNumber
  <2>2. d \in Nat /\ d <= n /\ ~Solved(d) /\ d # 0
    BY <1>1
  <2>3. d - 1 \in 0 .. n /\ d - 1 \notin D /\ (d - 1) + 1 = d /\ d - 1 \in Nat /\ d - 1 < n
    BY <2>1, <2>2
  <2>4. Solved(d - 1)
    BY <2>3
  <2> QED
    BY <1>2, <2>2, <2>3, <2>4
<1>4. Solved(n)
  BY <1>3
<1>5. PICK k : /\ k = [p \in 0 .. n |-> k[p]]
               /\ \A p \in 0 .. n : p <= n => Right(k, p)
  BY <1>4 DEF Solved
<1>6. \A p \in 0 .. n : k[p] = IF p = 0 THEN <<>> ELSE
        IF s[p] \in T THEN Append(k[p - 1], s[p]) ELSE k[p - 1]
  <2> TAKE p \in 0 .. n
  <2>1. p <= n
    OBVIOUS
  <2>2. Right(k, p)
    BY <1>5, <2>1
  <2> QED
    BY <2>2, Zenon DEF Kept
<1>7. KeptLaw(s, T, k)
  BY <1>5, <1>6 DEF KeptLaw
<1> DEFINE t == KeptOf(s, T)
<1>8. KeptLaw(s, T, t)
  BY <1>7 DEF KeptOf
<1> HIDE DEF t
<1>9. t = [p \in 0 .. Len(s) |->
             IF p = 0 THEN <<>> ELSE IF s[p] \in T THEN Append(t[p - 1], s[p]) ELSE t[p - 1]]
  BY <1>8, Zenon DEF KeptLaw
<1>10. \A p \in 0 .. Len(s) : t[p] =
         IF p = 0 THEN <<>> ELSE IF s[p] \in T THEN Append(t[p - 1], s[p]) ELSE t[p - 1]
  BY <1>9, Zenon
<1>11. t[0] = <<>>
  <2>1. 0 \in 0 .. Len(s)
    OBVIOUS
  <2> QED
    BY <1>10, <2>1
<1>12. \A p \in 1 .. Len(s) : t[p] = Kept(s, T, t, p)
  <2> TAKE p \in 1 .. Len(s)
  <2>1. p \in 0 .. Len(s) /\ p # 0
    OBVIOUS
  <2> QED
    BY <1>10, <2>1 DEF Kept
<1> QED
  BY <1>11, <1>12 DEF t

(* A subsequence of an ordered sequence is ordered.                        *)
LEMMA AmongSorts ==
  ASSUME NEW pos, NEW S, NEW s, Sorts(pos, S, s), \A x \in S : pos[x] \in Nat, NEW T
  PROVE  Sorts(pos, S \cap T, Among(s, T))
<1> DEFINE k == KeptOf(s, T)
           Got(p) == {s[q] : q \in 1 .. p} \cap T
           Bad == {p \in 0 .. Len(s) : ~Sorts(pos, Got(p), k[p])}
<1>1. /\ Len(s) \in Nat /\ \A p \in 1 .. Len(s) : s[p] \in S
      /\ \A p, q \in 1 .. Len(s) : p < q => pos[s[p]] < pos[s[q]]
      /\ \A x \in S : \E p \in 1 .. Len(s) : s[p] = x
  <2>1. Len(s) \in Nat /\ \A p \in 1 .. Len(s) : s[p] \in S
    BY SortsFacts
  <2> QED
    BY <2>1 DEF Sorts
<1>2. k[0] = <<>> /\ \A p \in 1 .. Len(s) : k[p] = Kept(s, T, k, p)
  BY <1>1, KeptStep
<1> HIDE DEF k
<1>3. 0 \notin Bad
  <2>1. Got(0) = {}
    OBVIOUS
  <2> QED
    BY <1>2, <2>1, SortsNone
<1>4. ASSUME NEW p \in 1 .. Len(s), Sorts(pos, Got(p - 1), k[p - 1])
      PROVE  Sorts(pos, Got(p), k[p])
  <2>1. 1 .. p = (1 .. p - 1) \cup {p}
    BY <1>1
  <2>2. \A y \in Got(p - 1) : pos[y] < pos[s[p]]
    <3> TAKE y \in Got(p - 1)
    <3>1. PICK q \in 1 .. p - 1 : y = s[q]
      OBVIOUS
    <3>2. q \in 1 .. Len(s) /\ q < p
      BY <1>1
    <3> QED
      BY <1>1, <3>1, <3>2
  <2>3. CASE s[p] \in T
    <3>1. Got(p) = Got(p - 1) \cup {s[p]}
      BY <2>1, <2>3
    <3>2. k[p] = Append(k[p - 1], s[p])
      BY <1>2, <2>3 DEF Kept
    <3> HIDE DEF Got
    <3> QED
      BY <1>4, <2>2, <3>1, <3>2, SortsAppend
  <2>4. CASE s[p] \notin T
    <3>1. Got(p) = Got(p - 1)
      BY <2>1, <2>4
    <3>2. k[p] = k[p - 1]
      BY <1>2, <2>4 DEF Kept
    <3> QED
      BY <1>4, <3>1, <3>2
  <2> QED
    BY <2>3, <2>4
<1>5. Bad = {}
  <2> SUFFICES ASSUME Bad # {} PROVE FALSE
    OBVIOUS
  <2>1. Bad \in SUBSET Nat
    OBVIOUS
  <2>2. PICK p \in Bad : \A q \in Bad : p <= q
    <3> HIDE DEF Bad
    <3> QED
      BY <2>1, LeastNumber
  <2>3. p \in 0 .. Len(s) /\ p # 0 /\ ~Sorts(pos, Got(p), k[p])
    BY <1>3, <2>2
  <2>4. p \in 1 .. Len(s) /\ p - 1 \in 0 .. Len(s) /\ ~(p <= p - 1)
    BY <1>1, <2>3
  <2>5. p - 1 \notin Bad
    BY <2>2, <2>4
  <2> QED
    BY <1>4, <2>3, <2>4, <2>5
<1>6. Sorts(pos, Got(Len(s)), k[Len(s)])
  <2>1. Len(s) \in 0 .. Len(s)
    BY <1>1
  <2> QED
    BY <1>5, <2>1
<1>7. Got(Len(s)) = S \cap T
  BY <1>1
<1> QED
  BY <1>6, <1>7, AmongIs DEF k

-----------------------------------------------------------------------------
(* The list of a level                                                     *)

FirstList(ns) == ListOf(ns, 0)[ns[Header].forward[0]]
ItemsOf(ns) == [p \in DOMAIN FirstList(ns) |-> ns[FirstList(ns)[p]].item]

LEMMA LevelSorts ==
  ASSUME NEW ns, Shape(ns), NEW pos, Laid(ns, pos), NEW i \in Levels
  PROVE  Sorts(pos, On(ns, i) \ {Header}, ListOf(ns, i)[ns[Header].forward[i]])
<1> DEFINE t == ns[Header].forward[i]
<1>1. Header \in On(ns, i)
  BY ShapeFacts
<1>2. /\ t \in On(ns, i) \cup {Null} /\ pos[Header] \in Nat /\ pos[t] \in Nat
      /\ pos[Header] < pos[t]
      /\ \A k \in On(ns, i) : pos[Header] < pos[k] => pos[t] <= pos[k]
  BY <1>1, NextFacts
<1>3. \A k \in On(ns, i) : k # Header => pos[Header] < pos[k]
  BY ShapeFacts, LaidFacts
<1> HIDE DEF t
<1>4. Rest(ns, pos, i, t) = On(ns, i) \ {Header}
  <2>1. \A k \in On(ns, i) : k # Header => pos[t] <= pos[k]
    BY <1>2, <1>3
  <2>2. ~(pos[t] <= pos[Header])
    BY <1>2
  <2> QED
    BY <2>1, <2>2 DEF Rest
<1>5. Sorts(pos, Rest(ns, pos, i, t), ListOf(ns, i)[t])
  BY <1>2, ListSorts
<1> QED
  BY <1>4, <1>5 DEF t

LEMMA FirstListFacts ==
  ASSUME NEW ns, Shape(ns), NEW pos, Laid(ns, pos)
  PROVE  /\ Sorts(pos, DOMAIN ns \ {Header}, FirstList(ns))
         /\ FirstList(ns) \in Seq(DOMAIN ns \ {Header})
         /\ Len(FirstList(ns)) \in Nat
         /\ Len(FirstList(ns)) = Cardinality(DOMAIN ns \ {Header})
         /\ DOMAIN FirstList(ns) = 1 .. Len(FirstList(ns))
         /\ ItemsOf(ns) \in Seq(Items) /\ Len(ItemsOf(ns)) = Len(FirstList(ns))
         /\ \A p \in 1 .. Len(FirstList(ns)) :
              /\ FirstList(ns)[p] \in DOMAIN ns \ {Header}
              /\ ItemsOf(ns)[p] = ns[FirstList(ns)[p]].item
<1> DEFINE S == DOMAIN ns \ {Header}
           L == FirstList(ns)
<1>1. Sorts(pos, S, L)
  BY LevelRange, LevelSorts, ShapeFacts DEF FirstList
<1>2. \A x \in S : pos[x] \in Nat
  BY LaidFacts
<1>3. \A x \in S : ns[x].item \in Items
  BY DEF Shape
<1> HIDE DEF S, L
<1>4. Len(L) = Cardinality(S)
  BY <1>1, <1>2, SortsLen
<1>5. L \in Seq(S)
  BY <1>1 DEF Sorts
<1>6. Len(L) \in Nat /\ DOMAIN L = 1 .. Len(L) /\ L \in [1 .. Len(L) -> S]
  BY <1>5, LenProperties
<1> DEFINE I == [p \in 1 .. Len(L) |-> ns[L[p]].item]
<1>7. \A p \in 1 .. Len(L) : I[p] = ns[L[p]].item /\ I[p] \in Items
  BY <1>3, <1>6
<1>8. I \in [1 .. Len(L) -> Items] /\ I \in Seq(Items)
  <2>1. I \in [1 .. Len(L) -> Items]
    BY <1>7
  <2> QED
    BY <1>6, <2>1
<1>9. Len(I) = Len(L)
  BY <1>6
<1>10. ItemsOf(ns) = I
  BY <1>6 DEF ItemsOf, L
<1> QED
  BY <1>1, <1>4, <1>5, <1>6, <1>7, <1>8, <1>9, <1>10 DEF S, L

LEMMA ListedIs ==
  /\ \A n, i : Listed(n, i) = ListOf(nodes, i)[n]
  /\ Level0 = FirstList(nodes) /\ Stored = ItemsOf(nodes)
<1>1. \A n, i : Listed(n, i) = ListOf(nodes, i)[n]
  BY DEF Listed, ListOf, ListLaw, AtLevel, On, Forward
<1>2. Level0 = FirstList(nodes)
  BY <1>1 DEF Level0, FirstList, Forward
<1> QED
  BY <1>1, <1>2 DEF Stored, ItemsOf

LEMMA ListedIsNext ==
  /\ \A n, i : Listed(n, i)' = ListOf(nodes', i)[n]
  /\ Level0' = FirstList(nodes') /\ Stored' = ItemsOf(nodes')
<1>1. \A n, i : Listed(n, i)' = ListOf(nodes', i)[n]
  BY DEF Listed, ListOf, ListLaw, AtLevel, On, Forward
<1>2. Level0' = FirstList(nodes')
  BY <1>1 DEF Level0, FirstList, Forward, Listed, ListOf, ListLaw, AtLevel, On
<1> QED
  BY <1>1, <1>2 DEF Stored, ItemsOf

LEMMA TrailIs == \A S : Trail(S) = TrailOf(nodes, S, level)
  BY DEF Trail, Walk, Forward, AtLevel, On, TrailOf, TrailLaw, WalkOf, WalkLaw, Passes

-----------------------------------------------------------------------------
(***************************************************************************)
(* The inductive invariant.                                                *)
(***************************************************************************)

(* n levels are in use: above them only the header, and on the topmost of  *)
(* several a node.                                                         *)
Heights(ns, n) ==
  /\ n \in 1 .. MaxLevel
  /\ \A i \in Levels : i >= n => On(ns, i) = {Header}
  /\ n = 1 \/ On(ns, n - 1) # {Header}

(* While every item stored can be compared, the numbering is in order.     *)
NoNaN(ns) == \A m \in DOMAIN ns \ {Header} : ns[m].item \notin NaNs
InPlace(ns, pos) ==
  NoNaN(ns) => \A k, m \in DOMAIN ns \ {Header} :
                 pos[k] < pos[m] => InOrder(ns[k].item, ns[m].item)

StructInv ==
  /\ live \in BOOLEAN /\ version \in Nat
  /\ live => /\ Shape(nodes) /\ Heights(nodes, Settled)
             /\ \E pos : Laid(nodes, pos) /\ InPlace(nodes, pos)
             /\ size = Cardinality(DOMAIN nodes \ {Header})
  /\ ~live => nodes = NoNodes /\ level = 0 /\ size = 0

(* A copy and an open iterator need a list; no iterator is ahead of it.  A *)
(* call that is to fail has bumped the level at most to the maximum.       *)
FailInv ==
  /\ parts \in 0 .. ListCells
  /\ pc # "create" => parts = 0 /\ old_level = 0
  /\ pc = "create" =>
       /\ live => level \in old_level .. MaxLevel
       /\ ~live => old_level = 0
ClientInv ==
  /\ FailInv
  /\ pc \in {"idle", "copy", "create"} /\ results \in Seq(Items) /\ current \in Ptr(nodes)
  /\ max_score \in Int /\ (pc = "copy" => live)
  /\ (pc # "copy" => current = Null) /\ (pc = "copy" => handed = 0)
  /\ iters \in [Iters -> Iterator] /\ IsFiniteSet({it \in Iters : iters[it].open})
  /\ \A it \in Iters :
       iters[it].open => live /\ iters[it].snapshot_version <= version
  /\ handed \in Nat /\ {status, iter_status} \subseteq Statuses
  /\ arg \in Items \cup {Null}

(* What is copied, then what is left to copy, is the list without what     *)
(* lies below the range.                                                   *)
Remaining(ns, c) ==
  [p \in DOMAIN ListOf(ns, 0)[c] |-> ns[ListOf(ns, 0)[c][p]].item]
CopyInv ==
  pc = "copy" /\ NoNaN(nodes) =>
    \E p \in 0 .. size :
      /\ results \o Remaining(nodes, current) = SubSeq(Stored, p + 1, size)
      /\ \A q \in 1 .. p : Stored[q] \in Below(min_score)
      /\ \A q \in p + 1 .. size : Stored[q] \notin Below(min_score)

SkipInv == StructInv /\ ClientInv /\ NoLeak /\ IteratorExact /\ CopyInv

-----------------------------------------------------------------------------
(* The list changes                                                        *)

LEMMA LiveFacts ==
  ASSUME StructInv, live, pc # "create"
  PROVE  /\ Shape(nodes) /\ Heights(nodes, level) /\ level \in 1 .. MaxLevel
         /\ size = Cardinality(DOMAIN nodes \ {Header})
         /\ \E pos : Laid(nodes, pos) /\ InPlace(nodes, pos)
  BY DEF StructInv, Heights, Settled

LEMMA SettledFacts ==
  ASSUME StructInv, live
  PROVE  /\ Shape(nodes) /\ Heights(nodes, Settled) /\ Settled \in 1 .. MaxLevel
         /\ size = Cardinality(DOMAIN nodes \ {Header})
         /\ \E pos : Laid(nodes, pos) /\ InPlace(nodes, pos)
  BY DEF StructInv, Heights

(* The breadcrumbs of a search, with the header above the levels in use.   *)
LEMMA SearchCuts ==
  ASSUME StructInv, live, pc # "create", NEW pos, Laid(nodes, pos), NEW S, NEW u,
         \A i \in Levels : u[i] = IF i < level THEN Trail(S)[i] ELSE Header
  PROVE  /\ Cut(nodes, pos, u)
         /\ u[0] = Header \/ (u[0] \in DOMAIN nodes /\ nodes[u[0]].item \in S)
         /\ Forward(u[0], 0) # Null => nodes[Forward(u[0], 0)].item \notin S
<1>1. Shape(nodes) /\ Heights(nodes, level) /\ level \in 1 .. MaxLevel
  BY LiveFacts
<1> DEFINE v == TrailOf(nodes, S, level)
<1>2. Trail(S) = v
  BY TrailIs
<1>3. Crumbs(nodes, pos, S, level, v)
  BY <1>1, TrailFacts
<1>4. Cut(nodes, pos, u)
  <2>1. \A i \in Levels : i >= level => On(nodes, i) = {Header}
    BY <1>1 DEF Heights
  <2> QED
    BY <1>1, <1>2, <2>1, TrailCuts
<1> HIDE DEF v
<1>5. 0 \in 0 .. level - 1 /\ 0 \in Levels /\ 0 < level
  BY <1>1, LevelRange
<1>6. u[0] = v[0]
  BY <1>2, <1>5
<1>7. /\ v[0] \in On(nodes, 0) /\ (v[0] = Header \/ nodes[v[0]].item \in S)
      /\ ~Passes(nodes, S, 0, v[0])
  BY <1>3, <1>5 DEF Crumbs, WalksTo
<1>8. v[0] \in DOMAIN nodes
  BY <1>7 DEF On
<1> QED
  BY <1>4, <1>6, <1>7, <1>8 DEF Passes, Forward

LEMMA NodeRecord ==
  ASSUME NEW ns, Shape(ns), NEW m \in DOMAIN ns, NEW f
  PROVE  [ns[m] EXCEPT !.forward = f] = [item |-> ns[m].item, forward |-> f]
<1>1. PICK h \in 1 .. MaxLevel :
        ns[m] \in [item : Items \cup {Null}, forward : [0 .. h - 1 -> Ptr(ns)]]
  BY DEF Shape
<1> QED
  BY <1>1

LEMMA InsertAt ==
  ASSUME StructInv, live, NEW x \in Items, NEW h \in 1 .. MaxLevel, NEW n \in Ids,
         Insert(x, h, n)
  PROVE  InsertedAt(nodes, nodes', n, x, h, [i \in Levels |-> Update(x, i)])
<1> DEFINE u == [i \in Levels |-> Update(x, i)]
<1>1. Shape(nodes) /\ n \notin DOMAIN nodes /\ nodes' = Spliced(n, x, h)
  BY LiveFacts DEF Insert, Idle
<1>2. 0 .. h - 1 \subseteq Levels
  BY LevelRange DEF Levels
<1>3. DOMAIN nodes' = DOMAIN nodes \cup {n}
  BY <1>1 DEF Spliced
<1>4. nodes'[n] = [item |-> x, forward |-> [i \in 0 .. h - 1 |-> nodes[u[i]].forward[i]]]
  <2>1. nodes'[n] = Node(x, [i \in 0 .. h - 1 |-> Forward(Update(x, i), i)])
    BY <1>1 DEF Spliced
  <2>2. [i \in 0 .. h - 1 |-> Forward(Update(x, i), i)]
          = [i \in 0 .. h - 1 |-> nodes[u[i]].forward[i]]
    BY <1>2 DEF Forward
  <2> QED
    BY <2>1, <2>2 DEF Node
<1>5. ASSUME NEW m \in DOMAIN nodes
      PROVE  nodes'[m] = [item |-> nodes[m].item,
                forward |-> [i \in DOMAIN nodes[m].forward |->
                   IF i < h /\ u[i] = m THEN n ELSE nodes[m].forward[i]]]
  <2> DEFINE f == [i \in DOMAIN nodes[m].forward |->
                     IF i < h /\ Update(x, i) = m THEN n ELSE nodes[m].forward[i]]
             g == [i \in DOMAIN nodes[m].forward |->
                     IF i < h /\ u[i] = m THEN n ELSE nodes[m].forward[i]]
  <2>1. m # n
    BY <1>1
  <2>2. nodes'[m] = [nodes[m] EXCEPT !.forward = f]
    BY <1>1, <2>1 DEF Spliced
  <2>3. \A i \in DOMAIN nodes[m].forward : i \in Levels
    BY <1>1, ShapeFacts DEF On
  <2>4. f = g
    BY <2>3
  <2> HIDE DEF f, g
  <2>5. nodes'[m] = [item |-> nodes[m].item, forward |-> f]
    BY <1>1, <2>2, NodeRecord
  <2> QED
    BY <2>4, <2>5 DEF g
<1> QED
  BY <1>1, <1>3, <1>4, <1>5 DEF InsertedAt

(* The order of the items.                                                 *)
LEMMA OrderFacts ==
  ASSUME NEW x \in Items \ NaNs, NEW y \in Items \ NaNs
  PROVE  /\ y \notin Before(x) => InOrder(x, y)
         /\ y \in Before(x) => InOrder(y, x)
         /\ InOrder(x, x)
         /\ InOrder(y, x) /\ y \notin Before(x) => x = y
         /\ \A s \in Int : InOrder(x, y) /\ y \in Below(s) => x \in Below(s)
         /\ \A z \in Items \ NaNs : InOrder(x, y) /\ InOrder(y, z) => InOrder(x, z)
<1>1. /\ Score[x] \in Int /\ Score[y] \in Int /\ Text[x] \in Int /\ Text[y] \in Int
      /\ Score[x] = Score[y] /\ Text[x] = Text[y] => x = y
  BY SkipListAssumption
<1>2. /\ y \in Before(x) <=> \/ Score[y] < Score[x]
                             \/ Score[y] = Score[x] /\ Text[y] < Text[x]
      /\ x \in Before(y) <=> \/ Score[x] < Score[y]
                             \/ Score[x] = Score[y] /\ Text[x] < Text[y]
      /\ Same(x, y) <=> Score[x] = Score[y] /\ Text[x] = Text[y]
      /\ Same(y, x) <=> Score[x] = Score[y] /\ Text[x] = Text[y]
      /\ Same(x, x)
  BY DEF Before, Same, Comparable
<1>3. /\ InOrder(x, y) <=> \/ Score[x] < Score[y]
                           \/ Score[x] = Score[y] /\ Text[x] <= Text[y]
      /\ InOrder(y, x) <=> \/ Score[y] < Score[x]
                           \/ Score[x] = Score[y] /\ Text[y] <= Text[x]
  BY <1>1, <1>2 DEF InOrder
<1>4. InOrder(x, x)
  BY <1>2 DEF InOrder
<1>5. \A s \in Int : InOrder(x, y) /\ y \in Below(s) => x \in Below(s)
  BY <1>1, <1>3 DEF Below
<1>6. ASSUME NEW z \in Items \ NaNs, InOrder(x, y), InOrder(y, z) PROVE InOrder(x, z)
  <2>1. Score[z] \in Int /\ Text[z] \in Int
    BY SkipListAssumption
  <2>2. /\ InOrder(y, z) <=> \/ Score[y] < Score[z]
                             \/ Score[y] = Score[z] /\ Text[y] <= Text[z]
        /\ InOrder(x, z) <=> \/ Score[x] < Score[z]
                             \/ Score[x] = Score[z] /\ Text[x] <= Text[z]
    BY <1>1, <2>1 DEF InOrder, Before, Same, Comparable
  <2> QED
    BY <1>1, <1>3, <1>6, <2>1, <2>2
<1>7. /\ y \notin Before(x) => InOrder(x, y)
      /\ y \in Before(x) => InOrder(y, x)
      /\ InOrder(y, x) /\ y \notin Before(x) => x = y
  BY <1>1, <1>2, <1>3
<1> QED
  BY <1>4, <1>5, <1>6, <1>7

LEMMA OrderUpTo ==
  ASSUME NEW x \in Items \ NaNs, NEW y \in Items \ NaNs, NEW s \in Int,
         InOrder(x, y), y \in UpTo(s)
  PROVE  x \in UpTo(s)
<1>1. Score[x] \in Int /\ Score[y] \in Int
  BY SkipListAssumption
<1>2. Score[x] <= Score[y]
  BY <1>1 DEF InOrder, Before, Same, Comparable
<1> QED
  BY <1>1, <1>2 DEF UpTo

LEMMA InsertInPlace ==
  ASSUME NEW ns, Shape(ns), NEW pos, Laid(ns, pos), InPlace(ns, pos),
         NEW u, Cut(ns, pos, u), NEW ns2, NEW n, NEW x, NEW h,
         InsertedAt(ns, ns2, n, x, h, u),
         u[0] = Header \/ ns[u[0]].item \in Before(x),
         ns[u[0]].forward[0] # Null => ns[ns[u[0]].forward[0]].item \notin Before(x)
  PROVE  InPlace(ns2, Spread(ns, pos, n, u))
<1> DEFINE p2 == Spread(ns, pos, n, u)
           c == pos[u[0]]
           t == ns[u[0]].forward[0]
<1>1. /\ n # Null /\ n # Header /\ n \notin DOMAIN ns /\ Null \notin DOMAIN ns
      /\ DOMAIN ns2 = DOMAIN ns \cup {n} /\ x \in Items
  <2>1. n # Null /\ n # Header /\ n \notin DOMAIN ns
    BY InsertShape
  <2>2. DOMAIN ns2 = DOMAIN ns \cup {n} /\ x \in Items
    BY DEF InsertedAt
  <2> QED
    BY <2>1, <2>2, ShapeFacts
<1>2. ns2[n].item = x /\ \A m \in DOMAIN ns : ns2[m].item = ns[m].item
  BY DEF InsertedAt
<1>3. p2[n] = 2 * c + 1 /\ \A m \in DOMAIN ns : p2[m] = 2 * pos[m] /\ pos[m] \in Nat
  BY <1>1, LaidFacts DEF Spread
<1>4. /\ u[0] \in DOMAIN ns /\ c \in Nat /\ t \in DOMAIN ns \cup {Null} /\ t # Header
      /\ pos[t] \in Nat /\ c < pos[t]
      /\ \A m \in DOMAIN ns : c < pos[m] => pos[t] <= pos[m]
  <2>1. /\ u[0] \in On(ns, 0) /\ u[0] \in DOMAIN ns /\ c < pos[t]
        /\ \A m \in On(ns, 0) : c < pos[m] => pos[t] <= pos[m]
    BY LevelRange, CutNext
  <2> QED
    BY <2>1, ShapeFacts, LaidFacts, NextFacts
<1>5. \A m \in DOMAIN ns : pos[m] < pos[Null] /\ pos[Null] \in Nat
  BY LaidFacts
<1>6. \A m \in DOMAIN ns \ {Header} : pos[Header] < pos[m] /\ ns[m].item \in Items
  BY LaidFacts DEF Shape
<1>7. \A k, m \in DOMAIN ns : pos[k] = pos[m] => k = m
  BY LaidFacts
<1> HIDE DEF p2, c, t
<1>8. SUFFICES ASSUME NoNaN(ns2),
                      NEW k \in DOMAIN ns2 \ {Header}, NEW m \in DOMAIN ns2 \ {Header},
                      p2[k] < p2[m]
               PROVE  InOrder(ns2[k].item, ns2[m].item)
  BY DEF InPlace, p2
<1>9. /\ \A j \in DOMAIN ns \ {Header} : ns[j].item \in Items \ NaNs
      /\ x \in Items \ NaNs
  BY <1>1, <1>2, <1>6, <1>8 DEF NoNaN
<1>10. \A i, j \in DOMAIN ns \ {Header} : pos[i] < pos[j] => InOrder(ns[i].item, ns[j].item)
  BY <1>9 DEF InPlace, NoNaN
<1>11. \A i, j \in DOMAIN ns \ {Header} : pos[i] <= pos[j] => InOrder(ns[i].item, ns[j].item)
  <2> TAKE i, j \in DOMAIN ns \ {Header}
  <2>1. CASE i = j
    BY <1>9, <2>1, OrderFacts
  <2>2. CASE i # j
    <3>1. pos[i] # pos[j] /\ pos[i] \in Nat /\ pos[j] \in Nat
      BY <1>3, <1>7, <2>2
    <3> QED
      BY <1>10, <3>1
  <2> QED
    BY <2>1, <2>2
<1>12. CASE k # n /\ m # n
  <2>1. k \in DOMAIN ns \ {Header} /\ m \in DOMAIN ns \ {Header}
    BY <1>1, <1>12
  <2>2. pos[k] < pos[m]
    BY <1>3, <1>8, <2>1
  <2> QED
    BY <1>2, <1>10, <2>1, <2>2
<1>13. CASE k = n
  <2>1. m \in DOMAIN ns \ {Header}
    BY <1>1, <1>3, <1>4, <1>8, <1>13
  <2>2. c < pos[m]
    BY <1>3, <1>4, <1>8, <1>13, <2>1
  <2>3. pos[t] <= pos[m] /\ t # Null
    <3>1. pos[t] <= pos[m] /\ pos[m] < pos[Null] /\ pos[m] \in Nat /\ pos[Null] \in Nat
      BY <1>3, <1>4, <1>5, <2>1, <2>2
    <3> QED
      BY <3>1
  <2>4. t \in DOMAIN ns \ {Header}
    BY <1>4, <2>3
  <2>5. ns[t].item \notin Before(x)
    BY <2>3 DEF t
  <2>6. InOrder(x, ns[t].item)
    BY <1>9, <2>4, <2>5, OrderFacts
  <2>7. InOrder(ns[t].item, ns[m].item)
    BY <1>11, <2>1, <2>3, <2>4
  <2>8. InOrder(x, ns[m].item)
    BY <1>9, <2>1, <2>4, <2>6, <2>7, OrderFacts
  <2> QED
    BY <1>2, <1>13, <2>1, <2>8
<1>14. CASE m = n
  <2>1. k \in DOMAIN ns \ {Header}
    BY <1>1, <1>3, <1>4, <1>8, <1>14
  <2>2. pos[k] <= c
    BY <1>3, <1>4, <1>8, <1>14, <2>1
  <2>3. u[0] # Header
    <3>1. pos[Header] < pos[k] /\ pos[k] \in Nat
      BY <1>3, <1>6, <2>1
    <3>2. pos[Header] < c /\ c \in Nat
      <4>1. pos[Header] \in Nat
        BY LaidFacts
      <4> QED
        BY <1>4, <2>2, <3>1, <4>1
    <3> QED
      BY <3>2 DEF c
  <2>4. u[0] \in DOMAIN ns \ {Header} /\ ns[u[0]].item \in Before(x)
    BY <1>4, <2>3
  <2>5. InOrder(ns[u[0]].item, x)
    BY <1>9, <2>4, OrderFacts
  <2>6. InOrder(ns[k].item, ns[u[0]].item)
    BY <1>11, <2>1, <2>2, <2>4 DEF c
  <2>7. InOrder(ns[k].item, x)
    BY <1>9, <2>1, <2>4, <2>5, <2>6, OrderFacts
  <2> QED
    BY <1>2, <1>14, <2>1, <2>7
<1> QED
  BY <1>12, <1>13, <1>14

LEMMA InsertHeights ==
  ASSUME NEW ns, Shape(ns), NEW l, Heights(ns, l), NEW ns2, NEW n, n \notin DOMAIN ns,
         n # Header, NEW h \in 1 .. MaxLevel,
         \A i \in Levels : On(ns2, i) = On(ns, i) \cup (IF i < h THEN {n} ELSE {})
  PROVE  Heights(ns2, IF h > l THEN h ELSE l)
<1> DEFINE g == IF h > l THEN h ELSE l
<1>1. l \in 1 .. MaxLevel /\ MaxLevel \in Nat /\ l \in Nat /\ h \in Nat
  BY LevelRange DEF Heights
<1>2. g \in 1 .. MaxLevel /\ h <= g /\ l <= g /\ g \in Nat
  BY <1>1
<1>3. ASSUME NEW i \in Levels, i >= g PROVE On(ns2, i) = {Header}
  <2>1. ~(i < h) /\ i >= l
    BY <1>1, <1>2, <1>3, LevelRange
  <2> QED
    BY <2>1 DEF Heights
<1>4. g = 1 \/ On(ns2, g - 1) # {Header}
  <2>1. g - 1 \in Levels
    BY <1>1, <1>2 DEF Levels
  <2>2. CASE g = h
    <3>1. g - 1 < h
      BY <1>1, <2>2
    <3>2. n \in On(ns2, g - 1)
      BY <2>1, <3>1
    <3> QED
      BY <3>2
  <2>3. CASE g # h
    <3>1. g = l
      BY <2>3
    <3>2. l = 1 \/ On(ns, l - 1) # {Header}
      BY DEF Heights
    <3>3. Header \in On(ns, g - 1)
      BY <2>1, ShapeFacts
    <3> QED
      BY <2>1, <3>1, <3>2, <3>3
  <2> QED
    BY <2>2, <2>3
<1> QED
  BY <1>2, <1>3, <1>4 DEF Heights

LEMMA InsertStruct ==
  ASSUME StructInv, live, NEW x \in Items, NEW h \in 1 .. MaxLevel, NEW n \in Ids,
         Insert(x, h, n)
  PROVE  StructInv' /\ Ptr(nodes) \subseteq Ptr(nodes')
<1> DEFINE u == [i \in Levels |-> Update(x, i)]
<1>1. /\ Shape(nodes) /\ Heights(nodes, level)
      /\ size = Cardinality(DOMAIN nodes \ {Header})
  BY LiveFacts DEF Insert, Idle
<1>2. PICK pos : Laid(nodes, pos) /\ InPlace(nodes, pos)
  BY LiveFacts DEF Insert, Idle
<1>3. InsertedAt(nodes, nodes', n, x, h, u)
  BY InsertAt
<1>4. /\ Cut(nodes, pos, u)
      /\ u[0] = Header \/ nodes[u[0]].item \in Before(x)
      /\ nodes[u[0]].forward[0] # Null => nodes[nodes[u[0]].forward[0]].item \notin Before(x)
  <2>1. \A i \in Levels : u[i] = IF i < level THEN Trail(Before(x))[i] ELSE Header
    BY DEF Update
  <2> HIDE DEF u
  <2> QED
    BY <1>2, <2>1, SearchCuts DEF Forward, Insert, Idle
<1> HIDE DEF u
<1>5. /\ Shape(nodes') /\ n # Header /\ n \notin DOMAIN nodes
      /\ \A i \in Levels : On(nodes', i) = On(nodes, i) \cup (IF i < h THEN {n} ELSE {})
  BY <1>1, <1>2, <1>3, <1>4, InsertShape
<1>6. Laid(nodes', Spread(nodes, pos, n, u))
  BY <1>1, <1>2, <1>3, <1>4, InsertLaid
<1>7. InPlace(nodes', Spread(nodes, pos, n, u))
  BY <1>1, <1>2, <1>3, <1>4, InsertInPlace
<1>8. Heights(nodes', level')
  <2>1. level' = IF h > level THEN h ELSE level
    BY DEF Insert
  <2>2. Heights(nodes', IF h > level THEN h ELSE level)
    BY <1>1, <1>5, InsertHeights
  <2> QED
    BY <2>1, <2>2
<1>9. DOMAIN nodes' = DOMAIN nodes \cup {n}
  BY <1>3 DEF InsertedAt
<1>10. size' = Cardinality(DOMAIN nodes' \ {Header})
  <2>1. DOMAIN nodes' \ {Header} = (DOMAIN nodes \ {Header}) \cup {n}
    BY <1>5, <1>9
  <2>2. IsFiniteSet(DOMAIN nodes \ {Header})
    BY <1>1, FS_RemoveElement DEF Shape
  <2>3. Cardinality((DOMAIN nodes \ {Header}) \cup {n}) = size + 1
    BY <1>1, <1>5, <2>2, FS_AddElement
  <2> QED
    BY <2>1, <2>3 DEF Insert
<1>11. live' /\ version' \in Nat /\ Settled' = level'
  BY DEF Insert, Idle, callVars, Settled, StructInv
<1>12. StructInv'
  BY <1>5, <1>6, <1>7, <1>8, <1>10, <1>11 DEF StructInv
<1>13. Ptr(nodes) \subseteq Ptr(nodes')
  BY <1>9 DEF Ptr
<1> QED
  BY <1>12, <1>13

(* At the levels of the successor, and only there, the breadcrumb points   *)
(* at it, so that all its predecessors are rewired.                        *)
LEMMA CutPoints ==
  ASSUME NEW ns, Shape(ns), NEW pos, Laid(ns, pos), NEW u, Cut(ns, pos, u),
         NEW t, t = ns[u[0]].forward[0], t # Null, NEW i \in Levels
  PROVE  /\ t \in On(ns, i) => ns[u[i]].forward[i] = t
         /\ \A m \in On(ns, i) : ns[m].forward[i] = t => m = u[i] /\ t \in On(ns, i)
<1>1. /\ u[i] \in On(ns, i) /\ pos[u[0]] < pos[ns[u[i]].forward[i]]
      /\ \A k \in On(ns, i) : pos[u[0]] < pos[k] => pos[ns[u[i]].forward[i]] <= pos[k]
  BY CutNext
<1>2. /\ u[0] \in On(ns, 0) /\ pos[u[0]] < pos[t]
      /\ \A k \in On(ns, 0) : pos[u[0]] < pos[k] => pos[t] <= pos[k]
  BY LevelRange, CutNext
<1>3. /\ pos[u[i]] <= pos[u[0]]
      /\ \A k \in On(ns, i) : pos[k] <= pos[u[0]] => pos[k] <= pos[u[i]]
  BY DEF Cut
<1>4. /\ \A k \in On(ns, i) \cup {Null} : pos[k] \in Nat
      /\ \A k, m \in On(ns, i) : pos[k] = pos[m] => k = m
      /\ \A k \in On(ns, i) : pos[k] < pos[Null] /\ k \in On(ns, 0)
  BY LaidFacts, ShapeFacts
<1>5. pos[u[0]] \in Nat
  BY <1>2, ShapeFacts, LaidFacts
<1> DEFINE f == ns[u[i]].forward[i]
<1>6. f \in On(ns, i) \cup {Null}
  BY <1>1, NextFacts
<1>7. ASSUME t \in On(ns, i) PROVE f = t
  <2>1. pos[f] <= pos[t]
    BY <1>1, <1>2, <1>7
  <2>2. f # Null
    <3>1. pos[t] < pos[Null] /\ pos[t] \in Nat /\ pos[Null] \in Nat
      BY <1>4, <1>7
    <3> QED
      BY <2>1, <3>1
  <2>3. f \in On(ns, i) /\ pos[t] <= pos[f]
    BY <1>1, <1>2, <1>4, <1>6, <2>2
  <2>4. pos[t] = pos[f]
    BY <1>4, <1>7, <2>1, <2>3
  <2> QED
    BY <1>4, <1>7, <2>3, <2>4
<1>8. ASSUME NEW m \in On(ns, i), ns[m].forward[i] = t PROVE m = u[i] /\ t \in On(ns, i)
  <2>1. /\ t \in On(ns, i) \cup {Null} /\ pos[m] < pos[t]
        /\ \A k \in On(ns, i) : pos[m] < pos[k] => pos[t] <= pos[k]
    BY <1>8, NextFacts
  <2>2. t \in On(ns, i)
    BY <2>1
  <2>3. pos[m] \in Nat /\ pos[t] \in Nat /\ pos[u[i]] \in Nat
    BY <1>1, <1>4, <2>2
  <2>4. pos[m] <= pos[u[0]]
    <3> SUFFICES ASSUME pos[u[0]] < pos[m] PROVE FALSE
      BY <1>5, <2>3
    <3>1. pos[t] <= pos[m]
      BY <1>2, <1>4
    <3> QED
      BY <2>1, <2>3, <3>1
  <2>5. pos[m] <= pos[u[i]]
    BY <1>3, <2>4
  <2>6. ~(pos[m] < pos[u[i]])
    <3> SUFFICES ASSUME pos[m] < pos[u[i]] PROVE FALSE
      OBVIOUS
    <3>1. pos[t] <= pos[u[i]]
      BY <1>1, <2>1
    <3> QED
      BY <1>2, <1>3, <1>5, <2>3, <3>1
  <2>7. pos[m] = pos[u[i]]
    BY <2>3, <2>5, <2>6
  <2> QED
    BY <1>1, <1>4, <2>2, <2>7
<1> QED
  BY <1>7, <1>8

LEMMA RemoveAt ==
  ASSUME StructInv, live, NEW x \in Items, Remove(x)
  PROVE  /\ RemovedAt(nodes, nodes', Successor(x))
         /\ Same(nodes[Successor(x)].item, x)
<1> DEFINE u == [i \in Levels |-> Update(x, i)]
           t == Successor(x)
<1>1. /\ Shape(nodes) /\ Heights(nodes, level) /\ level \in 1 .. MaxLevel
      /\ nodes' = Unlinked(x) /\ Found(x)
  BY LiveFacts DEF Remove, Idle
<1>2. PICK pos : Laid(nodes, pos)
  BY LiveFacts DEF Remove, Idle
<1>3. \A i \in Levels : u[i] = IF i < level THEN Trail(Before(x))[i] ELSE Header
  BY DEF Update
<1>4. Cut(nodes, pos, u)
  <2> HIDE DEF u
  <2> QED
    BY <1>2, <1>3, SearchCuts DEF Remove, Idle
<1>5. 0 \in Levels /\ 0 < level /\ \A i \in 0 .. level - 1 : i \in Levels /\ i < level
  BY <1>1, LevelRange DEF Levels
<1>6. t = nodes[u[0]].forward[0]
  BY <1>3, <1>5 DEF Successor, Forward
<1>7. t # Null
  BY <1>1 DEF Found
<1> HIDE DEF u, t
<1>8. \A i \in Levels :
        /\ t \in On(nodes, i) => nodes[u[i]].forward[i] = t
        /\ \A m \in On(nodes, i) : nodes[m].forward[i] = t => m = u[i] /\ t \in On(nodes, i)
  BY <1>1, <1>2, <1>4, <1>6, <1>7, CutPoints
<1>9. t \in DOMAIN nodes /\ t # Header
  <2>1. u[0] \in On(nodes, 0)
    BY <1>4, <1>5 DEF Cut
  <2> QED
    BY <1>1, <1>2, <1>6, <1>7, <2>1, NextFacts, ShapeFacts
<1>10. ASSUME NEW i \in Levels
       PROVE  (i < level /\ Rewired(x, i)) <=> t \in On(nodes, i)
  <2>1. ASSUME t \in On(nodes, i) PROVE i < level /\ Rewired(x, i)
    <3>1. i < level
      <4>1. ~(i >= level)
        BY <1>9, <2>1, <1>1 DEF Heights
      <4> QED
        BY <1>1, <4>1, LevelRange
    <3>2. ASSUME NEW j \in 0 .. i
          PROVE  j < level /\ Forward(Trail(Before(x))[j], j) = Successor(x)
      <4>1. j \in Levels /\ j < level
        BY <1>1, <3>1, LevelRange DEF Levels
      <4>2. t \in On(nodes, j)
        BY <1>1, <2>1, LevelRange, ShapeFacts
      <4>3. nodes[u[j]].forward[j] = t
        BY <1>8, <4>1, <4>2
      <4> QED
        BY <1>3, <4>1, <4>3 DEF t, Forward
    <3> QED
      BY <3>1, <3>2 DEF Rewired
  <2>2. ASSUME i < level, Rewired(x, i) PROVE t \in On(nodes, i)
    <3>1. i \in 0 .. i
      BY LevelRange
    <3>2. Forward(Trail(Before(x))[i], i) = t
      BY <2>2, <3>1 DEF Rewired, t
    <3>3. nodes[u[i]].forward[i] = t
      BY <1>3, <2>2, <3>2 DEF Forward
    <3>4. u[i] \in On(nodes, i)
      BY <1>4 DEF Cut
    <3> QED
      BY <1>8, <3>3, <3>4
  <2> QED
    BY <2>1, <2>2
<1>11. DOMAIN nodes' = DOMAIN nodes \ {t}
  BY <1>1 DEF Unlinked, t
<1>12. ASSUME NEW m \in DOMAIN nodes'
       PROVE  nodes'[m] = [item |-> nodes[m].item,
                forward |-> [i \in DOMAIN nodes[m].forward |->
                   IF nodes[m].forward[i] = t THEN nodes[t].forward[i]
                   ELSE nodes[m].forward[i]]]
  <2> DEFINE f == [i \in DOMAIN nodes[m].forward |->
                     IF i < level /\ Rewired(x, i) /\ m = Trail(Before(x))[i]
                       THEN Forward(Successor(x), i) ELSE nodes[m].forward[i]]
             g == [i \in DOMAIN nodes[m].forward |->
                     IF nodes[m].forward[i] = t THEN nodes[t].forward[i]
                     ELSE nodes[m].forward[i]]
  <2>1. m \in DOMAIN nodes
    BY <1>11
  <2>2. nodes'[m] = [nodes[m] EXCEPT !.forward = f]
    BY <1>1, <1>11 DEF Unlinked, t
  <2>3. ASSUME NEW i \in DOMAIN nodes[m].forward
        PROVE  (i < level /\ Rewired(x, i) /\ m = Trail(Before(x))[i])
                 <=> nodes[m].forward[i] = t
    <3>1. m \in On(nodes, i)
      BY <2>1 DEF On
    <3>2. i \in Levels
      BY <1>1, <3>1, ShapeFacts
    <3>3. ASSUME i < level, Rewired(x, i), m = Trail(Before(x))[i]
          PROVE  nodes[m].forward[i] = t
      <4>1. t \in On(nodes, i) /\ m = u[i]
        BY <1>3, <1>10, <3>2, <3>3
      <4> QED
        BY <1>8, <3>2, <4>1
    <3>4. ASSUME nodes[m].forward[i] = t
          PROVE  i < level /\ Rewired(x, i) /\ m = Trail(Before(x))[i]
      <4>1. m = u[i] /\ t \in On(nodes, i)
        BY <1>8, <3>1, <3>2, <3>4
      <4>2. i < level /\ Rewired(x, i)
        BY <1>10, <3>2, <4>1
      <4> QED
        BY <1>3, <3>2, <4>1, <4>2
    <3> QED
      BY <3>3, <3>4
  <2>4. f = g
    <3>1. \A i \in DOMAIN nodes[m].forward : f[i] = g[i]
      BY <2>3 DEF Forward, t
    <3> QED
      BY <3>1
  <2> HIDE DEF f, g
  <2>5. nodes'[m] = [item |-> nodes[m].item, forward |-> f]
    BY <1>1, <2>1, <2>2, NodeRecord
  <2> QED
    BY <2>4, <2>5 DEF g
<1>13. RemovedAt(nodes, nodes', t)
  BY <1>9, <1>11, <1>12 DEF RemovedAt
<1> QED
  BY <1>1, <1>13 DEF t, Found

(* The height is lowered to the topmost level with a node.                 *)
LEMMA LoweredHeights ==
  ASSUME level \in 1 .. MaxLevel, NEW ns, Shape(ns), NEW pos, Laid(ns, pos),
         \A i \in Levels : i >= level => On(ns, i) = {Header}
  PROVE  Heights(ns, Lowered(ns[Header].forward))
<1> DEFINE f == ns[Header].forward
           Clear(l) == \A i \in l .. level - 1 : f[i] = Null
           L == {l \in 1 .. level : Clear(l)}
           Stop(l) == (l > 1 => f[l - 1] # Null) /\ Clear(l)
           r == Lowered(f)
<1>1. level \in Nat /\ MaxLevel \in Nat /\ level <= MaxLevel
  BY LevelRange
<1>2. ASSUME NEW i \in Levels, f[i] = Null PROVE On(ns, i) = {Header}
  <2>1. Header \in On(ns, i)
    BY ShapeFacts
  <2>2. /\ pos[Header] \in Nat /\ pos[Null] \in Nat
        /\ \A k \in On(ns, i) : pos[Header] < pos[k] => pos[Null] <= pos[k]
    BY <1>2, <2>1, NextFacts
  <2>3. \A k \in On(ns, i) : /\ pos[k] \in Nat /\ pos[k] < pos[Null]
                             /\ k # Header => pos[Header] < pos[k]
    BY ShapeFacts, LaidFacts
  <2>4. \A k \in On(ns, i) : k = Header
    <3> TAKE k \in On(ns, i)
    <3>1. pos[k] \in Nat /\ pos[k] < pos[Null] /\ (k # Header => pos[Null] <= pos[k])
      BY <2>2, <2>3
    <3> QED
      BY <2>2, <3>1
  <2> QED
    BY <2>1, <2>4
<1>3. L \in SUBSET Nat /\ level \in L
  BY <1>1
<1>4. PICK l \in L : \A k \in L : l <= k
  <2> HIDE DEF L
  <2> QED
    BY <1>3, LeastNumber
<1>5. l \in 1 .. level /\ Clear(l)
  OBVIOUS
<1>6. l > 1 => f[l - 1] # Null
  <2> SUFFICES ASSUME l > 1, f[l - 1] = Null PROVE FALSE
    OBVIOUS
  <2>1. l - 1 \in 1 .. level /\ \A i \in l - 1 .. level - 1 : i = l - 1 \/ i \in l .. level - 1
    BY <1>1, <1>5
  <2>2. Clear(l - 1)
    BY <1>5, <2>1
  <2>3. l - 1 \in L
    BY <2>1, <2>2
  <2>4. ~(l <= l - 1)
    BY <1>5
  <2> HIDE DEF L
  <2> QED
    BY <1>4, <2>3, <2>4
<1>7. r \in 1 .. level /\ Stop(r)
  <2>1. Stop(l)
    BY <1>5, <1>6
  <2>2. r = CHOOSE k \in 1 .. level : Stop(k)
    BY DEF Lowered
  <2> HIDE DEF r, Stop
  <2> QED
    BY <1>5, <2>1, <2>2
<1> HIDE DEF r, L
<1>8. ASSUME NEW i \in Levels, i >= r PROVE On(ns, i) = {Header}
  <2>1. CASE i >= level
    BY <2>1
  <2>2. CASE ~(i >= level)
    <3>1. i \in r .. level - 1
      BY <1>1, <1>7, <1>8, <2>2, LevelRange
    <3>2. f[i] = Null
      BY <1>7, <3>1
    <3> QED
      BY <1>2, <3>2
  <2> QED
    BY <2>1, <2>2
<1>9. r = 1 \/ On(ns, r - 1) # {Header}
  <2> SUFFICES ASSUME r # 1 PROVE On(ns, r - 1) # {Header}
    OBVIOUS
  <2>1. r - 1 \in Levels /\ r > 1
    BY <1>1, <1>7 DEF Levels
  <2>2. f[r - 1] # Null
    BY <1>7, <2>1
  <2>3. Header \in On(ns, r - 1)
    BY <2>1, ShapeFacts
  <2>4. f[r - 1] \in On(ns, r - 1) \cup {Null} /\ f[r - 1] # Header
    BY <2>3, NextFacts
  <2> QED
    BY <2>2, <2>4
<1>10. r \in 1 .. MaxLevel
  BY <1>1, <1>7
<1> QED
  BY <1>8, <1>9, <1>10 DEF Heights, r

LEMMA RemoveStruct ==
  ASSUME StructInv, live, NEW x \in Items, Remove(x)
  PROVE  StructInv'
<1> DEFINE t == Successor(x)
<1>1. /\ Shape(nodes) /\ Heights(nodes, level) /\ level \in 1 .. MaxLevel
      /\ size = Cardinality(DOMAIN nodes \ {Header})
  BY LiveFacts DEF Remove, Idle
<1>2. PICK pos : Laid(nodes, pos) /\ InPlace(nodes, pos)
  BY LiveFacts DEF Remove, Idle
<1>3. RemovedAt(nodes, nodes', t) /\ Same(nodes[t].item, x)
  BY RemoveAt
<1> HIDE DEF t
<1>4. Shape(nodes') /\ \A i : On(nodes', i) = On(nodes, i) \ {t}
  BY <1>1, <1>2, <1>3, RemoveShape
<1>5. Laid(nodes', pos)
  BY <1>1, <1>2, <1>3, RemoveLaid
<1>6. /\ DOMAIN nodes' = DOMAIN nodes \ {t} /\ t \in DOMAIN nodes /\ t # Header
      /\ \A m \in DOMAIN nodes' : nodes'[m].item = nodes[m].item
  BY <1>3 DEF RemovedAt
<1>7. InPlace(nodes', pos)
  <2> SUFFICES ASSUME NoNaN(nodes')
               PROVE  \A k, m \in DOMAIN nodes' \ {Header} :
                        pos[k] < pos[m] => InOrder(nodes'[k].item, nodes'[m].item)
    BY DEF InPlace
  <2>1. nodes[t].item \notin NaNs
    BY <1>3 DEF Same, Comparable
  <2>2. NoNaN(nodes)
    BY <1>6, <2>1 DEF NoNaN
  <2> QED
    BY <1>2, <1>6, <2>2 DEF InPlace
<1>8. Heights(nodes', level')
  <2>1. level' = Lowered(nodes'[Header].forward)
    BY DEF Remove
  <2>2. \A i \in Levels : i >= level => On(nodes', i) = {Header}
    <3> TAKE i \in Levels
    <3> HAVE i >= level
    <3>1. On(nodes, i) = {Header}
      BY <1>1 DEF Heights
    <3> QED
      BY <1>4, <1>6, <3>1
  <2>3. Heights(nodes', Lowered(nodes'[Header].forward))
    BY <1>1, <1>4, <1>5, <2>2, LoweredHeights
  <2> QED
    BY <2>1, <2>3
<1>9. size' = Cardinality(DOMAIN nodes' \ {Header})
  <2>1. DOMAIN nodes' \ {Header} = (DOMAIN nodes \ {Header}) \ {t}
    BY <1>6
  <2>2. IsFiniteSet(DOMAIN nodes \ {Header})
    BY <1>1, FS_RemoveElement DEF Shape
  <2>3. Cardinality((DOMAIN nodes \ {Header}) \ {t}) = size - 1
    BY <1>1, <1>6, <2>2, FS_RemoveElement
  <2> QED
    BY <2>1, <2>3 DEF Remove
<1>10. live' /\ version' \in Nat /\ Settled' = level'
  BY DEF Remove, Idle, callVars, Settled, StructInv
<1> QED
  BY <1>4, <1>5, <1>7, <1>8, <1>9, <1>10 DEF StructInv

LEMMA CreateStruct ==
  ASSUME Create PROVE StructInv' /\ Ptr(nodes') = {Null} /\ size' = 0
<1>1. /\ nodes' = [n \in {Header} |-> Node(Null, NullArray(MaxLevel))]
      /\ level' = 1 /\ size' = 0 /\ version' = 0 /\ live' = TRUE
  BY DEF Create
<1> DEFINE f == NullArray(MaxLevel)
<1>2. MaxLevel \in Nat \ {0} /\ f = [i \in 0 .. MaxLevel - 1 |-> Null]
  BY LevelRange DEF NullArray
<1>3. DOMAIN nodes' = {Header} /\ nodes'[Header] = [item |-> Null, forward |-> f]
  BY <1>1 DEF Node
<1>4. Ptr(nodes') = {Null}
  BY <1>3 DEF Ptr
<1>5. f \in [0 .. MaxLevel - 1 -> Ptr(nodes')]
  BY <1>2, <1>4
<1>6. DOMAIN f = Levels /\ \A i \in Levels : f[i] = Null
  BY <1>2 DEF Levels
<1> HIDE DEF f
<1>7. Shape(nodes')
  <2>1. nodes'[Header] \in [item : Items \cup {Null}, forward : [0 .. MaxLevel - 1 -> Ptr(nodes')]]
    BY <1>3, <1>5
  <2>2. MaxLevel \in 1 .. MaxLevel
    BY <1>2
  <2>3. IsFiniteSet({Header})
    BY FS_Singleton
  <2>4. DOMAIN nodes'[Header].forward = Levels
    BY <1>3, <1>6
  <2> QED
    BY <1>3, <2>1, <2>2, <2>3, <2>4 DEF Shape
<1>8. \A i \in Levels : On(nodes', i) = {Header}
  BY <1>3, <1>6 DEF On
<1>9. Heights(nodes', level')
  BY <1>1, <1>2, <1>8 DEF Heights
<1> DEFINE pos == [m \in {Header, Null} |-> IF m = Header THEN 0 ELSE 1]
<1>10. pos[Header] = 0 /\ pos[Null] = 1
  BY SkipListAssumption
<1> HIDE DEF pos
<1>11. Laid(nodes', pos)
  <2>1. \A m \in DOMAIN nodes' \cup {Null} : pos[m] \in Nat
    BY <1>3, <1>10
  <2>2. \A m, k \in DOMAIN nodes' \cup {Null} : pos[m] = pos[k] => m = k
    BY <1>3, <1>10
  <2>3. \A m \in DOMAIN nodes' : pos[m] < pos[Null] /\ (m # Header => pos[Header] < pos[m])
    BY <1>3, <1>10
  <2>4. ASSUME NEW i \in Levels, NEW m \in On(nodes', i) PROVE LinksNext(nodes', pos, i, m)
    <3>1. m = Header /\ On(nodes', i) = {Header}
      BY <1>8
    <3>2. nodes'[m].forward[i] = Null
      BY <1>3, <1>6, <3>1
    <3> QED
      BY <1>4, <1>10, <3>1, <3>2 DEF LinksNext
  <2> QED
    BY <2>1, <2>2, <2>3, <2>4 DEF Laid
<1>12. InPlace(nodes', pos)
  BY <1>3 DEF InPlace
<1>13. size' = Cardinality(DOMAIN nodes' \ {Header})
  <2>1. DOMAIN nodes' \ {Header} = {}
    BY <1>3
  <2> QED
    BY <1>1, <2>1, FS_EmptySet
<1>14. Settled' = level'
  BY DEF Create, callVars, Settled
<1> QED
  BY <1>1, <1>4, <1>7, <1>9, <1>11, <1>12, <1>13, <1>14 DEF StructInv

LEMMA FreeStruct == ASSUME Free PROVE StructInv' /\ Ptr(nodes') = {Null}
<1>1. live' = FALSE /\ level' = 0 /\ size' = 0 /\ version' = 0 /\ nodes' = NoNodes
  BY DEF Free
<1>2. DOMAIN nodes' = {}
  BY <1>1 DEF NoNodes
<1> QED
  BY <1>1, <1>2 DEF StructInv, Ptr

LEMMA SameStruct ==
  ASSUME StructInv, UNCHANGED <<live, listVars>>, Settled' = Settled PROVE StructInv'
<1>1. /\ live' = live /\ level' = level /\ size' = size /\ version' = version
      /\ nodes' = nodes
  BY DEF listVars
<1> QED
  BY <1>1 DEF StructInv

-----------------------------------------------------------------------------
(* The clients                                                             *)

Walks(ns, n, r) ==
  /\ r.current \in Ptr(ns) /\ Len(r.seen) <= n
  /\ r.seen = SubSeq(ItemsOf(ns), 1, Len(r.seen))
  /\ ListOf(ns, 0)[r.current] = SubSeq(FirstList(ns), Len(r.seen) + 1, n)

LEMMA ExactIs ==
  IteratorExact <=>
    \A it \in Iters : live /\ iters[it].open /\ iters[it].snapshot_version = version =>
      Walks(nodes, size, iters[it])
<1>1. \A n, i : Listed(n, i) = ListOf(nodes, i)[n]
  BY ListedIs
<1>2. Level0 = FirstList(nodes) /\ Stored = ItemsOf(nodes)
  BY ListedIs
<1> QED
  BY <1>1, <1>2 DEF IteratorExact, Safe, Walks, Pointers, Ptr

LEMMA ExactIsNext ==
  IteratorExact' <=>
    \A it \in Iters : live' /\ iters'[it].open /\ iters'[it].snapshot_version = version' =>
      Walks(nodes', size', iters'[it])
<1>1. \A n, i : Listed(n, i)' = ListOf(nodes', i)[n]
  BY ListedIsNext
<1>2. Level0' = FirstList(nodes') /\ Stored' = ItemsOf(nodes')
  BY ListedIsNext
<1>3. \A it \in Iters : Listed(iters[it].current, 0)' = ListOf(nodes', 0)[iters'[it].current]
  BY DEF Listed, ListOf, ListLaw, AtLevel, On, Forward
<1> QED
  BY <1>2, <1>3 DEF IteratorExact, Safe, Walks, Pointers, Ptr

Opened(its) == {it \in Iters : its[it].open}
Cells(l, n, its, p, r, g) ==
  (IF l THEN 4 + 3 * n ELSE 0) + Cardinality(Opened(its))
    + (IF p = "copy" THEN 1 + Len(r) ELSE 0) + g

LEMMA NoLeakIs ==
  /\ pc # "create" => (NoLeak <=> used = Cells(live, size, iters, pc, results, handed))
  /\ pc' # "create" =>
       (NoLeak' <=> used' = Cells(live', size', iters', pc', results', handed'))
  BY DEF NoLeak, Cells, Opened, ListCells, NodeCells

LEMMA CellsAre ==
  ASSUME NEW l \in BOOLEAN, NEW n \in Nat, NEW its, IsFiniteSet(Opened(its)),
         NEW p, NEW r \in Seq(Items), NEW g \in Nat
  PROVE  /\ Cells(l, n, its, p, r, g) \in Nat /\ Len(r) \in Nat
         /\ Cardinality(Opened(its)) \in Nat
<1>1. Cardinality(Opened(its)) \in Nat
  BY FS_CardinalityType
<1>2. Len(r) \in Nat
  BY LenProperties
<1> QED
  BY <1>1, <1>2 DEF Cells

LEMMA CallCells ==
  ASSUME NEW n, NEW its, NEW r, NEW g
  PROVE  Cells(TRUE, n, its, "idle", r, g) = 4 + 3 * n + Cardinality(Opened(its)) + 0 + g
  BY DEF Cells

LEMMA TornCells ==
  ASSUME NEW n, NEW its, NEW r, NEW g
  PROVE  Cells(FALSE, n, its, "idle", r, g) = 0 + Cardinality(Opened(its)) + 0 + g
  BY DEF Cells

LEMMA SizeIsNat == ASSUME StructInv PROVE size \in Nat
<1>1. CASE live
  <2>1. Shape(nodes) /\ size = Cardinality(DOMAIN nodes \ {Header})
    BY <1>1, SettledFacts
  <2>2. IsFiniteSet(DOMAIN nodes \ {Header})
    BY <2>1, FS_RemoveElement DEF Shape
  <2> QED
    BY <2>1, <2>2, FS_CardinalityType
<1>2. CASE ~live
  BY <1>2 DEF StructInv
<1> QED
  BY <1>1, <1>2 DEF StructInv

LEMMA SizeIsNatNext == ASSUME StructInv' PROVE size' \in Nat
<1>1. CASE live'
  <2>1. Shape(nodes') /\ size' = Cardinality(DOMAIN nodes' \ {Header})
    BY <1>1 DEF StructInv
  <2>2. IsFiniteSet(DOMAIN nodes' \ {Header})
    BY <2>1, FS_RemoveElement DEF Shape
  <2> QED
    BY <2>1, <2>2, FS_CardinalityType
<1>2. CASE ~live'
  BY <1>2 DEF StructInv
<1> QED
  BY <1>1, <1>2 DEF StructInv

LEMMA UsedIsNat == ASSUME StructInv, ClientInv, NoLeak PROVE used \in Nat
<1>1. size \in Nat
  BY SizeIsNat
<1>2. /\ live \in BOOLEAN /\ IsFiniteSet(Opened(iters)) /\ results \in Seq(Items)
      /\ handed \in Nat
  BY DEF StructInv, ClientInv, Opened
<1>3. Cells(live, size, iters, pc, results, handed) \in Nat
  BY <1>1, <1>2, CellsAre
<1>4. CASE pc # "create"
  BY <1>3, <1>4, NoLeakIs
<1>5. CASE pc = "create"
  <2>1. (IF live THEN 4 + 3 * size ELSE 0) \in Nat /\ Cardinality(Opened(iters)) \in Nat
    BY <1>1, <1>2, FS_CardinalityType
  <2>2. used = (IF live THEN 4 + 3 * size ELSE 0) + Cardinality(Opened(iters)) + parts + handed
    BY <1>5 DEF NoLeak, ListCells, NodeCells, Opened
  <2>3. parts \in Nat
    BY DEF ClientInv, FailInv
  <2> QED
    BY <1>2, <2>1, <2>2, <2>3
<1> QED
  BY <1>4, <1>5

CopyOf(ns, n, r, c, lo) ==
  \E p \in 0 .. n :
    /\ r \o Remaining(ns, c) = SubSeq(ItemsOf(ns), p + 1, n)
    /\ \A q \in 1 .. p : ItemsOf(ns)[q] \in Below(lo)
    /\ \A q \in p + 1 .. n : ItemsOf(ns)[q] \notin Below(lo)

LEMMA CopyIs ==
  /\ CopyInv <=> (pc = "copy" /\ NoNaN(nodes) =>
                    CopyOf(nodes, size, results, current, min_score))
  /\ CopyInv' <=> (pc' = "copy" /\ NoNaN(nodes') =>
                     CopyOf(nodes', size', results', current', min_score'))
<1>1. Stored = ItemsOf(nodes)
  BY ListedIs
<1>2. Stored' = ItemsOf(nodes')
  BY ListedIsNext
<1>3. Below(min_score)' = Below(min_score')
  BY DEF Below
<1> QED
  BY <1>1, <1>2, <1>3 DEF CopyInv, CopyOf, Remaining

(* Steps that touch neither the list nor its clients.                      *)
LEMMA QuietInv ==
  ASSUME SkipInv, UNCHANGED <<live, listVars, callVars, iters, used, handed>>,
         {status', iter_status'} \subseteq Statuses, arg' \in Items \cup {Null}
  PROVE  SkipInv'
<1>1. /\ live' = live /\ level' = level /\ size' = size /\ version' = version
      /\ nodes' = nodes /\ pc' = pc /\ current' = current /\ results' = results
      /\ min_score' = min_score /\ max_score' = max_score
      /\ parts' = parts /\ old_level' = old_level
      /\ iters' = iters /\ used' = used /\ handed' = handed
  BY DEF listVars, callVars, failVars
<1>2. StructInv'
  BY <1>1, SameStruct DEF SkipInv, Settled
<1>3. ClientInv'
  BY <1>1 DEF SkipInv, ClientInv, FailInv
<1>4. NoLeak'
  BY <1>1 DEF SkipInv, NoLeak
<1>5. IteratorExact'
  BY <1>1, ExactIs, ExactIsNext DEF SkipInv
<1>6. CopyInv'
  BY <1>1, CopyIs DEF SkipInv
<1> QED
  BY <1>2, <1>3, <1>4, <1>5, <1>6 DEF SkipInv

(* A change of the list: iterators that were open are out of date.         *)
LEMMA ChangeInv ==
  ASSUME SkipInv, live, pc = "idle", StructInv',
         live' = live, version' = version + 1, size' \in Nat,
         used' = used + 3 * (size' - size),
         UNCHANGED <<callVars, iters, handed, iter_status>>,
         status' = "CDSA_OK", arg' \in Items
  PROVE  SkipInv'
<1>1. /\ pc' = pc /\ current' = current /\ results' = results
      /\ min_score' = min_score /\ max_score' = max_score
      /\ parts' = parts /\ old_level' = old_level
      /\ iters' = iters /\ handed' = handed /\ iter_status' = iter_status
  BY DEF callVars, failVars
<1>2. version \in Nat /\ size \in Nat
  BY SizeIsNat DEF SkipInv, StructInv
<1>3. /\ results \in Seq(Items) /\ max_score \in Int /\ current = Null
      /\ iters \in [Iters -> Iterator] /\ IsFiniteSet({it \in Iters : iters[it].open})
      /\ \A it \in Iters : iters[it].open => live /\ iters[it].snapshot_version <= version
      /\ handed \in Nat /\ {status, iter_status} \subseteq Statuses
  BY DEF SkipInv, ClientInv
<1>4. \A it \in Iters : iters[it].snapshot_version \in Nat
  <2> TAKE it \in Iters
  <2>1. iters[it] \in Iterator
    BY <1>3
  <2> QED
    BY <2>1 DEF Iterator
<1>5. \A it \in Iters : iters[it].open => /\ iters[it].snapshot_version <= version'
                                          /\ iters[it].snapshot_version # version'
  BY <1>2, <1>3, <1>4
<1>6. ClientInv'
  <2>1. {status', iter_status'} \subseteq Statuses
    BY <1>1, <1>3 DEF Statuses
  <2>2. current' \in Ptr(nodes')
    BY <1>1, <1>3 DEF Ptr
  <2> QED
    BY <1>1, <1>3, <1>5, <2>1, <2>2 DEF ClientInv, FailInv, SkipInv
<1>7. NoLeak'
  <2>1. used = Cells(live, size, iters, pc, results, handed)
    BY NoLeakIs DEF SkipInv
  <2>2. Cardinality(Opened(iters)) \in Nat
    BY <1>3, FS_CardinalityType DEF Opened
  <2>3. live = TRUE /\ live' = TRUE
    BY DEF SkipInv, StructInv
  <2> DEFINE c == Cardinality(Opened(iters))
             old == Cells(live, size, iters, pc, results, handed)
             new == Cells(live', size', iters', pc', results', handed')
  <2>4. old = 4 + 3 * size + c + 0 + handed
    BY <2>3, CallCells
  <2>5. new = 4 + 3 * size' + c + 0 + handed
    <3>1. pc' = "idle"
      BY <1>1
    <3>2. new = Cells(TRUE, size', iters, "idle", results, handed)
      BY <1>1, <2>3, <3>1, Zenon
    <3> QED
      BY <3>2, CallCells
  <2>6. c \in Nat /\ handed \in Nat
    BY <1>3, <2>2
  <2>7. used = old
    BY <2>1
  <2> HIDE DEF c, old, new
  <2>8. used' = new
    BY <1>2, <2>4, <2>5, <2>6, <2>7
  <2> QED
    BY <1>1, <2>8, NoLeakIs DEF new
<1>8. IteratorExact'
  BY <1>1, <1>5, ExactIsNext
<1>9. CopyInv'
  BY <1>1, CopyIs
<1> QED
  BY <1>6, <1>7, <1>8, <1>9 DEF SkipInv

LEMMA InsertInv ==
  ASSUME SkipInv, NEW x \in Items, NEW h \in 1 .. MaxLevel, NEW n \in Ids, Insert(x, h, n)
  PROVE  SkipInv'
<1>1. /\ live /\ pc = "idle" /\ live' = live /\ version' = version + 1
      /\ size' = size + 1 /\ used' = used + 3 /\ status' = "CDSA_OK" /\ arg' = x
      /\ UNCHANGED <<callVars, iters, handed, iter_status>>
  BY DEF Insert, Idle, NodeCells
<1>2. StructInv'
  BY <1>1, InsertStruct DEF SkipInv
<1>3. size \in Nat
  BY SizeIsNat DEF SkipInv
<1>4. size' \in Nat /\ used' = used + 3 * (size' - size)
  BY <1>1, <1>3
<1> QED
  BY <1>1, <1>2, <1>4, ChangeInv

LEMMA RemoveInv == ASSUME SkipInv, NEW x \in Items, Remove(x) PROVE SkipInv'
<1>1. /\ live /\ pc = "idle" /\ live' = live /\ version' = version + 1
      /\ size' = size - 1 /\ used' = used - 3 /\ status' = "CDSA_OK" /\ arg' = x
      /\ UNCHANGED <<callVars, iters, handed, iter_status>>
  BY DEF Remove, Idle, NodeCells
<1>2. StructInv'
  BY <1>1, RemoveStruct DEF SkipInv
<1>3. size \in Nat /\ size' \in Nat
  <2>1. size' \in Nat
    BY <1>2, SizeIsNatNext
  <2> QED
    BY <2>1, SizeIsNat DEF SkipInv
<1>4. used' = used + 3 * (size' - size)
  <2>1. used \in Nat
    BY UsedIsNat DEF SkipInv
  <2> QED
    BY <1>1, <1>3, <2>1
<1> QED
  BY <1>1, <1>2, <1>3, <1>4, ChangeInv

(* A list made or torn down: no iterator is open.                          *)
LEMMA MadeInv ==
  ASSUME SkipInv, StructInv', pc = "idle", \A it \in Iters : ~iters[it].open,
         UNCHANGED <<callVars, iters, handed, iter_status>>,
         status' \in Statuses, arg' \in Items \cup {Null},
         used' = Cells(live', size', iters, "idle", results, handed)
  PROVE  SkipInv'
<1>1. /\ pc' = pc /\ current' = current /\ results' = results
      /\ min_score' = min_score /\ max_score' = max_score
      /\ parts' = parts /\ old_level' = old_level
      /\ iters' = iters /\ handed' = handed /\ iter_status' = iter_status
  BY DEF callVars, failVars
<1>2. /\ results \in Seq(Items) /\ max_score \in Int /\ current = Null
      /\ iters \in [Iters -> Iterator] /\ IsFiniteSet({it \in Iters : iters[it].open})
      /\ handed \in Nat /\ {status, iter_status} \subseteq Statuses
  BY DEF SkipInv, ClientInv
<1>3. ClientInv'
  <2>1. {status', iter_status'} \subseteq Statuses
    BY <1>1, <1>2
  <2>2. current' \in Ptr(nodes')
    BY <1>1, <1>2 DEF Ptr
  <2> QED
    BY <1>1, <1>2, <2>1, <2>2 DEF ClientInv, FailInv, SkipInv
<1>4. NoLeak'
  <2>1. pc' = "idle"
    BY <1>1
  <2>2. used' = Cells(live', size', iters', pc', results', handed')
    BY <1>1, <2>1, Zenon
  <2> QED
    BY <2>1, <2>2, NoLeakIs
<1>5. IteratorExact'
  BY <1>1, ExactIsNext
<1>6. CopyInv'
  BY <1>1, CopyIs
<1> QED
  BY <1>3, <1>4, <1>5, <1>6 DEF SkipInv

LEMMA CreateInv == ASSUME SkipInv, Create PROVE SkipInv'
<1>1. /\ ~live /\ live' = TRUE /\ size' = 0 /\ used' = used + 4
      /\ arg' = Null /\ status' = "CDSA_OK"
      /\ UNCHANGED <<callVars, iters, handed, iter_status>>
  BY DEF Create, ListCells, NodeCells
<1>2. StructInv'
  BY CreateStruct
<1>3. /\ pc = "idle" /\ IsFiniteSet(Opened(iters)) /\ handed \in Nat
      /\ \A it \in Iters : ~iters[it].open
  BY DEF Create, SkipInv, ClientInv, Opened
<1>4. live = FALSE
  BY <1>1 DEF SkipInv, StructInv
<1> DEFINE c == Cardinality(Opened(iters))
           old == Cells(live, size, iters, pc, results, handed)
           new == Cells(live', size', iters, "idle", results, handed)
<1>5. used = old
  BY <1>3, NoLeakIs DEF SkipInv
<1>6. old = 0 + c + 0 + handed
  BY <1>3, <1>4, TornCells
<1>7. new = 4 + 3 * 0 + c + 0 + handed
  BY <1>1, CallCells
<1>8. c \in Nat
  BY <1>3, FS_CardinalityType
<1> HIDE DEF c, old, new
<1>9. used' = new
  BY <1>1, <1>3, <1>5, <1>6, <1>7, <1>8
<1> QED
  BY <1>1, <1>2, <1>3, <1>9, MadeInv DEF new, Statuses

LEMMA FreeInv == ASSUME SkipInv, Free PROVE SkipInv'
<1>1. /\ live /\ pc = "idle" /\ live' = FALSE /\ size' = 0
      /\ used' = used - (4 + 3 * Len(Level0))
      /\ arg' = Null /\ status' = "CDSA_OK" /\ \A it \in Iters : ~iters[it].open
      /\ UNCHANGED <<callVars, iters, handed, iter_status>>
  BY DEF Free, Idle, ListCells, NodeCells
<1>2. StructInv'
  BY FreeStruct
<1>3. IsFiniteSet(Opened(iters)) /\ handed \in Nat /\ size \in Nat
  BY SizeIsNat DEF SkipInv, ClientInv, Opened
<1>4. live = TRUE
  BY <1>1 DEF SkipInv, StructInv
<1>5. Len(Level0) = size
  <2>1. /\ Shape(nodes) /\ size = Cardinality(DOMAIN nodes \ {Header})
        /\ \E pos : Laid(nodes, pos)
    BY <1>1, LiveFacts DEF SkipInv
  <2>2. Len(FirstList(nodes)) = Cardinality(DOMAIN nodes \ {Header})
    BY <2>1, FirstListFacts
  <2> QED
    BY <2>1, <2>2, ListedIs
<1> DEFINE c == Cardinality(Opened(iters))
           old == Cells(live, size, iters, pc, results, handed)
           new == Cells(live', size', iters, "idle", results, handed)
<1>6. used = old
  BY <1>1, NoLeakIs DEF SkipInv
<1>7. old = 4 + 3 * size + c + 0 + handed
  BY <1>1, <1>4, CallCells
<1>8. new = 0 + c + 0 + handed
  BY <1>1, TornCells
<1>9. c \in Nat
  BY <1>3, FS_CardinalityType
<1> HIDE DEF c, old, new
<1>10. used' = new
  BY <1>1, <1>3, <1>5, <1>6, <1>7, <1>8, <1>9
<1> QED
  BY <1>1, <1>2, <1>10, MadeInv DEF new, Statuses

-----------------------------------------------------------------------------
(* The range query                                                         *)

(* The steps of a range query leave the list and the iterators alone.      *)
LEMMA RangeInv ==
  ASSUME SkipInv, UNCHANGED <<live, listVars, failVars, iters, status, arg, iter_status>>,
         pc # "create", pc' \in {"idle", "copy"}, results' \in Seq(Items), current' \in Ptr(nodes),
         max_score' \in Int, pc' = "idle" => current' = Null, handed' \in Nat,
         pc' = "copy" => live /\ handed' = 0,
         used' = Cells(live', size', iters', pc', results', handed'),
         pc' = "copy" /\ NoNaN(nodes) => CopyOf(nodes, size, results', current', min_score')
  PROVE  SkipInv'
<1>1. /\ live' = live /\ level' = level /\ size' = size /\ version' = version
      /\ nodes' = nodes /\ iters' = iters /\ status' = status /\ arg' = arg
      /\ iter_status' = iter_status /\ parts' = parts /\ old_level' = old_level
  BY DEF listVars, failVars
<1>2. StructInv'
  BY <1>1, SameStruct DEF SkipInv, Settled
<1>3. ClientInv'
  BY <1>1 DEF SkipInv, ClientInv, FailInv
<1>4. NoLeak'
  BY NoLeakIs
<1>5. IteratorExact'
  BY <1>1, ExactIs, ExactIsNext DEF SkipInv
<1>6. CopyInv'
  BY <1>1, CopyIs
<1> QED
  BY <1>2, <1>3, <1>4, <1>5, <1>6 DEF SkipInv

LEMMA RemainingIs ==
  ASSUME NEW ns, Shape(ns), NEW pos, Laid(ns, pos), NEW m \in Ptr(ns)
  PROVE  /\ ListOf(ns, 0)[m] \in Seq(DOMAIN ns \ {Header})
         /\ Remaining(ns, m) \in Seq(Items)
         /\ Len(Remaining(ns, m)) = Len(ListOf(ns, 0)[m])
         /\ \A q \in 1 .. Len(ListOf(ns, 0)[m]) :
              Remaining(ns, m)[q] = ns[ListOf(ns, 0)[m][q]].item
<1> DEFINE S == DOMAIN ns \ {Header}
           L == ListOf(ns, 0)[m]
<1>1. On(ns, 0) = DOMAIN ns /\ m \in On(ns, 0) \cup {Null} /\ m # Header
  BY ShapeFacts, SkipListAssumption DEF Ptr
<1>2. Sorts(pos, Rest(ns, pos, 0, m), L)
  BY <1>1, ListSorts
<1>3. Rest(ns, pos, 0, m) \subseteq S
  <2>1. pos[Header] \in Nat /\ pos[m] \in Nat /\ pos[Header] < pos[m]
    <3>1. Header \in DOMAIN ns /\ \A k \in DOMAIN ns \cup {Null} : pos[k] \in Nat
      BY LaidFacts
    <3>2. CASE m = Null
      BY <1>1, <3>1, <3>2, LaidFacts
    <3>3. CASE m # Null
      BY <1>1, <3>1, <3>3, LaidFacts
    <3> QED
      BY <3>2, <3>3
  <2> QED
    BY <1>1, <2>1 DEF Rest
<1>4. L \in Seq(S)
  <2>1. L \in Seq(Rest(ns, pos, 0, m))
    BY <1>2 DEF Sorts
  <2> HIDE DEF S, L
  <2> QED
    BY <1>3, <2>1, SeqMonotonic
<1>5. \A k \in S : ns[k].item \in Items
  BY DEF Shape
<1> HIDE DEF S, L
<1>6. Len(L) \in Nat /\ DOMAIN L = 1 .. Len(L) /\ L \in [1 .. Len(L) -> S]
  BY <1>4, LenProperties
<1> DEFINE I == [q \in 1 .. Len(L) |-> ns[L[q]].item]
<1>7. \A q \in 1 .. Len(L) : I[q] = ns[L[q]].item /\ I[q] \in Items
  BY <1>5, <1>6
<1>8. I \in [1 .. Len(L) -> Items] /\ I \in Seq(Items)
  <2>1. I \in [1 .. Len(L) -> Items]
    BY <1>7
  <2> QED
    BY <1>6, <2>1
<1>9. Len(I) = Len(L)
  BY <1>6
<1>10. Remaining(ns, m) = I
  BY <1>6 DEF Remaining, L
<1> QED
  BY <1>4, <1>7, <1>8, <1>9, <1>10 DEF S, L

(* Copying one string takes it from what is left.                          *)
LEMMA RemainingStep ==
  ASSUME NEW ns, Shape(ns), NEW pos, Laid(ns, pos), NEW m \in DOMAIN ns \ {Header}
  PROVE  /\ ns[m].forward[0] \in Ptr(ns) /\ ns[m].item \in Items
         /\ Remaining(ns, m) = <<ns[m].item>> \o Remaining(ns, ns[m].forward[0])
<1> DEFINE t == ns[m].forward[0]
           x == ns[m].item
           L == ListOf(ns, 0)[m]
           M == ListOf(ns, 0)[t]
<1>1. m \in On(ns, 0) /\ On(ns, 0) = DOMAIN ns /\ m \in Ptr(ns)
  BY ShapeFacts DEF Ptr
<1>2. t \in Ptr(ns)
  BY <1>1, NextFacts DEF Ptr
<1>3. x \in Items
  BY DEF Shape
<1>4. L = <<m>> \o M
  BY <1>1, ListStep
<1> DEFINE RL == Remaining(ns, m)
           RM == Remaining(ns, t)
<1>5. /\ L \in Seq(DOMAIN ns \ {Header}) /\ RL \in Seq(Items) /\ Len(RL) = Len(L)
      /\ \A q \in 1 .. Len(L) : RL[q] = ns[L[q]].item
  BY <1>1, RemainingIs
<1>6. /\ M \in Seq(DOMAIN ns \ {Header}) /\ RM \in Seq(Items) /\ Len(RM) = Len(M)
      /\ \A q \in 1 .. Len(M) : RM[q] = ns[M[q]].item
  BY <1>2, RemainingIs
<1> HIDE DEF RL, RM, L, M
<1>7. <<m>> \in Seq(DOMAIN ns \ {Header}) /\ Len(<<m>>) = 1 /\ <<m>>[1] = m
  OBVIOUS
<1>8. <<x>> \in Seq(Items) /\ Len(<<x>>) = 1 /\ <<x>>[1] = x
  BY <1>3
<1> HIDE DEF x
<1>9. /\ Len(L) = 1 + Len(M) /\ Len(M) \in Nat
      /\ \A q \in 1 .. 1 + Len(M) : L[q] = IF q <= 1 THEN m ELSE M[q - 1]
  <2>1. Len(M) \in Nat
    BY <1>6, LenProperties
  <2>2. /\ Len(<<m>> \o M) = Len(<<m>>) + Len(M)
        /\ \A q \in 1 .. Len(<<m>>) + Len(M) :
             (<<m>> \o M)[q] = IF q <= Len(<<m>>) THEN <<m>>[q] ELSE M[q - Len(<<m>>)]
    BY <1>6, <1>7, ConcatProperties
  <2>3. \A q \in 1 .. 1 + Len(M) : q <= 1 => <<m>>[q] = m
    BY <1>7, <2>1
  <2> QED
    BY <1>4, <1>7, <2>1, <2>2, <2>3
<1>10. /\ <<x>> \o RM \in Seq(Items) /\ Len(<<x>> \o RM) = 1 + Len(RM)
       /\ \A q \in 1 .. 1 + Len(RM) : (<<x>> \o RM)[q] = IF q <= 1 THEN x ELSE RM[q - 1]
  <2>1. Len(RM) \in Nat
    BY <1>6, <1>9
  <2>2. /\ <<x>> \o RM \in Seq(Items) /\ Len(<<x>> \o RM) = Len(<<x>>) + Len(RM)
        /\ \A q \in 1 .. Len(<<x>>) + Len(RM) :
             (<<x>> \o RM)[q] = IF q <= Len(<<x>>) THEN <<x>>[q] ELSE RM[q - Len(<<x>>)]
    BY <1>6, <1>8, ConcatProperties
  <2>3. \A q \in 1 .. 1 + Len(RM) : q <= 1 => <<x>>[q] = x
    BY <1>8, <2>1
  <2> QED
    BY <1>8, <2>1, <2>2, <2>3
<1>11. ASSUME NEW q \in 1 .. Len(RL) PROVE RL[q] = (<<x>> \o RM)[q]
  <2>1. q \in 1 .. 1 + Len(M) /\ q \in 1 .. 1 + Len(RM)
    BY <1>5, <1>6, <1>9
  <2>2. CASE q <= 1
    <3>1. L[q] = m /\ (<<x>> \o RM)[q] = x
      BY <1>9, <1>10, <2>1, <2>2
    <3> QED
      BY <1>5, <1>9, <2>1, <3>1 DEF x
  <2>3. CASE ~(q <= 1)
    <3>1. L[q] = M[q - 1] /\ (<<x>> \o RM)[q] = RM[q - 1]
      BY <1>9, <1>10, <2>1, <2>3
    <3>2. q - 1 \in 1 .. Len(M)
      BY <1>9, <2>1, <2>3
    <3> QED
      BY <1>5, <1>6, <1>9, <2>1, <3>1, <3>2
  <2> QED
    BY <2>2, <2>3
<1>12. RL = <<x>> \o RM
  <2>1. Len(RL) = Len(<<x>> \o RM)
    BY <1>5, <1>6, <1>9, <1>10
  <2> QED
    BY <1>5, <1>10, <1>11, <2>1, SeqEqual
<1> QED
  BY <1>2, <1>3, <1>12 DEF x, RL, RM

(* What a copy under way says of the list.                                 *)
LEMMA CopyFacts ==
  ASSUME SkipInv, pc = "copy"
  PROVE  /\ live /\ live = TRUE /\ handed = 0 /\ Shape(nodes)
         /\ \E pos : Laid(nodes, pos)
         /\ size \in Nat /\ results \in Seq(Items) /\ Len(results) \in Nat
         /\ Cardinality(Opened(iters)) \in Nat
         /\ used = 4 + 3 * size + Cardinality(Opened(iters)) + (1 + Len(results)) + 0
<1>1. /\ live /\ handed = 0 /\ results \in Seq(Items) /\ IsFiniteSet(Opened(iters))
  BY DEF SkipInv, ClientInv, Opened
<1>2. live = TRUE
  BY <1>1 DEF SkipInv, StructInv
<1>3. Shape(nodes) /\ \E pos : Laid(nodes, pos)
  BY <1>1, LiveFacts DEF SkipInv
<1>4. size \in Nat
  BY SizeIsNat DEF SkipInv
<1>5. used = Cells(TRUE, size, iters, "copy", results, 0)
  <2>1. used = Cells(live, size, iters, pc, results, handed)
    BY NoLeakIs DEF SkipInv
  <2> QED
    BY <1>1, <1>2, <2>1
<1>6. used = 4 + 3 * size + Cardinality(Opened(iters)) + (1 + Len(results)) + 0
  BY <1>5 DEF Cells
<1>7. Cardinality(Opened(iters)) \in Nat
  BY <1>1, FS_CardinalityType
<1>8. Len(results) \in Nat
  BY <1>1, LenProperties
<1> QED
  BY <1>1, <1>2, <1>3, <1>4, <1>6, <1>7, <1>8

LEMMA CopyStringInv == ASSUME SkipInv, CopyString PROVE SkipInv'
<1> DEFINE x == nodes[current].item
<1>1. /\ pc = "copy" /\ pc' = pc /\ InRange(current, max_score)
      /\ results' = Append(results, x) /\ current' = nodes[current].forward[0]
      /\ used' = used + 1 /\ live' = live /\ size' = size /\ min_score' = min_score
      /\ max_score' = max_score /\ iters' = iters /\ handed' = handed
      /\ UNCHANGED <<live, listVars, failVars, iters, status, arg, iter_status>>
  BY DEF CopyString, Forward, listVars
<1>2. /\ live /\ live = TRUE /\ handed = 0 /\ Shape(nodes) /\ size \in Nat
      /\ \E pos : Laid(nodes, pos)
      /\ results \in Seq(Items) /\ Len(results) \in Nat
      /\ Cardinality(Opened(iters)) \in Nat
      /\ used = 4 + 3 * size + Cardinality(Opened(iters)) + (1 + Len(results)) + 0
  BY <1>1, CopyFacts
<1>3. PICK pos : Laid(nodes, pos)
  BY <1>2
<1>4. current \in DOMAIN nodes \ {Header} /\ max_score \in Int
  BY <1>1 DEF InRange, SkipInv, ClientInv, Ptr
<1>5. /\ current' \in Ptr(nodes) /\ x \in Items
      /\ Remaining(nodes, current) = <<x>> \o Remaining(nodes, current')
  BY <1>1, <1>2, <1>3, <1>4, RemainingStep
<1>6. Remaining(nodes, current') \in Seq(Items)
  BY <1>2, <1>3, <1>5, RemainingIs
<1> DEFINE rest == Remaining(nodes, current')
<1> HIDE DEF x
<1>7. results' \in Seq(Items) /\ Len(results') = Len(results) + 1
  BY <1>1, <1>2, <1>5, AppendProperties
<1>8. results' \o rest = results \o Remaining(nodes, current)
  <2> HIDE DEF rest
  <2>1. <<x>> \in Seq(Items) /\ rest \in Seq(Items)
    BY <1>5, <1>6 DEF rest
  <2>2. results' = results \o <<x>>
    BY <1>1, <1>2, <1>5, AppendIsConcat
  <2>3. (results \o <<x>>) \o rest = results \o (<<x>> \o rest)
    BY <1>2, <2>1, ConcatAssociative
  <2> QED
    BY <1>5, <2>2, <2>3 DEF rest
<1>9. NoNaN(nodes) => CopyOf(nodes, size, results', current', min_score')
  <2>1. NoNaN(nodes) => CopyOf(nodes, size, results, current, min_score)
    BY <1>1, CopyIs DEF SkipInv
  <2> QED
    BY <1>1, <1>8, <2>1 DEF CopyOf
<1>10. used' = Cells(live', size', iters', pc', results', handed')
  <2> DEFINE c == Cardinality(Opened(iters))
             new == Cells(TRUE, size, iters, "copy", results', 0)
  <2>1. new = 4 + 3 * size + c + (1 + Len(results')) + 0
    BY DEF Cells
  <2>2. c \in Nat /\ used = 4 + 3 * size + c + (1 + Len(results)) + 0
    BY <1>2
  <2> HIDE DEF c, new
  <2>3. used' = new
    BY <1>1, <1>2, <1>7, <2>1, <2>2
  <2>4. /\ live' = TRUE /\ size' = size /\ iters' = iters /\ pc' = "copy" /\ handed' = 0
    BY <1>1, <1>2
  <2> QED
    BY <2>3, <2>4, Zenon DEF new
<1>11. max_score' \in Int /\ handed' \in Nat /\ live /\ handed' = 0
  BY <1>1, <1>2, <1>4
<1>12. pc' \in {"idle", "copy"} /\ pc' # "idle"
  BY <1>1
<1> QED
  BY <1>1, <1>5, <1>7, <1>9, <1>10, <1>11, <1>12, RangeInv

(* The end of a copy: what was allocated is freed, or the client's.        *)
LEMMA EndRangeInv ==
  ASSUME SkipInv, pc = "copy", EndRange, handed' \in Nat,
         used' = used - (1 + Len(results)) + handed'
  PROVE  SkipInv'
<1>1. /\ pc' = "idle" /\ current' = Null /\ results' = <<>> /\ max_score' = 0
      /\ live' = live /\ size' = size /\ iters' = iters /\ pc # "create"
      /\ UNCHANGED <<live, listVars, failVars, iters, status, arg, iter_status>>
  BY DEF EndRange, listVars
<1>2. /\ live /\ live = TRUE /\ size \in Nat /\ Len(results) \in Nat
      /\ Cardinality(Opened(iters)) \in Nat
      /\ used = 4 + 3 * size + Cardinality(Opened(iters)) + (1 + Len(results)) + 0
  BY CopyFacts
<1>3. used' = Cells(live', size', iters', pc', results', handed')
  <2> DEFINE c == Cardinality(Opened(iters))
             new == Cells(TRUE, size, iters, "idle", results', handed')
  <2>1. new = 4 + 3 * size + c + 0 + handed'
    BY CallCells
  <2>2. c \in Nat /\ used = 4 + 3 * size + c + (1 + Len(results)) + 0
    BY <1>2
  <2> HIDE DEF c, new
  <2>3. used' = new
    BY <1>2, <2>1, <2>2
  <2>4. live' = TRUE /\ size' = size /\ iters' = iters /\ pc' = "idle"
    BY <1>1, <1>2
  <2> QED
    BY <2>3, <2>4, Zenon DEF new
<1>4. results' \in Seq(Items) /\ current' \in Ptr(nodes) /\ max_score' \in Int
  BY <1>1, EmptySeq DEF Ptr
<1>5. pc' \in {"idle", "copy"} /\ pc' # "copy"
  BY <1>1
<1> QED
  BY <1>1, <1>3, <1>4, <1>5, RangeInv

LEMMA CopyFailsInv == ASSUME SkipInv, CopyFails PROVE SkipInv'
<1>1. pc = "copy" /\ EndRange /\ used' = used - (Len(results) + 1) /\ handed' = handed
  BY DEF CopyFails
<1>2. handed = 0 /\ Len(results) \in Nat /\ used \in Nat
  BY <1>1, CopyFacts, UsedIsNat DEF SkipInv
<1>3. handed' \in Nat /\ used' = used - (1 + Len(results)) + handed'
  BY <1>1, <1>2
<1> QED
  BY <1>1, <1>3, EndRangeInv

LEMMA CopyDoneInv == ASSUME SkipInv, CopyDone PROVE SkipInv'
<1>1. pc = "copy" /\ EndRange /\ handed' = Len(results) + 1 /\ used' = used
  BY DEF CopyDone
<1>2. Len(results) \in Nat /\ used \in Nat
  BY <1>1, CopyFacts, UsedIsNat DEF SkipInv
<1>3. handed' \in Nat /\ used' = used - (1 + Len(results)) + handed'
  BY <1>1, <1>2
<1> QED
  BY <1>1, <1>3, EndRangeInv

LEMMA HandedCells ==
  ASSUME NEW l \in BOOLEAN, NEW n \in Nat, NEW its, IsFiniteSet(Opened(its)),
         NEW r, NEW g \in Nat
  PROVE  Cells(l, n, its, "idle", r, 0) = Cells(l, n, its, "idle", r, g) - g
<1> DEFINE c == Cardinality(Opened(its))
<1>1. c \in Nat
  BY FS_CardinalityType
<1>2. CASE l = TRUE
  <2>1. /\ Cells(l, n, its, "idle", r, 0) = 4 + 3 * n + c + 0 + 0
        /\ Cells(l, n, its, "idle", r, g) = 4 + 3 * n + c + 0 + g
    BY <1>2, CallCells
  <2> HIDE DEF c
  <2> QED
    BY <1>1, <2>1
<1>3. CASE l = FALSE
  <2>1. /\ Cells(l, n, its, "idle", r, 0) = 0 + c + 0 + 0
        /\ Cells(l, n, its, "idle", r, g) = 0 + c + 0 + g
    BY <1>3, TornCells
  <2> HIDE DEF c
  <2> QED
    BY <1>1, <2>1
<1> QED
  BY <1>2, <1>3

LEMMA FreeRangeInv == ASSUME SkipInv, FreeRange PROVE SkipInv'
<1>1. /\ pc = "idle" /\ pc' = pc /\ current' = current /\ results' = results
      /\ max_score' = max_score /\ live' = live /\ size' = size /\ iters' = iters
      /\ used' = used - handed /\ handed' = 0
      /\ UNCHANGED <<live, listVars, failVars, iters, status, arg, iter_status>>
  BY DEF FreeRange, callVars, listVars
<1>2. /\ results \in Seq(Items) /\ max_score \in Int /\ current = Null /\ handed \in Nat
      /\ IsFiniteSet(Opened(iters)) /\ live \in BOOLEAN /\ size \in Nat
  BY <1>1, SizeIsNat DEF SkipInv, ClientInv, StructInv, Opened
<1>3. used = Cells(live, size, iters, "idle", results, handed)
  BY <1>1, NoLeakIs DEF SkipInv
<1>4. used' = Cells(live, size, iters, "idle", results, 0)
  BY <1>1, <1>2, <1>3, HandedCells
<1>5. used' = Cells(live', size', iters', pc', results', handed')
  BY <1>1, <1>4, Zenon
<1>6. current' = Null /\ current' \in Ptr(nodes) /\ pc' # "copy" /\ handed' \in Nat
  BY <1>1, <1>2 DEF Ptr
<1> QED
  BY <1>1, <1>2, <1>5, <1>6, RangeInv

LEMMA SortsTail ==
  ASSUME NEW pos, NEW S, NEW s, Sorts(pos, S, s), \A x \in S : pos[x] \in Nat,
         NEW p \in 0 .. Len(s), NEW T, T = {s[q] : q \in p + 1 .. Len(s)}
  PROVE  Sorts(pos, T, SubSeq(s, p + 1, Len(s)))
<1> DEFINE n == Len(s)
           t == SubSeq(s, p + 1, n)
<1>1. n \in Nat /\ \A i, j \in 1 .. n : i < j => pos[s[i]] < pos[s[j]]
  BY SortsFacts DEF Sorts
<1>2. p \in 0 .. n /\ T = {s[q] : q \in p + 1 .. n}
  OBVIOUS
<1>3. t \in Seq(T) /\ Len(t) = n - p /\ \A i \in 1 .. n - p : t[i] = s[p + i]
  <2> HIDE DEF n
  <2>1. \A i \in p + 1 .. n : s[i] \in T
    BY <1>2
  <2>2. p + 1 \in Int /\ n \in Int
    BY <1>1, <1>2
  <2>3. /\ t \in Seq(T) /\ Len(t) = (IF p + 1 <= n THEN n - (p + 1) + 1 ELSE 0)
        /\ \A i \in 1 .. n - (p + 1) + 1 : t[i] = s[p + 1 + i - 1]
    BY <2>1, <2>2, SubSeqProperties
  <2> HIDE DEF t
  <2>4. Len(t) = n - p
    BY <1>1, <1>2, <2>3
  <2>5. ASSUME NEW i \in 1 .. n - p PROVE t[i] = s[p + i]
    <3>1. i \in 1 .. n - (p + 1) + 1 /\ p + 1 + i - 1 = p + i
      BY <1>1, <1>2
    <3> QED
      BY <2>3, <3>1
  <2> QED
    BY <2>3, <2>4, <2>5
<1> HIDE DEF n, t
<1>4. ASSUME NEW x \in T PROVE \E i \in 1 .. Len(t) : t[i] = x
  <2>1. PICK q \in p + 1 .. n : x = s[q]
    BY <1>2
  <2>2. q - p \in 1 .. n - p /\ p + (q - p) = q
    BY <1>1, <1>2
  <2> QED
    BY <1>3, <2>1, <2>2
<1>5. ASSUME NEW i \in 1 .. Len(t), NEW j \in 1 .. Len(t), i < j
      PROVE  pos[t[i]] < pos[t[j]]
  <2>1. /\ i \in 1 .. n - p /\ j \in 1 .. n - p
        /\ p + i \in 1 .. n /\ p + j \in 1 .. n /\ p + i < p + j
    BY <1>1, <1>2, <1>3, <1>5
  <2> QED
    BY <1>1, <1>3, <2>1
<1> QED
  BY <1>3, <1>4, <1>5 DEF Sorts, t, n

(* Walking level 0 from the node after the p-th lists what follows it.     *)
LEMMA ListTail ==
  ASSUME NEW ns, Shape(ns), NEW pos, Laid(ns, pos), NEW p \in 1 .. Len(FirstList(ns))
  PROVE  ListOf(ns, 0)[ns[FirstList(ns)[p]].forward[0]]
           = SubSeq(FirstList(ns), p + 1, Len(FirstList(ns)))
<1> DEFINE L == FirstList(ns)
           S == DOMAIN ns \ {Header}
           m == L[p]
           t == ns[m].forward[0]
           T == {L[q] : q \in p + 1 .. Len(L)}
<1>1. /\ Sorts(pos, S, L) /\ Len(L) \in Nat /\ \A q \in 1 .. Len(L) : L[q] \in S
  BY FirstListFacts
<1>2. \A x \in S : pos[x] \in Nat
  BY LaidFacts
<1>3. On(ns, 0) = DOMAIN ns /\ m \in On(ns, 0) /\ m # Header
  BY <1>1, ShapeFacts
<1>4. /\ t \in On(ns, 0) \cup {Null} /\ pos[m] \in Nat /\ pos[t] \in Nat
      /\ pos[m] < pos[t] /\ \A k \in On(ns, 0) : pos[m] < pos[k] => pos[t] <= pos[k]
  BY <1>3, NextFacts
<1>5. Sorts(pos, Rest(ns, pos, 0, t), ListOf(ns, 0)[t])
  BY <1>4, ListSorts
<1>6. p \in 0 .. Len(L)
  BY <1>1
<1>7. Sorts(pos, T, SubSeq(L, p + 1, Len(L)))
  <2> HIDE DEF L, S
  <2> QED
    BY <1>1, <1>2, <1>6, SortsTail
<1>8. \A q, r \in 1 .. Len(L) : q < r => pos[L[q]] < pos[L[r]]
  <2> HIDE DEF L, S
  <2> QED
    BY <1>1 DEF Sorts
<1>9. Rest(ns, pos, 0, t) = T
  <2>1. ASSUME NEW k \in Rest(ns, pos, 0, t) PROVE k \in T
    <3>1. k \in DOMAIN ns /\ pos[t] <= pos[k] /\ pos[k] \in Nat
      BY <1>3, LaidFacts DEF Rest
    <3>2. pos[m] < pos[k]
      BY <1>4, <3>1
    <3>3. k # Header
      <4>1. pos[Header] < pos[m] /\ pos[Header] \in Nat
        BY <1>3, LaidFacts
      <4> QED
        BY <1>4, <3>2, <4>1
    <3>4. PICK q \in 1 .. Len(L) : L[q] = k
      <4> HIDE DEF L
      <4> QED
        BY <1>1, <3>1, <3>3 DEF Sorts
    <3>5. ~(q < p) /\ q # p
      <4>1. q < p => pos[L[q]] < pos[L[p]]
        BY <1>8
      <4>2. ~(pos[k] < pos[m]) /\ k # m
        BY <1>4, <3>1, <3>2
      <4> HIDE DEF L
      <4> QED
        BY <3>4, <4>1, <4>2
    <3> QED
      BY <1>1, <3>4, <3>5
  <2>2. ASSUME NEW k \in T PROVE k \in Rest(ns, pos, 0, t)
    <3>1. PICK q \in p + 1 .. Len(L) : k = L[q]
      OBVIOUS
    <3>2. q \in 1 .. Len(L) /\ p < q
      BY <1>1
    <3>3. pos[m] < pos[k]
      BY <1>8, <3>1, <3>2
    <3>4. k \in On(ns, 0)
      BY <1>1, <1>3, <3>1, <3>2
    <3> QED
      BY <1>4, <3>3, <3>4 DEF Rest
  <2> QED
    BY <2>1, <2>2
<1>10. \A x \in T : pos[x] \in Nat
  <2>1. T \subseteq S
    BY <1>1
  <2> QED
    BY <1>2, <2>1
<1> HIDE DEF L, T, t
<1>11. ListOf(ns, 0)[t] = SubSeq(L, p + 1, Len(L))
  BY <1>5, <1>7, <1>9, <1>10, SortsUnique
<1> QED
  BY <1>11 DEF L, t

LEMMA FirstOfCons ==
  ASSUME NEW S, NEW x \in S, NEW s \in Seq(S)
  PROVE  (<<x>> \o s)[1] = x
<1>1. <<x>> \in Seq(S) /\ Len(<<x>>) = 1 /\ <<x>>[1] = x /\ Len(s) \in Nat
  BY LenProperties
<1>2. \A i \in 1 .. Len(<<x>>) + Len(s) :
        (<<x>> \o s)[i] = IF i <= Len(<<x>>) THEN <<x>>[i] ELSE s[i - Len(<<x>>)]
  BY <1>1, ConcatProperties
<1>3. 1 \in 1 .. Len(<<x>>) + Len(s) /\ 1 <= Len(<<x>>)
  BY <1>1
<1> QED
  BY <1>1, <1>2, <1>3

(* The items of level 0 in the order of the numbers.                       *)
LEMMA ItemsInOrder ==
  ASSUME NEW ns, Shape(ns), NEW pos, Laid(ns, pos), InPlace(ns, pos), NoNaN(ns)
  PROVE  /\ \A p \in 1 .. Len(FirstList(ns)) : ItemsOf(ns)[p] \in Items \ NaNs
         /\ \A p, q \in 1 .. Len(FirstList(ns)) :
              p < q => InOrder(ItemsOf(ns)[p], ItemsOf(ns)[q])
<1> DEFINE L == FirstList(ns)
           I == ItemsOf(ns)
           S == DOMAIN ns \ {Header}
<1>1. /\ Sorts(pos, S, L)
      /\ \A p \in 1 .. Len(L) : L[p] \in S /\ I[p] = ns[L[p]].item
  BY FirstListFacts
<1>2. \A x \in S : ns[x].item \in Items \ NaNs
  BY DEF Shape, NoNaN
<1>3. \A x, y \in S : pos[x] < pos[y] => InOrder(ns[x].item, ns[y].item)
  BY DEF InPlace
<1> HIDE DEF L, I, S
<1>4. \A p, q \in 1 .. Len(L) : p < q => pos[L[p]] < pos[L[q]]
  BY <1>1 DEF Sorts
<1> QED
  BY <1>1, <1>2, <1>3, <1>4 DEF L, I

(* The walk that starts a range query has passed what is below the range   *)
(* and nothing else.                                                       *)
LEMMA HeadSkips ==
  ASSUME StructInv, live, pc # "create", NoNaN(nodes), NEW lo \in Int
  PROVE  CopyOf(nodes, size, <<>>, RangeHead(lo), lo)
<1> DEFINE L == FirstList(nodes)
           I == ItemsOf(nodes)
           B == Below(lo)
           u == [i \in Levels |-> IF i < level THEN Trail(B)[i] ELSE Header]
           m == u[0]
           t == nodes[m].forward[0]
<1>1. /\ Shape(nodes) /\ size = Cardinality(DOMAIN nodes \ {Header})
      /\ level \in 1 .. MaxLevel
  BY LiveFacts
<1>2. PICK pos : Laid(nodes, pos) /\ InPlace(nodes, pos)
  BY LiveFacts
<1>3. /\ Cut(nodes, pos, u)
      /\ m = Header \/ (m \in DOMAIN nodes /\ nodes[m].item \in B)
      /\ t # Null => nodes[t].item \notin B
  <2>1. \A i \in Levels : u[i] = IF i < level THEN Trail(B)[i] ELSE Header
    OBVIOUS
  <2> HIDE DEF u, B
  <2> QED
    BY <1>2, <2>1, SearchCuts DEF Forward
<1>4. t = RangeHead(lo)
  <2>1. 0 \in Levels /\ 0 < level
    BY <1>1, LevelRange
  <2>2. m = Trail(B)[0]
    BY <2>1
  <2> QED
    BY <2>2 DEF RangeHead, Forward
<1>5. /\ Sorts(pos, DOMAIN nodes \ {Header}, L) /\ Len(L) = size /\ Len(L) \in Nat
      /\ I \in Seq(Items) /\ Len(I) = Len(L)
      /\ L \in Seq(DOMAIN nodes \ {Header})
      /\ \A p \in 1 .. Len(L) : I[p] = nodes[L[p]].item
  BY <1>1, <1>2, FirstListFacts
<1>6. /\ \A p \in 1 .. Len(L) : I[p] \in Items \ NaNs
      /\ \A p, q \in 1 .. Len(L) : p < q => InOrder(I[p], I[q])
  BY <1>1, <1>2, ItemsInOrder
<1>7. \E p \in 0 .. size :
        /\ ListOf(nodes, 0)[t] = SubSeq(L, p + 1, size)
        /\ p # 0 => I[p] \in B
  <2>1. CASE m = Header
    <3>1. L = ListOf(nodes, 0)[t]
      BY <2>1 DEF FirstList
    <3> HIDE DEF L, t
    <3>2. SubSeq(L, 1, size) = L
      BY <1>5, SubSeqFull
    <3>3. 0 \in 0 .. size /\ 0 + 1 = 1
      BY <1>5
    <3> QED
      BY <3>1, <3>2, <3>3
  <2>2. CASE m # Header
    <3>1. m \in DOMAIN nodes /\ nodes[m].item \in B
      BY <1>3, <2>2
    <3> HIDE DEF L, u, B, I
    <3>2. PICK p \in 1 .. Len(L) : L[p] = m
      BY <1>5, <2>2, <3>1 DEF Sorts
    <3>3. ListOf(nodes, 0)[nodes[L[p]].forward[0]] = SubSeq(L, p + 1, Len(L))
      BY <1>1, <1>2, <3>2, ListTail DEF L
    <3>4. I[p] \in B
      BY <1>5, <3>1, <3>2
    <3>5. p \in 0 .. size
      BY <1>5
    <3> QED
      BY <1>5, <3>2, <3>3, <3>4, <3>5
  <2> QED
    BY <2>1, <2>2
<1>8. t \in Ptr(nodes)
  <2>1. On(nodes, 0) = DOMAIN nodes /\ m \in On(nodes, 0)
    BY <1>1, <1>3, LevelRange, ShapeFacts DEF Cut
  <2> HIDE DEF u
  <2> QED
    BY <1>1, <1>2, <2>1, NextFacts DEF Ptr
<1> HIDE DEF L, I, B, u, t
<1>9. PICK p \in 0 .. size : /\ ListOf(nodes, 0)[t] = SubSeq(L, p + 1, size)
                             /\ p # 0 => I[p] \in B
  BY <1>7
<1> DEFINE M == ListOf(nodes, 0)[t]
           R == Remaining(nodes, t)
<1>10. /\ M \in Seq(DOMAIN nodes \ {Header}) /\ R \in Seq(Items) /\ Len(R) = Len(M)
       /\ \A q \in 1 .. Len(M) : R[q] = nodes[M[q]].item
  BY <1>1, <1>2, <1>8, RemainingIs
<1>11. /\ Len(M) = size - p /\ \A q \in 1 .. size - p : M[q] = L[p + q]
  <2>1. \A i \in p + 1 .. size : L[i] \in DOMAIN nodes
    BY <1>5, ElementOfSeq
  <2>2. /\ Len(SubSeq(L, p + 1, size))
             = (IF p + 1 <= size THEN size - (p + 1) + 1 ELSE 0)
        /\ \A i \in 1 .. size - (p + 1) + 1 : SubSeq(L, p + 1, size)[i] = L[p + 1 + i - 1]
    BY <1>5, <2>1, SubSeqProperties
  <2>3. Len(M) = size - p
    BY <1>5, <1>9, <2>2
  <2>4. ASSUME NEW q \in 1 .. size - p PROVE M[q] = L[p + q]
    <3>1. q \in 1 .. size - (p + 1) + 1 /\ p + 1 + q - 1 = p + q
      BY <1>5
    <3> QED
      BY <1>9, <2>2, <3>1
  <2> QED
    BY <2>3, <2>4
<1> DEFINE J == SubSeq(I, p + 1, size)
<1>12. /\ J \in Seq(Items) /\ Len(J) = size - p
       /\ \A q \in 1 .. size - p : J[q] = I[p + q]
  <2>1. \A i \in p + 1 .. size : I[i] \in Items
    BY <1>5, ElementOfSeq
  <2>2. /\ J \in Seq(Items) /\ Len(J) = (IF p + 1 <= size THEN size - (p + 1) + 1 ELSE 0)
        /\ \A i \in 1 .. size - (p + 1) + 1 : J[i] = I[p + 1 + i - 1]
    BY <1>5, <2>1, SubSeqProperties
  <2> HIDE DEF J
  <2>3. Len(J) = size - p
    BY <1>5, <2>2
  <2>4. ASSUME NEW q \in 1 .. size - p PROVE J[q] = I[p + q]
    <3>1. q \in 1 .. size - (p + 1) + 1 /\ p + 1 + q - 1 = p + q
      BY <1>5
    <3> QED
      BY <2>2, <3>1
  <2> QED
    BY <2>2, <2>3, <2>4
<1> HIDE DEF M, R, J
<1>13. R = J
  <2>1. Len(R) = Len(J)
    BY <1>10, <1>11, <1>12
  <2>2. ASSUME NEW q \in 1 .. Len(R) PROVE R[q] = J[q]
    <3>1. q \in 1 .. size - p /\ q \in 1 .. Len(M)
      BY <1>10, <1>11
    <3>2. p + q \in 1 .. Len(L)
      BY <1>5, <3>1
    <3> QED
      BY <1>5, <1>10, <1>11, <1>12, <3>1, <3>2
  <2> QED
    BY <1>10, <1>12, <2>1, <2>2, SeqEqual
<1>14. <<>> \o R = J
  BY <1>10, <1>13, ConcatEmptySeq
<1>15. \A q \in 1 .. p : I[q] \in B
  <2> TAKE q \in 1 .. p
  <2>1. p \in 1 .. Len(L) /\ q \in 1 .. Len(L) /\ p # 0
    BY <1>5
  <2>2. I[p] \in B /\ I[p] \in Items \ NaNs /\ I[q] \in Items \ NaNs
    BY <1>6, <1>9, <2>1
  <2>3. CASE q = p
    BY <2>2, <2>3
  <2>4. CASE q # p
    <3>1. InOrder(I[q], I[p])
      <4>1. q < p
        BY <2>4
      <4> QED
        BY <1>6, <2>1, <4>1
    <3> QED
      BY <2>2, <3>1, OrderFacts DEF B
  <2> QED
    BY <2>3, <2>4
<1>16. \A q \in p + 1 .. size : I[q] \notin B
  <2> TAKE q \in p + 1 .. size
  <2>1. /\ p + 1 \in 1 .. Len(L) /\ q \in 1 .. Len(L) /\ 1 \in 1 .. size - p
    BY <1>5
  <2>2. M[1] = L[p + 1] /\ M # <<>>
    <3>1. Len(M) # 0
      BY <1>11, <2>1
    <3> QED
      BY <1>11, <2>1, <3>1, EmptySeq
  <2>3. t = L[p + 1] /\ t # Null
    <3>1. t # Null
      <4>1. ListOf(nodes, 0)[Null] = <<>>
        BY <1>1, <1>2, ListStep
      <4> QED
        BY <2>2, <4>1 DEF M
    <3>2. On(nodes, 0) = DOMAIN nodes /\ t \in DOMAIN nodes \ {Header}
      BY <1>1, <1>8, <3>1, ShapeFacts DEF Ptr
    <3>3. M = <<t>> \o ListOf(nodes, 0)[nodes[t].forward[0]]
      <4>1. t \in On(nodes, 0)
        BY <3>2
      <4>2. \A k \in On(nodes, 0) :
              ListOf(nodes, 0)[k] = <<k>> \o ListOf(nodes, 0)[nodes[k].forward[0]]
        BY <1>1, <1>2, ListStep
      <4> QED
        BY <4>1, <4>2 DEF M
    <3>4. ListOf(nodes, 0)[nodes[t].forward[0]] \in Seq(DOMAIN nodes \ {Header})
      <4>1. nodes[t].forward[0] \in Ptr(nodes)
        BY <1>1, <1>2, <3>2, RemainingStep
      <4> QED
        BY <1>1, <1>2, <4>1, RemainingIs
    <3>5. M[1] = t
      BY <3>2, <3>3, <3>4, FirstOfCons
    <3> QED
      BY <2>2, <3>1, <3>5
  <2>4. I[p + 1] \notin B /\ I[p + 1] \in Items \ NaNs /\ I[q] \in Items \ NaNs
    <3>1. nodes[t].item \notin B
      BY <1>3, <2>3 DEF t
    <3> QED
      BY <1>5, <1>6, <2>1, <2>3, <3>1
  <2>5. CASE q = p + 1
    BY <2>4, <2>5
  <2>6. CASE q # p + 1
    <3>1. p + 1 < q
      BY <2>6, <1>5
    <3>2. InOrder(I[p + 1], I[q])
      BY <1>6, <2>1, <3>1
    <3> QED
      BY <2>4, <3>2, OrderFacts DEF B
  <2> QED
    BY <2>5, <2>6
<1>17. CopyOf(nodes, size, <<>>, t, lo)
  BY <1>14, <1>15, <1>16 DEF CopyOf, R, J, I, B
<1> QED
  BY <1>4, <1>17

(* The node it ends at is in the range when any node stored is.            *)
LEMMA HeadMeets ==
  ASSUME StructInv, live, pc # "create", NoNaN(nodes), NEW lo \in Int, NEW hi \in Int,
         NEW n \in DOMAIN nodes \ {Header}, nodes[n].item \in UpTo(hi) \ Below(lo)
  PROVE  InRange(RangeHead(lo), hi)
<1> DEFINE B == Below(lo)
           u == [i \in Levels |-> IF i < level THEN Trail(B)[i] ELSE Header]
           m == u[0]
           t == nodes[m].forward[0]
<1>1. Shape(nodes) /\ level \in 1 .. MaxLevel
  BY LiveFacts
<1>2. PICK pos : Laid(nodes, pos) /\ InPlace(nodes, pos)
  BY LiveFacts
<1>3. /\ Cut(nodes, pos, u)
      /\ m = Header \/ (m \in DOMAIN nodes /\ nodes[m].item \in B)
  <2>1. \A i \in Levels : u[i] = IF i < level THEN Trail(B)[i] ELSE Header
    OBVIOUS
  <2> HIDE DEF u, B
  <2> QED
    BY <1>2, <2>1, SearchCuts DEF Forward
<1>4. t = RangeHead(lo)
  <2>1. 0 \in Levels /\ 0 < level
    BY <1>1, LevelRange
  <2>2. m = Trail(B)[0]
    BY <2>1
  <2> QED
    BY <2>2 DEF RangeHead, Forward
<1>5. m \in On(nodes, 0)
  <2> HIDE DEF u
  <2> QED
    BY <1>3, LevelRange DEF Cut
<1> HIDE DEF u
<1>6. On(nodes, 0) = DOMAIN nodes /\ n \in On(nodes, 0)
  BY <1>1, ShapeFacts
<1>7. \A k \in DOMAIN nodes \ {Header} : nodes[k].item \in Items \ NaNs
  BY <1>1 DEF Shape, NoNaN
<1>8. pos[n] \in Nat /\ pos[m] \in Nat /\ (pos[n] = pos[m] => n = m)
  BY <1>1, <1>2, <1>5, <1>6, LaidFacts
<1>9. pos[m] < pos[n]
  <2>1. CASE m = Header
    BY <1>1, <1>2, <2>1, LaidFacts
  <2>2. CASE m # Header
    <3>1. m \in DOMAIN nodes \ {Header} /\ nodes[m].item \in B
      BY <1>3, <2>2
    <3>2. n # m /\ nodes[n].item \notin B
      BY <3>1
    <3>3. ~(pos[n] < pos[m])
      <4> SUFFICES ASSUME pos[n] < pos[m] PROVE FALSE
        OBVIOUS
      <4>1. InOrder(nodes[n].item, nodes[m].item)
        BY <1>2, <3>1 DEF InPlace
      <4> QED
        BY <1>7, <3>1, <3>2, <4>1, OrderFacts DEF B
    <3> QED
      BY <1>8, <3>2, <3>3
  <2> QED
    BY <2>1, <2>2
<1>10. /\ t \in On(nodes, 0) \cup {Null} /\ t # Header /\ pos[t] \in Nat
       /\ pos[t] <= pos[n]
  BY <1>1, <1>2, <1>5, <1>6, <1>9, NextFacts
<1> HIDE DEF t
<1>11. t # Null /\ t \in DOMAIN nodes \ {Header}
  <2>1. pos[n] < pos[Null] /\ pos[Null] \in Nat
    BY <1>1, <1>2, LaidFacts
  <2>2. t # Null
    BY <1>8, <1>10, <2>1
  <2> QED
    BY <1>6, <1>10, <2>2
<1>12. CASE t = n
  BY <1>4, <1>11, <1>12 DEF InRange
<1>13. CASE t # n
  <2>1. pos[t] # pos[n]
    BY <1>1, <1>2, <1>11, <1>13, LaidFacts
  <2>2. pos[t] < pos[n]
    BY <1>8, <1>10, <2>1
  <2>3. InOrder(nodes[t].item, nodes[n].item)
    BY <1>2, <1>11, <2>2 DEF InPlace
  <2>4. nodes[t].item \in Items \ NaNs /\ nodes[n].item \in Items \ NaNs
    BY <1>7, <1>11
  <2>5. nodes[t].item \in UpTo(hi)
    BY <2>3, <2>4, OrderUpTo
  <2> QED
    BY <1>4, <1>11, <2>5 DEF InRange
<1> QED
  BY <1>12, <1>13

LEMMA RangeStartInv ==
  ASSUME SkipInv, NEW lo \in Bounds, NEW hi \in Bounds, RangeStart(lo, hi)
  PROVE  SkipInv'
<1>1. /\ live /\ pc = "idle" /\ handed = 0 /\ pc' = "copy" /\ current' = RangeHead(lo)
      /\ results' = <<>> /\ min_score' = lo /\ max_score' = hi /\ used' = used + 1
      /\ live' = live /\ size' = size /\ iters' = iters /\ handed' = handed
      /\ UNCHANGED <<live, listVars, failVars, iters, status, arg, iter_status>>
  BY DEF RangeStart, Idle, listVars
<1>2. lo \in Int /\ hi \in Int
  BY SkipListAssumption
<1>3. NoNaN(nodes) => CopyOf(nodes, size, results', current', min_score')
  <2>1. NoNaN(nodes) => CopyOf(nodes, size, <<>>, RangeHead(lo), lo)
    BY <1>1, <1>2, HeadSkips DEF SkipInv
  <2> QED
    BY <1>1, <2>1
<1>4. current' \in Ptr(nodes)
  <2> DEFINE B == Below(lo)
             u == [i \in Levels |-> IF i < level THEN Trail(B)[i] ELSE Header]
  <2>1. /\ Shape(nodes) /\ level \in 1 .. MaxLevel
        /\ \E pos : Laid(nodes, pos)
    BY <1>1, LiveFacts DEF SkipInv
  <2>2. PICK pos : Laid(nodes, pos)
    BY <2>1
  <2>3. \A i \in Levels : u[i] = IF i < level THEN Trail(B)[i] ELSE Header
    OBVIOUS
  <2>4. u[0] = Trail(B)[0]
    <3>1. 0 \in Levels /\ 0 < level
      BY <2>1, LevelRange
    <3> QED
      BY <2>3, <3>1
  <2> HIDE DEF u
  <2>5. Cut(nodes, pos, u)
    BY <1>1, <2>2, <2>3, SearchCuts DEF SkipInv
  <2>6. u[0] \in On(nodes, 0)
    BY <2>5, LevelRange DEF Cut
  <2>7. nodes[u[0]].forward[0] \in Ptr(nodes)
    BY <2>1, <2>2, <2>6, NextFacts, ShapeFacts DEF Ptr
  <2> QED
    BY <1>1, <2>4, <2>7 DEF RangeHead, Forward
<1>5. used' = Cells(live', size', iters', pc', results', handed')
  <2> DEFINE c == Cardinality(Opened(iters))
             old == Cells(TRUE, size, iters, "idle", results, 0)
             new == Cells(TRUE, size, iters, "copy", results', 0)
  <2>1. new = 4 + 3 * size + c + (1 + Len(results')) + 0
    BY DEF Cells
  <2>2. old = 4 + 3 * size + c + 0 + 0
    BY CallCells
  <2>3. live = TRUE
    BY <1>1 DEF SkipInv, StructInv
  <2>4. used = old
    <3>1. used = Cells(live, size, iters, pc, results, handed)
      BY <1>1, NoLeakIs DEF SkipInv
    <3> QED
      BY <1>1, <2>3, <3>1
  <2>5. c \in Nat /\ size \in Nat
    <3>1. IsFiniteSet(Opened(iters)) /\ size \in Nat
      BY SizeIsNat DEF SkipInv, ClientInv, Opened
    <3> QED
      BY <3>1, FS_CardinalityType
  <2>6. Len(results') = 0
    BY <1>1
  <2> HIDE DEF c, old, new
  <2>7. used' = new
    BY <1>1, <2>1, <2>2, <2>4, <2>5, <2>6
  <2>8. /\ live' = TRUE /\ size' = size /\ iters' = iters /\ pc' = "copy" /\ handed' = 0
    BY <1>1, <2>3
  <2> QED
    BY <2>7, <2>8, Zenon DEF new
<1>6. /\ results' \in Seq(Items) /\ max_score' \in Int /\ handed' \in Nat
      /\ handed' = 0
  BY <1>1, <1>2, EmptySeq
<1>7. pc' \in {"idle", "copy"} /\ pc' # "idle"
  BY <1>1
<1> QED
  BY <1>1, <1>3, <1>4, <1>5, <1>6, <1>7, RangeInv

-----------------------------------------------------------------------------
(* The iterators                                                           *)

(* A step of iterators alone.                                              *)
LEMMA IterInv ==
  ASSUME SkipInv, UNCHANGED <<live, listVars, callVars, handed, status, arg>>,
         pc = "idle", iters' \in [Iters -> Iterator],
         IsFiniteSet(Opened(iters')), iter_status' \in Statuses,
         \A it \in Iters : iters'[it].open =>
            live /\ iters'[it].snapshot_version <= version,
         \A it \in Iters :
            live /\ iters'[it].open /\ iters'[it].snapshot_version = version =>
              Walks(nodes, size, iters'[it]),
         used' = used + (Cardinality(Opened(iters')) - Cardinality(Opened(iters)))
  PROVE  SkipInv'
<1>1. /\ live' = live /\ level' = level /\ size' = size /\ version' = version
      /\ nodes' = nodes /\ pc' = pc /\ current' = current /\ results' = results
      /\ min_score' = min_score /\ max_score' = max_score
      /\ handed' = handed /\ status' = status /\ arg' = arg
      /\ parts' = parts /\ old_level' = old_level
  BY DEF listVars, callVars, failVars
<1>2. StructInv'
  BY <1>1, SameStruct DEF SkipInv, Settled
<1>3. ClientInv'
  <2>1. IsFiniteSet({it \in Iters : iters'[it].open})
    BY DEF Opened
  <2>2. /\ results \in Seq(Items) /\ current \in Ptr(nodes) /\ max_score \in Int
        /\ current = Null /\ handed \in Nat /\ status \in Statuses
        /\ arg \in Items \cup {Null}
    BY DEF SkipInv, ClientInv
  <2>3. {status', iter_status'} \subseteq Statuses
    BY <1>1, <2>2
  <2>4. \A it \in Iters : iters'[it].open =>
          live' /\ iters'[it].snapshot_version <= version'
    BY <1>1
  <2> QED
    BY <1>1, <2>1, <2>2, <2>3, <2>4 DEF ClientInv, FailInv, SkipInv
<1>4. NoLeak'
  <2>1. /\ live \in BOOLEAN /\ size \in Nat /\ handed \in Nat
        /\ IsFiniteSet(Opened(iters))
    BY SizeIsNat DEF SkipInv, StructInv, ClientInv, Opened
  <2> DEFINE c == Cardinality(Opened(iters))
             d == Cardinality(Opened(iters'))
             new == Cells(live, size, iters', "idle", results, handed)
             old == Cells(live, size, iters, "idle", results, handed)
  <2>2. c \in Nat /\ d \in Nat
    BY <2>1, FS_CardinalityType
  <2>3. used = old
    BY NoLeakIs DEF SkipInv
  <2>4. used' = used + (d - c)
    OBVIOUS
  <2>5. new = old + (d - c)
    <3>1. CASE live = TRUE
      <4>1. old = 4 + 3 * size + c + 0 + handed
        BY <3>1, CallCells
      <4>2. new = 4 + 3 * size + d + 0 + handed
        BY <3>1, CallCells
      <4> HIDE DEF c, d, old, new
      <4> QED
        BY <2>1, <2>2, <4>1, <4>2
    <3>2. CASE live = FALSE
      <4>1. old = 0 + c + 0 + handed
        BY <3>2, TornCells
      <4>2. new = 0 + d + 0 + handed
        BY <3>2, TornCells
      <4> HIDE DEF c, d, old, new
      <4> QED
        BY <2>1, <2>2, <4>1, <4>2
    <3> QED
      BY <2>1, <3>1, <3>2
  <2>6. used' = new
    BY <2>3, <2>4, <2>5
  <2>7. used' = Cells(live', size', iters', pc', results', handed')
    BY <1>1, <2>6, Zenon
  <2> QED
    BY <1>1, <2>7, NoLeakIs
<1>5. IteratorExact'
  BY <1>1, ExactIsNext
<1>6. CopyInv'
  BY <1>1, CopyIs
<1> QED
  BY <1>2, <1>3, <1>4, <1>5, <1>6 DEF SkipInv

LEMMA WalksStep ==
  ASSUME NEW ns, Shape(ns), NEW pos, Laid(ns, pos), NEW n,
         n = Cardinality(DOMAIN ns \ {Header}), NEW r \in Iterator, NEW s \in Iterator,
         Walks(ns, n, r), r.current # Null,
         s.current = ns[r.current].forward[0],
         s.seen = Append(r.seen, ns[r.current].item)
  PROVE  Walks(ns, n, s)
<1> DEFINE L == FirstList(ns)
           I == ItemsOf(ns)
           m == r.current
           k == Len(r.seen)
           M == ListOf(ns, 0)[m]
           R == ListOf(ns, 0)[ns[m].forward[0]]
<1>1. /\ Len(L) = n /\ n \in Nat /\ L \in Seq(DOMAIN ns \ {Header})
      /\ I \in Seq(Items) /\ Len(I) = n
      /\ \A p \in 1 .. n : I[p] = ns[L[p]].item
  BY FirstListFacts
<1>2. r.seen \in Seq(Items) /\ k \in Nat
  <2>1. r.seen \in Seq(Items)
    BY DEF Iterator
  <2> QED
    BY <2>1, LenProperties
<1>3. /\ m \in DOMAIN ns \ {Header} /\ k <= n /\ r.seen = SubSeq(I, 1, k)
      /\ M = SubSeq(L, k + 1, n)
  BY DEF Walks, Ptr
<1>4. ns[m].forward[0] \in Ptr(ns)
  BY <1>3, RemainingStep
<1>5. R \in Seq(DOMAIN ns \ {Header})
  BY <1>4, RemainingIs
<1>6. M = <<m>> \o R
  <2>1. m \in On(ns, 0)
    BY <1>3, ShapeFacts
  <2>2. \A j \in On(ns, 0) : ListOf(ns, 0)[j] = <<j>> \o ListOf(ns, 0)[ns[j].forward[0]]
    BY ListStep
  <2> QED
    BY <2>1, <2>2
<1> DEFINE item == ns[m].item
<1>7. s.current \in Ptr(ns) /\ ListOf(ns, 0)[s.current] = R
  BY <1>4
<1>8. s.seen = Append(r.seen, item) /\ item \in Items
  BY <1>3 DEF Shape
<1> HIDE DEF L, I, M, R, k, m, item
<1>9. M[1] = m /\ Len(M) # 0
  <2>1. Len(R) \in Nat /\ <<m>> \in Seq(DOMAIN ns \ {Header}) /\ Len(<<m>>) = 1
    BY <1>3, <1>5, LenProperties
  <2>2. Len(<<m>> \o R) = Len(<<m>>) + Len(R)
    BY <1>5, <2>1, ConcatProperties
  <2>3. (<<m>> \o R)[1] = m
    BY <1>3, <1>5, FirstOfCons
  <2> QED
    BY <1>6, <2>1, <2>2, <2>3
<1>10. \A i \in k + 1 .. n : L[i] \in DOMAIN ns
  <2> TAKE i \in k + 1 .. n
  <2>1. i \in 1 .. Len(L)
    BY <1>1, <1>2
  <2> QED
    BY <1>1, <2>1, ElementOfSeq
<1>11. k + 1 \in 1 .. n /\ m = L[k + 1]
  <2>1. /\ Len(M) = (IF k + 1 <= n THEN n - (k + 1) + 1 ELSE 0)
        /\ \A i \in 1 .. n - (k + 1) + 1 : M[i] = L[k + 1 + i - 1]
    BY <1>1, <1>2, <1>3, <1>10, SubSeqProperties
  <2>2. k + 1 <= n
    BY <1>9, <2>1
  <2>3. 1 \in 1 .. n - (k + 1) + 1 /\ k + 1 + 1 - 1 = k + 1
    BY <1>1, <1>2, <2>2
  <2>4. M[1] = L[k + 1]
    BY <2>1, <2>3
  <2> QED
    BY <1>1, <1>2, <1>9, <2>2, <2>4
<1>12. R = SubSeq(L, (k + 1) + 1, n)
  BY <1>1, <1>11, ListTail DEF R, L
<1>13. s.seen = SubSeq(I, 1, k + 1)
  <2>1. item = I[k + 1]
    BY <1>1, <1>11 DEF item
  <2> DEFINE j == k + 1
  <2>2. 1 \in 1 .. Len(I) /\ j \in 1 .. Len(I) /\ I \in Seq(Items) /\ j - 1 = k
    BY <1>1, <1>2, <1>11
  <2>3. item = I[j]
    BY <2>1
  <2> HIDE DEF j
  <2>4. SubSeq(I, 1, j) = SubSeq(I, 1, j - 1) \o <<I[j]>>
    BY <2>2, SubSeqRecursiveSecond
  <2>5. Append(r.seen, item) = r.seen \o <<item>>
    BY <1>2, <1>8, AppendIsConcat
  <2>6. s.seen = SubSeq(I, 1, j)
    BY <1>3, <1>8, <2>2, <2>3, <2>4, <2>5
  <2> QED
    BY <2>6 DEF j
<1>14. Len(s.seen) = k + 1
  BY <1>2, <1>8, AppendProperties DEF k
<1>15. Len(s.seen) <= n
  BY <1>11, <1>14
<1> QED
  BY <1>7, <1>12, <1>13, <1>14, <1>15 DEF Walks, L, I

LEMMA IterNextInv == ASSUME SkipInv, NEW it \in Iters, IterNext(it) PROVE SkipInv'
<1> DEFINE r == iters[it]
           s == [r EXCEPT !.current = nodes[r.current].forward[0],
                          !.seen = Append(r.seen, nodes[r.current].item)]
<1>1. /\ live /\ pc = "idle" /\ r.open /\ r.current # Null /\ r.snapshot_version = version
      /\ iters' = [iters EXCEPT ![it] = s] /\ iter_status' = "CDSA_OK" /\ used' = used
      /\ UNCHANGED <<live, listVars, callVars, handed, status, arg>>
  BY DEF IterNext, Idle, Safe, Forward
<1>2. /\ iters \in [Iters -> Iterator] /\ r \in Iterator /\ IsFiniteSet(Opened(iters))
      /\ \A k \in Iters : iters[k].open => live /\ iters[k].snapshot_version <= version
  BY DEF SkipInv, ClientInv, Opened
<1>3. /\ Shape(nodes) /\ size = Cardinality(DOMAIN nodes \ {Header})
      /\ \E pos : Laid(nodes, pos)
  BY <1>1, LiveFacts DEF SkipInv
<1>4. PICK pos : Laid(nodes, pos)
  BY <1>3
<1>5. Walks(nodes, size, r)
  BY <1>1, ExactIs DEF SkipInv
<1>6. r.current \in DOMAIN nodes \ {Header}
  BY <1>1, <1>5 DEF Walks, Ptr
<1>7. nodes[r.current].forward[0] \in Ptr(nodes) /\ nodes[r.current].item \in Items
  BY <1>3, <1>4, <1>6, RemainingStep
<1>8. /\ s \in Iterator /\ s.open = r.open /\ s.snapshot_version = r.snapshot_version
      /\ s.current = nodes[r.current].forward[0]
      /\ s.seen = Append(r.seen, nodes[r.current].item)
  <2>1. r \in [open : BOOLEAN, current : Ids \cup {Null}, snapshot_version : Nat,
               seen : Seq(Items)]
    BY <1>2 DEF Iterator
  <2>2. nodes[r.current].forward[0] \in Ids \cup {Null}
    BY <1>3, <1>7 DEF Ptr, Shape
  <2>3. Append(r.seen, nodes[r.current].item) \in Seq(Items)
    BY <1>7, <2>1, AppendProperties
  <2> QED
    BY <2>1, <2>2, <2>3 DEF Iterator
<1>9. Walks(nodes, size, s)
  <2> HIDE DEF r, s
  <2> QED
    BY <1>1, <1>2, <1>3, <1>4, <1>5, <1>8, WalksStep
<1> HIDE DEF s
<1>10. /\ iters' \in [Iters -> Iterator] /\ iters'[it] = s
       /\ \A k \in Iters : k # it => iters'[k] = iters[k]
  BY <1>1, <1>2, <1>8
<1>11. Opened(iters') = Opened(iters)
  BY <1>8, <1>10 DEF Opened
<1>12. \A k \in Iters : iters'[k].open => live /\ iters'[k].snapshot_version <= version
  BY <1>1, <1>2, <1>8, <1>10
<1>13. ASSUME NEW k \in Iters, iters'[k].open, iters'[k].snapshot_version = version
       PROVE  Walks(nodes, size, iters'[k])
  <2>1. CASE k = it
    BY <1>9, <1>10, <2>1
  <2>2. CASE k # it
    BY <1>1, <1>10, <1>13, <2>2, ExactIs DEF SkipInv
  <2> QED
    BY <2>1, <2>2
<1>14. used' = used + (Cardinality(Opened(iters')) - Cardinality(Opened(iters)))
  <2>1. Cardinality(Opened(iters)) \in Nat /\ used \in Nat
    BY <1>2, UsedIsNat, FS_CardinalityType DEF SkipInv
  <2> QED
    BY <1>1, <1>11, <2>1
<1>15. iter_status' \in Statuses
  BY <1>1 DEF Statuses
<1> QED
  BY <1>1, <1>2, <1>10, <1>11, <1>12, <1>13, <1>14, <1>15, IterInv

LEMMA NewIterInv == ASSUME SkipInv, NEW it \in Iters, NewIter(it) PROVE SkipInv'
<1> DEFINE s == [ClosedIter EXCEPT !.open = TRUE, !.current = nodes[Header].forward[0],
                                   !.snapshot_version = version]
<1>1. /\ live /\ pc = "idle" /\ ~iters[it].open
      /\ iters' = [iters EXCEPT ![it] = s] /\ iter_status' = "CDSA_OK" /\ used' = used + 1
      /\ UNCHANGED <<live, listVars, callVars, handed, status, arg>>
  BY DEF NewIter, Idle, Forward
<1>2. /\ iters \in [Iters -> Iterator] /\ IsFiniteSet(Opened(iters)) /\ version \in Nat
      /\ \A k \in Iters : iters[k].open => live /\ iters[k].snapshot_version <= version
  BY DEF SkipInv, ClientInv, StructInv, Opened
<1>3. /\ Shape(nodes) /\ size = Cardinality(DOMAIN nodes \ {Header})
      /\ \E pos : Laid(nodes, pos)
  BY <1>1, LiveFacts DEF SkipInv
<1>4. PICK pos : Laid(nodes, pos)
  BY <1>3
<1>5. nodes[Header].forward[0] \in Ptr(nodes)
  <2>1. Header \in On(nodes, 0) /\ On(nodes, 0) = DOMAIN nodes
    BY <1>3, ShapeFacts, LevelRange
  <2> QED
    BY <1>3, <1>4, <2>1, NextFacts DEF Ptr
<1>6. /\ s \in Iterator /\ s.open = TRUE /\ s.snapshot_version = version
      /\ s.current = nodes[Header].forward[0] /\ s.seen = <<>>
  <2>1. ClosedIter \in Iterator /\ ClosedIter.seen = <<>>
    BY EmptySeq DEF ClosedIter, Iterator
  <2>2. nodes[Header].forward[0] \in Ids \cup {Null}
    BY <1>3, <1>5 DEF Ptr, Shape
  <2>3. /\ s \in Iterator /\ s.open = TRUE /\ s.snapshot_version = version
        /\ s.current = nodes[Header].forward[0] /\ s.seen = ClosedIter.seen
    BY <1>2, <2>1, <2>2 DEF Iterator
  <2> QED
    BY <2>1, <2>3
<1> HIDE DEF s
<1>7. Walks(nodes, size, s)
  <2> DEFINE L == FirstList(nodes)
             I == ItemsOf(nodes)
  <2>1. /\ Len(L) = size /\ size \in Nat /\ L \in Seq(DOMAIN nodes \ {Header})
    BY <1>3, <1>4, FirstListFacts
  <2>2. ListOf(nodes, 0)[s.current] = L /\ s.seen = <<>>
    BY <1>6 DEF FirstList
  <2> HIDE DEF L, I
  <2>3. SubSeq(L, 1, size) = L
    BY <2>1, SubSeqFull
  <2>4. SubSeq(I, 1, 0) = <<>>
    BY SubSeqEmpty
  <2>5. Len(s.seen) = 0 /\ 0 <= size /\ 0 + 1 = 1
    BY <2>1, <2>2, EmptySeq
  <2> QED
    BY <1>5, <1>6, <2>2, <2>3, <2>4, <2>5 DEF Walks, L, I
<1>8. /\ iters' \in [Iters -> Iterator] /\ iters'[it] = s
      /\ \A k \in Iters : k # it => iters'[k] = iters[k]
  BY <1>1, <1>2, <1>6
<1>9. Opened(iters') = Opened(iters) \cup {it} /\ it \notin Opened(iters)
  BY <1>1, <1>6, <1>8 DEF Opened
<1>10. /\ IsFiniteSet(Opened(iters'))
       /\ Cardinality(Opened(iters')) = Cardinality(Opened(iters)) + 1
  BY <1>2, <1>9, FS_AddElement
<1>11. \A k \in Iters : iters'[k].open => live /\ iters'[k].snapshot_version <= version
  BY <1>1, <1>2, <1>6, <1>8
<1>12. ASSUME NEW k \in Iters, iters'[k].open, iters'[k].snapshot_version = version
       PROVE  Walks(nodes, size, iters'[k])
  <2>1. CASE k = it
    BY <1>7, <1>8, <2>1
  <2>2. CASE k # it
    BY <1>1, <1>8, <1>12, <2>2, ExactIs DEF SkipInv
  <2> QED
    BY <2>1, <2>2
<1>13. used' = used + (Cardinality(Opened(iters')) - Cardinality(Opened(iters)))
  <2>1. Cardinality(Opened(iters)) \in Nat /\ used \in Nat
    BY <1>2, UsedIsNat, FS_CardinalityType DEF SkipInv
  <2> QED
    BY <1>1, <1>10, <2>1
<1>14. iter_status' \in Statuses
  BY <1>1 DEF Statuses
<1> QED
  BY <1>1, <1>8, <1>10, <1>11, <1>12, <1>13, <1>14, IterInv

LEMMA FreeIterInv == ASSUME SkipInv, NEW it \in Iters, FreeIter(it) PROVE SkipInv'
<1>1. /\ pc = "idle" /\ iters[it].open /\ iters' = [iters EXCEPT ![it] = ClosedIter]
      /\ iter_status' = "CDSA_OK" /\ used' = used - 1
      /\ UNCHANGED <<live, listVars, callVars, handed, status, arg>>
  BY DEF FreeIter
<1>2. /\ iters \in [Iters -> Iterator] /\ IsFiniteSet(Opened(iters)) /\ version \in Nat
      /\ \A k \in Iters : iters[k].open => live /\ iters[k].snapshot_version <= version
  BY DEF SkipInv, ClientInv, StructInv, Opened
<1>3. ClosedIter \in Iterator /\ ClosedIter.open = FALSE
  BY EmptySeq DEF ClosedIter, Iterator
<1>4. /\ iters' \in [Iters -> Iterator] /\ ~iters'[it].open
      /\ \A k \in Iters : k # it => iters'[k] = iters[k]
  BY <1>1, <1>2, <1>3
<1>5. Opened(iters') = Opened(iters) \ {it} /\ it \in Opened(iters)
  BY <1>1, <1>4 DEF Opened
<1>6. /\ IsFiniteSet(Opened(iters'))
      /\ Cardinality(Opened(iters')) = Cardinality(Opened(iters)) - 1
  BY <1>2, <1>5, FS_RemoveElement
<1>7. \A k \in Iters : iters'[k].open => live /\ iters'[k].snapshot_version <= version
  BY <1>2, <1>4
<1>8. \A k \in Iters : live /\ iters'[k].open /\ iters'[k].snapshot_version = version =>
        Walks(nodes, size, iters'[k])
  BY <1>4, ExactIs DEF SkipInv
<1>9. used' = used + (Cardinality(Opened(iters')) - Cardinality(Opened(iters)))
  <2>1. Cardinality(Opened(iters)) \in Nat /\ used \in Nat
    BY <1>2, UsedIsNat, FS_CardinalityType DEF SkipInv
  <2> QED
    BY <1>1, <1>6, <2>1
<1>10. iter_status' \in Statuses
  BY <1>1 DEF Statuses
<1> QED
  BY <1>1, <1>4, <1>6, <1>7, <1>8, <1>9, <1>10, IterInv

-----------------------------------------------------------------------------
(* The invariant                                                           *)

LEMMA SkipInit == ASSUME Init PROVE SkipInv
<1>1. /\ live = FALSE /\ level = 0 /\ size = 0 /\ version = 0 /\ nodes = NoNodes
      /\ pc = "idle" /\ current = Null /\ results = <<>> /\ max_score = 0
      /\ parts = 0 /\ old_level = 0
      /\ iters = [it \in Iters |-> ClosedIter] /\ used = 0 /\ handed = 0
      /\ status = "CDSA_OK" /\ arg = Null /\ iter_status = "CDSA_OK"
  BY DEF Init
<1>2. StructInv
  BY <1>1 DEF StructInv
<1>3. ClosedIter \in Iterator /\ ClosedIter.open = FALSE
  BY EmptySeq DEF ClosedIter, Iterator
<1>4. iters \in [Iters -> Iterator] /\ \A it \in Iters : ~iters[it].open
  BY <1>1, <1>3
<1>5. Opened(iters) = {}
  BY <1>4 DEF Opened
<1>6. IsFiniteSet(Opened(iters)) /\ Cardinality(Opened(iters)) = 0
  BY <1>5, FS_EmptySet
<1>7. ClientInv
  <2>1. results \in Seq(Items) /\ max_score \in Int /\ current \in Ptr(nodes)
    BY <1>1, EmptySeq DEF Ptr
  <2>2. IsFiniteSet({it \in Iters : iters[it].open})
    BY <1>6 DEF Opened
  <2>3. {status, iter_status} \subseteq Statuses
    BY <1>1 DEF Statuses
  <2> QED
    BY <1>1, <1>4, <2>1, <2>2, <2>3 DEF ClientInv, FailInv, ListCells, NodeCells
<1>8. NoLeak
  <2>1. Cells(FALSE, size, iters, "idle", results, 0) = 0 + Cardinality(Opened(iters)) + 0 + 0
    BY TornCells
  <2>2. 0 + Cardinality(Opened(iters)) + 0 + 0 = 0
    BY <1>6
  <2>3. used = 0
    BY <1>1
  <2>4. used = Cells(FALSE, size, iters, "idle", results, 0)
    BY <2>1, <2>2, <2>3, Zenon
  <2>5. live = FALSE /\ pc = "idle" /\ handed = 0
    BY <1>1
  <2>6. used = Cells(live, size, iters, pc, results, handed)
    BY <2>4, <2>5, Zenon
  <2> QED
    BY <2>5, <2>6, NoLeakIs
<1>9. IteratorExact
  BY <1>4, ExactIs
<1>10. CopyInv
  BY <1>1 DEF CopyInv
<1> QED
  BY <1>2, <1>7, <1>8, <1>9, <1>10 DEF SkipInv

(* A creation or an insertion that will fail: what the list holds stays.   *)
LEMMA FailStepInv ==
  ASSUME SkipInv, pc # "copy", pc' \in {"idle", "create"}, Settled' = Settled, FailInv',
         level' \in Nat, ~live => level' = 0, NoLeak',
         UNCHANGED <<live, size, version, nodes, current, results, min_score,
                     max_score, iters, handed, iter_status>>,
         status' \in Statuses, arg' \in Items \cup {Null}
  PROVE  SkipInv'
<1>1. /\ live' = live /\ size' = size /\ version' = version /\ nodes' = nodes
      /\ current' = current /\ results' = results /\ max_score' = max_score
      /\ iters' = iters /\ handed' = handed /\ iter_status' = iter_status
  OBVIOUS
<1>2. StructInv'
  BY <1>1 DEF SkipInv, StructInv
<1>3. ClientInv'
  BY <1>1 DEF SkipInv, ClientInv
<1>4. IteratorExact'
  BY <1>1, ExactIs, ExactIsNext DEF SkipInv
<1>5. CopyInv'
  BY <1>1, CopyIs
<1> QED
  BY <1>2, <1>3, <1>4, <1>5 DEF SkipInv

LEMMA CreateOOMInv == ASSUME SkipInv, CreateOOM PROVE SkipInv'
<1>1. /\ ~live /\ pc = "idle" /\ pc' = "create" /\ arg' = Null /\ status' = "CDSA_ERR_OOM"
      /\ UNCHANGED <<live, level, size, version, nodes, current, results, min_score,
                     max_score, parts, old_level, iters, used, handed, iter_status>>
  BY DEF CreateOOM, listVars, failVars
<1>2. parts = 0 /\ old_level = 0 /\ level = 0
  BY <1>1 DEF SkipInv, ClientInv, FailInv, StructInv
<1>3. FailInv' /\ Settled' = Settled
  BY <1>1, <1>2 DEF FailInv, Settled, ListCells, NodeCells
<1>4. NoLeak'
  BY <1>1, <1>2 DEF SkipInv, NoLeak
<1> QED
  BY <1>1, <1>2, <1>3, <1>4, FailStepInv DEF Statuses

LEMMA InsertOOMInv ==
  ASSUME SkipInv, NEW h \in 1 .. MaxLevel, InsertOOM(h) PROVE SkipInv'
<1>1. /\ live /\ pc = "idle" /\ pc' = "create" /\ arg' = Null /\ status' = "CDSA_ERR_OOM"
      /\ old_level' = level /\ level' = IF h > level THEN h ELSE level
      /\ UNCHANGED <<live, size, version, nodes, current, results, min_score,
                     max_score, parts, iters, used, handed, iter_status>>
  BY DEF InsertOOM, Idle
<1>2. parts = 0 /\ level \in 1 .. MaxLevel
  BY <1>1, LiveFacts DEF SkipInv, ClientInv, FailInv
<1>3. level' \in level .. MaxLevel /\ MaxLevel \in Nat
  BY <1>1, <1>2, LevelRange
<1>4. FailInv' /\ Settled' = Settled
  BY <1>1, <1>2, <1>3 DEF FailInv, Settled, ListCells, NodeCells
<1>5. NoLeak'
  BY <1>1, <1>2 DEF SkipInv, NoLeak
<1> QED
  BY <1>1, <1>2, <1>3, <1>4, <1>5, FailStepInv DEF Statuses

(* The allocations of the call under way are those it is to undo.          *)
LEMMA FailCells ==
  ASSUME SkipInv
  PROVE  /\ (IF live THEN 4 + 3 * size ELSE 0) \in Nat
         /\ Cardinality(Opened(iters)) \in Nat /\ handed \in Nat /\ parts \in Nat
         /\ used \in Nat
<1>1. /\ live \in BOOLEAN /\ IsFiniteSet(Opened(iters)) /\ handed \in Nat
      /\ parts \in Nat
  BY DEF SkipInv, StructInv, ClientInv, FailInv, Opened
<1>2. size \in Nat /\ used \in Nat
  BY SizeIsNat, UsedIsNat DEF SkipInv
<1> QED
  BY <1>1, <1>2, FS_CardinalityType

LEMMA SumChange ==
  ASSUME NEW b \in Int, NEW c \in Int, NEW p \in Int, NEW g \in Int, NEW h \in Int
  PROVE  (b + c + p + h) + (g - p) = b + c + g + h
  OBVIOUS

LEMMA FailLeak ==
  ASSUME SkipInv, pc = "create", pc' \in {"create", "idle"},
         used' = used + ((IF pc' = "create" THEN parts' ELSE 0) - parts),
         parts' \in Int, UNCHANGED <<live, size, iters, results, handed>>
  PROVE  NoLeak'
<1> DEFINE b == IF live THEN 4 + 3 * size ELSE 0
           c == Cardinality(Opened(iters))
           g == IF pc' = "create" THEN parts' ELSE 0
<1>1. /\ b \in Nat /\ c \in Nat /\ handed \in Nat /\ parts \in Nat /\ g \in Int
      /\ used \in Nat
  BY FailCells
<1>2. used = b + c + parts + handed
  BY DEF SkipInv, NoLeak, ListCells, NodeCells, Opened
<1>3. used' = b + c + g + handed
  <2>1. used' = used + (g - parts)
    OBVIOUS
  <2> HIDE DEF b, c, g
  <2>2. (b + c + parts + handed) + (g - parts) = b + c + g + handed
    BY <1>1, SumChange
  <2> QED
    BY <1>2, <2>1, <2>2
<1>4. NoLeak' <=> used' = b + c + g + handed
  BY DEF NoLeak, ListCells, NodeCells, Opened
<1> QED
  BY <1>3, <1>4

LEMMA LevelNat == ASSUME SkipInv PROVE level \in Nat /\ (pc = "create" => old_level \in Nat)
<1>1. CASE live
  <2>1. Settled \in 1 .. MaxLevel /\ MaxLevel \in Nat
    BY <1>1, SettledFacts, LevelRange DEF SkipInv
  <2> QED
    BY <1>1, <2>1 DEF SkipInv, ClientInv, FailInv, Settled
<1>2. CASE ~live
  BY <1>2 DEF SkipInv, StructInv, ClientInv, FailInv
<1> QED
  BY <1>1, <1>2

LEMMA PartMadeInv == ASSUME SkipInv, PartMade PROVE SkipInv'
<1>1. /\ pc = "create" /\ pc' = "create" /\ parts' = parts + 1 /\ used' = used + 1
      /\ parts + 1 < (IF live THEN NodeCells ELSE ListCells)
      /\ UNCHANGED <<live, level, size, version, nodes, current, results, min_score,
                     max_score, old_level, iters, handed, status, arg, iter_status>>
  BY DEF PartMade, listVars
<1>2. FailInv' /\ Settled' = Settled
  BY <1>1 DEF SkipInv, ClientInv, FailInv, Settled, ListCells, NodeCells
<1>3. level' \in Nat /\ (~live => level' = 0)
  BY <1>1, LevelNat DEF SkipInv, StructInv
<1>4. NoLeak'
  <2>1. parts' \in Int
    BY <1>1, FailCells
  <2>2. used' = used + ((IF pc' = "create" THEN parts' ELSE 0) - parts)
    BY <1>1, FailCells
  <2> QED
    BY <1>1, <2>1, <2>2, FailLeak
<1>5. status' \in Statuses /\ arg' \in Items \cup {Null}
  BY <1>1 DEF SkipInv, ClientInv
<1> QED
  BY <1>1, <1>2, <1>3, <1>4, <1>5, FailStepInv

LEMMA PartFailsInv == ASSUME SkipInv, PartFails PROVE SkipInv'
<1>1. /\ pc = "create" /\ pc' = "idle" /\ parts' = 0 /\ used' = used - parts
      /\ level' = old_level /\ old_level' = 0
      /\ UNCHANGED <<live, size, version, nodes, current, results, min_score,
                     max_score, iters, handed, status, arg, iter_status>>
  BY DEF PartFails
<1>2. FailInv' /\ Settled' = Settled
  BY <1>1 DEF FailInv, Settled, ListCells, NodeCells
<1>3. level' \in Nat /\ (~live => level' = 0)
  BY <1>1, LevelNat DEF SkipInv, ClientInv, FailInv
<1>4. NoLeak'
  <2>1. parts' \in Int
    BY <1>1, FailCells
  <2>2. used' = used + ((IF pc' = "create" THEN parts' ELSE 0) - parts)
    BY <1>1, FailCells
  <2> QED
    BY <1>1, <2>1, <2>2, FailLeak
<1>5. status' \in Statuses /\ arg' \in Items \cup {Null}
  BY <1>1 DEF SkipInv, ClientInv
<1> QED
  BY <1>1, <1>2, <1>3, <1>4, <1>5, FailStepInv

(* The calls that change nothing but a status.                             *)
LEMMA QuietSteps ==
  ASSUME SkipInv,
         \/ (\E x \in Items : RemoveMiss(x))
         \/ (\E lo, hi \in Bounds : RangeEmpty(lo, hi) \/ RangeOOM(lo, hi))
         \/ (\E it \in Iters : IterFails(it)) \/ UNCHANGED vars
  PROVE  SkipInv'
<1>1. status \in Statuses /\ iter_status \in Statuses /\ arg \in Items \cup {Null}
  BY DEF SkipInv, ClientInv
<1>2. UNCHANGED <<live, listVars, callVars, iters, used, handed>>
  BY DEF RemoveMiss, RangeEmpty, RangeOOM, IterFails, vars
<1>3. status' \in Statuses /\ iter_status' \in Statuses
  BY <1>1 DEF RemoveMiss, RangeEmpty, RangeOOM, IterFails, vars, Statuses
<1>4. arg' \in Items \cup {Null}
  BY <1>1 DEF RemoveMiss, RangeEmpty, RangeOOM, IterFails, vars
<1> QED
  BY <1>2, <1>3, <1>4, QuietInv

LEMMA SkipStep == ASSUME SkipInv, [Next]_vars PROVE SkipInv'
<1>1. CASE ListCall
  <2>1. CASE \E x \in Items, h \in 1 .. MaxLevel, n \in Ids : Insert(x, h, n)
    BY <2>1, InsertInv
  <2>2. CASE \E x \in Items : Remove(x)
    BY <2>2, RemoveInv
  <2>3. CASE \E x \in Items : RemoveMiss(x)
    BY <2>3, QuietSteps
  <2>4. CASE Create
    BY <2>4, CreateInv
  <2>5. CASE Free
    BY <2>5, FreeInv
  <2>6. CASE CreateOOM \/ \E h \in 1 .. MaxLevel : InsertOOM(h)
    BY <2>6, CreateOOMInv, InsertOOMInv
  <2>7. CASE PartMade \/ PartFails
    BY <2>7, PartMadeInv, PartFailsInv
  <2> QED
    BY <1>1, <2>1, <2>2, <2>3, <2>4, <2>5, <2>6, <2>7 DEF ListCall
<1>2. CASE RangeCall
  <2>1. CASE \E lo, hi \in Bounds : RangeStart(lo, hi)
    BY <2>1, RangeStartInv
  <2>2. CASE \E lo, hi \in Bounds : RangeEmpty(lo, hi) \/ RangeOOM(lo, hi)
    BY <2>2, QuietSteps
  <2>3. CASE Copy
    BY <2>3, CopyStringInv, CopyFailsInv, CopyDoneInv DEF Copy
  <2>4. CASE FreeRange
    BY <2>4, FreeRangeInv
  <2> QED
    BY <1>2, <2>1, <2>2, <2>3, <2>4 DEF RangeCall
<1>3. CASE IterCall
  <2>1. PICK it \in Iters : NewIter(it) \/ IterNext(it) \/ IterFails(it) \/ FreeIter(it)
    BY <1>3 DEF IterCall
  <2>2. CASE NewIter(it)
    BY <2>2, NewIterInv
  <2>3. CASE IterNext(it)
    BY <2>3, IterNextInv
  <2>4. CASE IterFails(it)
    BY <2>4, QuietSteps
  <2>5. CASE FreeIter(it)
    BY <2>5, FreeIterInv
  <2> QED
    BY <2>1, <2>2, <2>3, <2>4, <2>5
<1>4. CASE UNCHANGED vars
  BY <1>4, QuietSteps
<1> QED
  BY <1>1, <1>2, <1>3, <1>4 DEF Next

LEMMA SkipAlways == Spec => []SkipInv
<1>1. Init => SkipInv
  BY SkipInit
<1>2. SkipInv /\ [Next]_vars => SkipInv'
  BY SkipStep
<1> QED
  BY <1>1, <1>2, PTL DEF Spec

(* Every allocation is owned by the list, a node, an iterator, a copy      *)
(* under way or a client, whichever call fails half-way: create, insert    *)
(* and the copy of a range undo what they had allocated, and               *)
(* free_skiplist finds every node on level 0.                              *)
THEOREM SkipLeakFree == Spec => []NoLeak
  BY SkipAlways, PTL DEF SkipInv

(* What an iterator that passes the version check has yielded, followed by *)
(* what it will yield, is the list, whatever was inserted, removed and     *)
(* allocated again since it was made.                                      *)
THEOREM SkipIteratorCorrect == Spec => []IteratorExact
  BY SkipAlways, PTL DEF SkipInv

-----------------------------------------------------------------------------
(* The express lanes                                                       *)

LEMMA TypesAreKept == ASSUME StructInv, ClientInv, NoLeak PROVE TypeOK
<1>1. size \in Nat /\ used \in Nat
  BY SizeIsNat, UsedIsNat
<1>2. live \in BOOLEAN /\ version \in Nat
  BY DEF StructInv
<1>3. /\ Settled \in (IF live THEN 1 .. MaxLevel ELSE {0})
      /\ level \in Settled .. MaxLevel /\ parts \in 0 .. ListCells
      /\ DOMAIN nodes \subseteq Ids \cup {Header}
      /\ (live <=> Header \in DOMAIN nodes)
  <2>1. CASE live
    <3>1. Shape(nodes) /\ Settled \in 1 .. MaxLevel
      BY <2>1, SettledFacts
    <3>2. level \in Settled .. MaxLevel /\ parts \in 0 .. ListCells
      BY <2>1, <3>1, LevelRange DEF ClientInv, FailInv, Settled
    <3> QED
      BY <2>1, <3>1, <3>2 DEF Shape
  <2>2. CASE ~live
    <3>1. nodes = NoNodes /\ level = 0 /\ Settled = 0 /\ parts \in 0 .. ListCells
      BY <2>2 DEF StructInv, ClientInv, FailInv, Settled
    <3>2. DOMAIN nodes = {}
      BY <3>1 DEF NoNodes
    <3>3. 0 \in 0 .. MaxLevel
      BY LevelRange
    <3> QED
      BY <2>2, <3>1, <3>2, <3>3
  <2> QED
    BY <2>1, <2>2
<1>4. ASSUME NEW n \in DOMAIN nodes, NEW i \in DOMAIN nodes[n].forward
      PROVE  /\ Forward(n, i) \in Pointers
             /\ Forward(n, i) # Null => i \in DOMAIN nodes[Forward(n, i)].forward
  <2>1. live
    <3> SUFFICES ASSUME ~live PROVE FALSE
      OBVIOUS
    <3>1. nodes = NoNodes
      BY DEF StructInv
    <3> QED
      BY <1>4, <3>1 DEF NoNodes
  <2>2. Shape(nodes) /\ \E pos : Laid(nodes, pos)
    BY <2>1, SettledFacts
  <2>3. PICK pos : Laid(nodes, pos)
    BY <2>2
  <2>4. n \in On(nodes, i)
    BY DEF On
  <2>5. nodes[n].forward[i] \in On(nodes, i) \cup {Null} /\ nodes[n].forward[i] # Header
    BY <2>2, <2>3, <2>4, NextFacts
  <2>6. \A m \in On(nodes, i) : m \in DOMAIN nodes /\ i \in DOMAIN nodes[m].forward
    BY DEF On
  <2> QED
    BY <2>5, <2>6 DEF Forward, Pointers
<1>5. /\ pc \in {"idle", "copy", "create"} /\ current \in Pointers /\ results \in Seq(Items)
      /\ max_score \in Int /\ iters \in [Iters -> Iterator] /\ handed \in Nat
      /\ {status, iter_status} \subseteq Statuses /\ arg \in Items \cup {Null}
  BY DEF ClientInv, Ptr, Pointers
<1> QED
  BY <1>1, <1>2, <1>3, <1>4, <1>5 DEF TypeOK

LEMMA HeightRange ==
  ASSUME StructInv, live, NEW n \in DOMAIN nodes \ {Header}
  PROVE  /\ Height(n) \in 1 .. MaxLevel /\ Height(n) <= Settled
         /\ \A i \in Nat : n \in On(nodes, i) <=> Height(n) > i
<1>1. Shape(nodes) /\ Heights(nodes, Settled) /\ Settled \in 1 .. MaxLevel
  BY SettledFacts
<1>2. /\ Height(n) \in 1 .. MaxLevel
      /\ \A i \in Nat : n \in On(nodes, i) <=> i < Height(n)
  BY <1>1, HeightIs DEF Height
<1>3. Height(n) <= Settled
  <2> SUFFICES ASSUME Settled < Height(n) PROVE FALSE
    BY <1>1, <1>2
  <2>1. Settled \in Nat /\ Settled \in Levels
    BY <1>1, <1>2, LevelRange DEF Levels
  <2>2. n \in On(nodes, Settled)
    BY <1>2, <2>1
  <2>3. On(nodes, Settled) = {Header}
    BY <1>1, <2>1 DEF Heights
  <2> QED
    BY <2>2, <2>3
<1>4. \A i \in Nat : i < Height(n) <=> Height(n) > i
  BY <1>2
<1> QED
  BY <1>2, <1>3, <1>4

LEMMA LanesNest ==
  ASSUME StructInv, live, NEW i \in Levels
  PROVE  Listed(Forward(Header, i), i)
           = Among(Level0, {n \in DOMAIN nodes : Height(n) > i})
<1> DEFINE S == DOMAIN nodes \ {Header}
           T == {n \in DOMAIN nodes : Height(n) > i}
           L == FirstList(nodes)
           M == ListOf(nodes, i)[nodes[Header].forward[i]]
           A == Among(L, T)
<1>1. Shape(nodes) /\ \E pos : Laid(nodes, pos)
  BY SettledFacts
<1>2. PICK pos : Laid(nodes, pos)
  BY <1>1
<1>3. Sorts(pos, On(nodes, i) \ {Header}, M)
  BY <1>1, <1>2, LevelSorts
<1>4. Sorts(pos, S, L) /\ \A x \in S : pos[x] \in Nat
  BY <1>1, <1>2, FirstListFacts, LaidFacts
<1>5. Sorts(pos, S \cap T, A)
  <2> HIDE DEF S, T, L
  <2> QED
    BY <1>4, AmongSorts
<1>6. S \cap T = On(nodes, i) \ {Header}
  <2>1. i \in Nat
    BY LevelRange
  <2>2. On(nodes, i) \subseteq DOMAIN nodes
    BY DEF On
  <2>3. \A n \in S : n \in On(nodes, i) <=> Height(n) > i
    BY <2>1, HeightRange
  <2> QED
    BY <2>2, <2>3
<1>7. M = A
  <2>1. \A x \in S \cap T : pos[x] \in Nat
    BY <1>4
  <2> HIDE DEF S, T, M, A
  <2> QED
    BY <1>3, <1>5, <1>6, <2>1, SortsUnique
<1>8. Listed(Forward(Header, i), i) = M /\ Level0 = L
  BY ListedIs DEF Forward
<1> QED
  BY <1>7, <1>8

LEMMA LevelsAreNested == ASSUME StructInv, ClientInv, NoLeak PROVE LevelsNested
<1>1. TypeOK
  BY TypesAreKept
<1>2. ASSUME live
      PROVE  /\ {Level0[p] : p \in DOMAIN Level0} = DOMAIN nodes \ {Header}
             /\ size = Len(Level0)
             /\ \A n \in DOMAIN nodes \ {Header} : Height(n) <= Settled
             /\ Settled = 1 \/ \E n \in DOMAIN nodes \ {Header} : Height(n) = Settled
  <2>1. /\ Shape(nodes) /\ Heights(nodes, Settled) /\ Settled \in 1 .. MaxLevel
        /\ size = Cardinality(DOMAIN nodes \ {Header})
        /\ \E pos : Laid(nodes, pos)
    BY <1>2, SettledFacts
  <2>2. PICK pos : Laid(nodes, pos)
    BY <2>1
  <2> DEFINE L == FirstList(nodes)
             S == DOMAIN nodes \ {Header}
  <2>3. /\ Sorts(pos, S, L) /\ L \in Seq(S) /\ Len(L) = Cardinality(S)
        /\ DOMAIN L = 1 .. Len(L) /\ \A p \in 1 .. Len(L) : L[p] \in S
    BY <2>1, <2>2, FirstListFacts
  <2>4. Level0 = L
    BY ListedIs
  <2>5. {L[p] : p \in DOMAIN L} = S
    <3> HIDE DEF L, S
    <3>1. \A x \in S : \E p \in 1 .. Len(L) : L[p] = x
      BY <2>3 DEF Sorts
    <3> QED
      BY <2>3, <3>1
  <2>6. \A n \in S : Height(n) <= Settled
    BY <1>2, HeightRange
  <2>7. Settled = 1 \/ \E n \in S : Height(n) = Settled
    <3> SUFFICES ASSUME Settled # 1 PROVE \E n \in S : Height(n) = Settled
      OBVIOUS
    <3>1. On(nodes, Settled - 1) # {Header}
      BY <2>1 DEF Heights
    <3>2. Settled - 1 \in Levels /\ Settled - 1 \in Nat
      BY <2>1, LevelRange DEF Levels
    <3>3. Header \in On(nodes, Settled - 1) /\ On(nodes, Settled - 1) \subseteq DOMAIN nodes
      BY <2>1, <3>2, ShapeFacts
    <3>4. PICK n \in S : n \in On(nodes, Settled - 1)
      BY <3>1, <3>3
    <3>5. Height(n) > Settled - 1 /\ Height(n) <= Settled /\ Height(n) \in 1 .. MaxLevel
      BY <1>2, <3>2, <3>4, HeightRange
    <3>6. Height(n) = Settled
      BY <2>1, <3>5
    <3> QED
      BY <3>6
  <2> QED
    BY <2>1, <2>3, <2>4, <2>5, <2>6, <2>7
<1> QED
  BY <1>1, <1>2, LanesNest DEF LevelsNested, Levels

(* The express lanes are sound: every level lists, in the order of level   *)
(* 0, exactly the nodes taller than it, level 0 lists every node, level is *)
(* the height of the tallest and no pointer dangles, whatever is inserted  *)
(* and removed in whatever order, NaN included.                            *)
THEOREM SkipLevelsCorrect == Spec => []LevelsNested
<1>1. SkipInv => LevelsNested
  BY LevelsAreNested DEF SkipInv
<1> QED
  BY <1>1, SkipAlways, PTL

-----------------------------------------------------------------------------
(* Range queries                                                           *)

(* What a subsequence keeps of a sequence of which it keeps nothing before *)
(* a place.                                                                *)
LEMMA AmongSkips ==
  ASSUME NEW X, NEW s \in Seq(X), NEW p \in 0 .. Len(s), NEW S, NEW T,
         \A q \in 1 .. p : s[q] \notin T,
         \A q \in p + 1 .. Len(s) : s[q] \in S <=> s[q] \in T
  PROVE  Among(SubSeq(s, p + 1, Len(s)), S) = Among(s, T)
<1> DEFINE n == Len(s)
           t == SubSeq(s, p + 1, n)
           k == KeptOf(s, T)
           j == KeptOf(t, S)
<1>1. n \in Nat /\ p \in 0 .. n /\ \A q \in 1 .. n : s[q] \in X
  BY LenProperties, ElementOfSeq
<1>2. Len(t) = n - p /\ \A q \in 1 .. n - p : t[q] = s[p + q]
  <2> HIDE DEF n
  <2>1. \A i \in p + 1 .. n : s[i] \in X
    BY <1>1
  <2>2. p + 1 \in Int /\ n \in Int
    BY <1>1
  <2>3. /\ Len(t) = (IF p + 1 <= n THEN n - (p + 1) + 1 ELSE 0)
        /\ \A i \in 1 .. n - (p + 1) + 1 : t[i] = s[p + 1 + i - 1]
    BY <2>1, <2>2, SubSeqProperties
  <2> HIDE DEF t
  <2>4. Len(t) = n - p
    BY <1>1, <2>3
  <2>5. ASSUME NEW i \in 1 .. n - p PROVE t[i] = s[p + i]
    <3>1. i \in 1 .. n - (p + 1) + 1 /\ p + 1 + i - 1 = p + i
      BY <1>1
    <3> QED
      BY <2>3, <3>1
  <2> QED
    BY <2>4, <2>5
<1>3. /\ k[0] = <<>>
      /\ \A q \in 1 .. n : k[q] = IF s[q] \in T THEN Append(k[q - 1], s[q]) ELSE k[q - 1]
  BY <1>1, KeptStep DEF Kept
<1>4. /\ j[0] = <<>>
      /\ \A q \in 1 .. n - p :
           j[q] = IF t[q] \in S THEN Append(j[q - 1], t[q]) ELSE j[q - 1]
  <2>1. Len(t) \in Nat
    BY <1>1, <1>2
  <2> HIDE DEF t
  <2>2. /\ j[0] = <<>>
        /\ \A q \in 1 .. Len(t) : j[q] = Kept(t, S, j, q)
    BY <2>1, KeptStep
  <2> QED
    BY <1>2, <2>2 DEF Kept
<1>5. /\ \A q \in 1 .. p : s[q] \notin T
      /\ \A q \in p + 1 .. n : s[q] \in S <=> s[q] \in T
  OBVIOUS
<1>6. Among(t, S) = j[n - p] /\ Among(s, T) = k[n]
  BY <1>2, AmongIs
<1> HIDE DEF n, t, k, j
<1> DEFINE Bad == {q \in 0 .. p : k[q] # <<>>}
<1>7. Bad = {}
  <2> SUFFICES ASSUME Bad # {} PROVE FALSE
    OBVIOUS
  <2>1. Bad \in SUBSET Nat
    BY <1>1
  <2>2. PICK q \in Bad : \A i \in Bad : q <= i
    <3> HIDE DEF Bad
    <3> QED
      BY <2>1, LeastNumber
  <2>3. q \in 0 .. p /\ k[q] # <<>> /\ q # 0
    BY <1>3
  <2>4. q \in 1 .. p /\ q \in 1 .. n /\ q - 1 \in 0 .. p /\ ~(q <= q - 1)
    BY <1>1, <2>3
  <2>5. k[q] = k[q - 1]
    BY <1>3, <1>5, <2>4
  <2>6. q - 1 \in Bad
    BY <2>3, <2>4, <2>5
  <2> QED
    BY <2>2, <2>4, <2>6
<1> DEFINE Off == {q \in 0 .. n - p : j[q] # k[p + q]}
<1>8. Off = {}
  <2> SUFFICES ASSUME Off # {} PROVE FALSE
    OBVIOUS
  <2>1. Off \in SUBSET Nat
    BY <1>1
  <2>2. PICK q \in Off : \A i \in Off : q <= i
    <3> HIDE DEF Off
    <3> QED
      BY <2>1, LeastNumber
  <2>3. k[p] = <<>>
    BY <1>1, <1>7
  <2>4. q \in 0 .. n - p /\ j[q] # k[p + q] /\ q # 0
    <3>1. p + 0 = p
      BY <1>1
    <3> QED
      BY <1>4, <2>3, <3>1
  <2>5. /\ q \in 1 .. n - p /\ p + q \in 1 .. n /\ p + q \in p + 1 .. n
        /\ q - 1 \in 0 .. n - p /\ ~(q <= q - 1) /\ p + q - 1 = p + (q - 1)
    BY <1>1, <2>4
  <2>6. j[q - 1] = k[p + (q - 1)]
    <3>1. q - 1 \notin Off
      BY <2>2, <2>5
    <3> QED
      BY <2>5, <3>1
  <2>7. t[q] = s[p + q] /\ (t[q] \in S <=> s[p + q] \in T)
    BY <1>2, <1>5, <2>5
  <2>8. j[q] = IF t[q] \in S THEN Append(j[q - 1], t[q]) ELSE j[q - 1]
    BY <1>4, <2>5
  <2>9. k[p + q] = IF s[p + q] \in T THEN Append(k[p + q - 1], s[p + q]) ELSE k[p + q - 1]
    BY <1>3, <2>5
  <2>10. j[q] = k[p + q]
    BY <2>5, <2>6, <2>7, <2>8, <2>9
  <2> QED
    BY <2>4, <2>10
<1>9. j[n - p] = k[n]
  <2>1. n - p \in 0 .. n - p /\ p + (n - p) = n
    BY <1>1
  <2> QED
    BY <1>8, <2>1
<1> QED
  BY <1>6, <1>9 DEF t, n

LEMMA RangeIsExact == ASSUME StructInv, ClientInv, CopyInv PROVE RangeExact
<1> SUFFICES ASSUME live, AllOrdered
             PROVE  /\ \A p, q \in DOMAIN Level0 :
                         p < q => InOrder(Stored[p], Stored[q])
                    /\ pc = "idle" =>
                         \A lo, hi \in Bounds : \A n \in DOMAIN nodes \ {Header} :
                           nodes[n].item \in UpTo(hi) \ Below(lo)
                             => InRange(RangeHead(lo), hi)
                    /\ pc = "copy" =>
                         Among(results \o [p \in DOMAIN Listed(current, 0) |->
                                             nodes[Listed(current, 0)[p]].item],
                               UpTo(max_score))
                           = Among(Stored, UpTo(max_score) \ Below(min_score))
  BY DEF RangeExact
<1> DEFINE L == FirstList(nodes)
           I == ItemsOf(nodes)
<1>1. Shape(nodes) /\ size = Cardinality(DOMAIN nodes \ {Header})
  BY SettledFacts
<1>2. PICK pos : Laid(nodes, pos) /\ InPlace(nodes, pos)
  BY SettledFacts
<1>3. /\ Sorts(pos, DOMAIN nodes \ {Header}, L) /\ Len(L) = size
      /\ DOMAIN L = 1 .. Len(L) /\ I \in Seq(Items) /\ Len(I) = Len(L)
      /\ \A p \in 1 .. Len(L) : I[p] = nodes[L[p]].item
  BY <1>1, <1>2, FirstListFacts
<1>4. Level0 = L /\ Stored = I
  BY ListedIs
<1>5. NoNaN(nodes)
  <2>1. \A p \in 1 .. Len(L) : I[p] \notin NaNs
    BY <1>3, <1>4 DEF AllOrdered
  <2> HIDE DEF L, I
  <2>2. \A m \in DOMAIN nodes \ {Header} : \E p \in 1 .. Len(L) : L[p] = m
    BY <1>3 DEF Sorts
  <2> QED
    BY <1>3, <2>1, <2>2 DEF NoNaN
<1>6. \A p, q \in DOMAIN Level0 : p < q => InOrder(Stored[p], Stored[q])
  BY <1>1, <1>2, <1>3, <1>4, <1>5, ItemsInOrder
<1> HIDE DEF L, I
<1>7. ASSUME pc = "copy"
      PROVE  Among(results \o Remaining(nodes, current), UpTo(max_score))
               = Among(I, UpTo(max_score) \ Below(min_score))
  <2>1. CopyOf(nodes, size, results, current, min_score)
    BY <1>5, <1>7, CopyIs
  <2>2. PICK p \in 0 .. size :
          /\ results \o Remaining(nodes, current) = SubSeq(I, p + 1, size)
          /\ \A q \in 1 .. p : I[q] \in Below(min_score)
          /\ \A q \in p + 1 .. size : I[q] \notin Below(min_score)
    BY <2>1 DEF CopyOf, I
  <2>3. Len(I) = size
    BY <1>3
  <2> DEFINE U == UpTo(max_score)
             V == UpTo(max_score) \ Below(min_score)
  <2>4. /\ \A q \in 1 .. p : I[q] \notin V
        /\ \A q \in p + 1 .. Len(I) : I[q] \in U <=> I[q] \in V
    BY <2>2, <2>3
  <2> HIDE DEF U, V
  <2>5. Among(SubSeq(I, p + 1, Len(I)), U) = Among(I, V)
    BY <1>3, <2>3, <2>4, AmongSkips
  <2> QED
    BY <2>2, <2>3, <2>5 DEF U, V
<1>9. ASSUME pc = "idle", NEW lo \in Bounds, NEW hi \in Bounds,
             NEW n \in DOMAIN nodes \ {Header}, nodes[n].item \in UpTo(hi) \ Below(lo)
      PROVE  InRange(RangeHead(lo), hi)
  <2>1. lo \in Int /\ hi \in Int
    BY SkipListAssumption
  <2> QED
    BY <1>5, <1>9, <2>1, HeadMeets
<1>8. Remaining(nodes, current)
        = [p \in DOMAIN Listed(current, 0) |-> nodes[Listed(current, 0)[p]].item]
  BY ListedIs DEF Remaining
<1> QED
  BY <1>4, <1>6, <1>7, <1>8, <1>9

(* While no score stored is NaN, level 0 is in the order of the scores and *)
(* get_range_skiplist returns what is stored in the range, all of it and   *)
(* in order: the express lanes skip nothing, so a range is answered as     *)
(* empty only when nothing stored is in it, and the second walk copies     *)
(* what the first one counted.                                             *)
THEOREM RangeCorrect == Spec => []RangeExact
<1>1. SkipInv => RangeExact
  BY RangeIsExact DEF SkipInv
<1> QED
  BY <1>1, SkipAlways, PTL

-----------------------------------------------------------------------------
(* The bag                                                                 *)

Copies(ns, x) == {n \in DOMAIN ns \ {Header} : ns[n].item = x}
BagOf(ns) == [x \in Items |-> Cardinality(Copies(ns, x))]

LEMMA BagIs == Bag = BagOf(nodes) /\ Bag' = BagOf(nodes')
  BY DEF Bag, BagOf, Copies

LEMMA CopiesFinite ==
  ASSUME NEW ns, IsFiniteSet(DOMAIN ns), NEW x
  PROVE  IsFiniteSet(Copies(ns, x)) /\ Cardinality(Copies(ns, x)) \in Nat
<1>1. Copies(ns, x) \subseteq DOMAIN ns
  BY DEF Copies
<1> QED
  BY <1>1, FS_Subset, FS_CardinalityType

LEMMA BagEmpty == ASSUME NEW ns, DOMAIN ns \subseteq {Header} PROVE BagOf(ns) = SB!Empty
<1>1. \A x : Copies(ns, x) = {}
  BY DEF Copies
<1>2. \A x \in Items : Cardinality(Copies(ns, x)) = 0
  BY <1>1, FS_EmptySet
<1> QED
  BY <1>2 DEF BagOf, SB!Empty

LEMMA InsertBag ==
  ASSUME StructInv, NEW x \in Items, NEW h \in 1 .. MaxLevel, NEW n \in Ids, Insert(x, h, n)
  PROVE  SB!Insert(x)
<1>1. live /\ arg' = x /\ status' = "CDSA_OK"
  BY DEF Insert, Idle
<1>2. InsertedAt(nodes, nodes', n, x, h, [i \in Levels |-> Update(x, i)])
  BY <1>1, InsertAt
<1>3. Shape(nodes)
  BY <1>1, SettledFacts
<1>4. /\ n \notin DOMAIN nodes /\ n # Header /\ DOMAIN nodes' = DOMAIN nodes \cup {n}
      /\ nodes'[n].item = x /\ \A m \in DOMAIN nodes : nodes'[m].item = nodes[m].item
  BY <1>2, SkipListAssumption DEF InsertedAt
<1>5. Copies(nodes', x) = Copies(nodes, x) \cup {n} /\ n \notin Copies(nodes, x)
  BY <1>4 DEF Copies
<1>6. \A y : y # x => Copies(nodes', y) = Copies(nodes, y)
  BY <1>4 DEF Copies
<1>7. \A y : IsFiniteSet(Copies(nodes, y))
  BY <1>3, CopiesFinite DEF Shape
<1>8. Cardinality(Copies(nodes', x)) = Cardinality(Copies(nodes, x)) + 1
  BY <1>5, <1>7, FS_AddElement
<1>9. BagOf(nodes') = [BagOf(nodes) EXCEPT ![x] = @ + 1]
  BY <1>6, <1>8 DEF BagOf
<1> QED
  BY <1>1, <1>9, BagIs DEF SB!Insert

LEMMA RemoveBag ==
  ASSUME StructInv, NEW x \in Items, Remove(x)
  PROVE  SB!Remove(x)
<1> DEFINE t == Successor(x)
<1>1. live /\ arg' = x /\ status' = "CDSA_OK"
  BY DEF Remove, Idle
<1>2. RemovedAt(nodes, nodes', t) /\ Same(nodes[t].item, x)
  BY <1>1, RemoveAt
<1>3. Shape(nodes)
  BY <1>1, SettledFacts
<1> HIDE DEF t
<1>4. /\ DOMAIN nodes' = DOMAIN nodes \ {t} /\ t \in DOMAIN nodes /\ t # Header
      /\ \A m \in DOMAIN nodes' : nodes'[m].item = nodes[m].item
  BY <1>2 DEF RemovedAt
<1>5. nodes[t].item = x /\ x \notin NaNs
  <2>1. nodes[t].item \in Items
    BY <1>3, <1>4 DEF Shape
  <2> QED
    BY <1>2, <2>1, SkipListAssumption DEF Same, Comparable
<1>6. Copies(nodes', x) = Copies(nodes, x) \ {t} /\ t \in Copies(nodes, x)
  BY <1>4, <1>5 DEF Copies
<1>7. \A y : y # x => Copies(nodes', y) = Copies(nodes, y)
  BY <1>4, <1>5 DEF Copies
<1>8. \A y : IsFiniteSet(Copies(nodes, y)) /\ Cardinality(Copies(nodes, y)) \in Nat
  BY <1>3, CopiesFinite DEF Shape
<1>9. Cardinality(Copies(nodes', x)) = Cardinality(Copies(nodes, x)) - 1
  BY <1>6, <1>8, FS_RemoveElement
<1>10. Cardinality(Copies(nodes, x)) > 0
  <2>1. Cardinality(Copies(nodes, x)) # 0
    BY <1>6, <1>8, FS_EmptySet
  <2> QED
    BY <1>8, <2>1
<1>11. BagOf(nodes') = [BagOf(nodes) EXCEPT ![x] = @ - 1]
  BY <1>7, <1>9 DEF BagOf
<1>12. BagOf(nodes)[x] > 0
  BY <1>10 DEF BagOf
<1> QED
  BY <1>1, <1>5, <1>11, <1>12, BagIs DEF SB!Remove

(* A search that finds no node with the item looked for has passed the     *)
(* place where one would be.                                               *)
LEMMA MissFacts ==
  ASSUME StructInv, live, pc # "create", NoNaN(nodes), NEW x \in Items \ NaNs,
         ~Found(x)
  PROVE  Copies(nodes, x) = {}
<1> SUFFICES ASSUME NEW m \in DOMAIN nodes \ {Header}, nodes[m].item = x PROVE FALSE
  BY DEF Copies
<1> DEFINE B == Before(x)
           u == [i \in Levels |-> IF i < level THEN Trail(B)[i] ELSE Header]
           k == u[0]
           t == nodes[k].forward[0]
<1>1. Shape(nodes) /\ level \in 1 .. MaxLevel
  BY LiveFacts
<1>2. PICK pos : Laid(nodes, pos) /\ InPlace(nodes, pos)
  BY LiveFacts
<1>3. /\ Cut(nodes, pos, u)
      /\ k = Header \/ (k \in DOMAIN nodes /\ nodes[k].item \in B)
      /\ t # Null => nodes[t].item \notin B
  <2>1. \A i \in Levels : u[i] = IF i < level THEN Trail(B)[i] ELSE Header
    OBVIOUS
  <2> HIDE DEF u, B
  <2> QED
    BY <1>2, <2>1, SearchCuts DEF Forward
<1>4. t = Successor(x)
  <2>1. 0 \in Levels /\ 0 < level
    BY <1>1, LevelRange
  <2>2. k = Trail(B)[0]
    BY <2>1
  <2> QED
    BY <2>2 DEF Successor, Forward
<1>5. On(nodes, 0) = DOMAIN nodes /\ k \in On(nodes, 0)
  BY <1>1, <1>3, LevelRange, ShapeFacts DEF Cut
<1>6. /\ t \in On(nodes, 0) \cup {Null} /\ t # Header
      /\ pos[k] \in Nat /\ pos[t] \in Nat
      /\ \A j \in On(nodes, 0) : pos[k] < pos[j] => pos[t] <= pos[j]
  <2> HIDE DEF u
  <2> QED
    BY <1>1, <1>2, <1>5, NextFacts
<1> HIDE DEF t, u, B
<1>7. \A j \in DOMAIN nodes \ {Header} : nodes[j].item \in Items \ NaNs
  BY <1>1 DEF Shape, NoNaN
<1>8. \A i, j \in DOMAIN nodes \ {Header} :
        pos[i] < pos[j] => InOrder(nodes[i].item, nodes[j].item)
  BY <1>2 DEF InPlace
<1>9. /\ pos[m] \in Nat /\ pos[Header] < pos[m] /\ pos[m] < pos[Null]
      /\ \A i, j \in DOMAIN nodes \cup {Null} : pos[i] = pos[j] => i = j
  BY <1>1, <1>2, LaidFacts
<1>10. \A y \in Items \ NaNs : ~(y \in B /\ (y = x \/ InOrder(x, y)))
  <2> TAKE y \in Items \ NaNs
  <2>1. /\ Score[x] \in Int /\ Score[y] \in Int /\ Text[x] \in Int /\ Text[y] \in Int
    BY SkipListAssumption
  <2>2. /\ y \in B <=> \/ Score[y] < Score[x]
                       \/ Score[y] = Score[x] /\ Text[y] < Text[x]
        /\ InOrder(x, y) <=> \/ Score[x] < Score[y]
                             \/ Score[x] = Score[y] /\ Text[x] < Text[y]
                             \/ Score[x] = Score[y] /\ Text[x] = Text[y]
    BY DEF B, Before, InOrder, Same, Comparable
  <2> QED
    BY <2>1, <2>2
<1>11. pos[k] < pos[m]
  <2>1. CASE k = Header
    BY <1>9, <2>1
  <2>2. CASE k # Header
    <3>1. nodes[k].item \in B /\ nodes[k].item \in Items \ NaNs
      BY <1>3, <1>5, <1>7, <2>2
    <3>2. k # m /\ ~(pos[m] < pos[k])
      <4>1. k # m
        BY <1>10, <3>1
      <4>2. pos[m] < pos[k] => InOrder(x, nodes[k].item)
        BY <1>5, <1>8, <2>2
      <4> QED
        BY <1>10, <3>1, <4>1, <4>2
    <3>3. pos[k] # pos[m]
      BY <1>5, <1>9, <3>2
    <3> QED
      BY <1>6, <1>9, <3>2, <3>3
  <2> QED
    BY <2>1, <2>2
<1>12. pos[t] <= pos[m] /\ t # Null
  <2>1. pos[t] <= pos[m]
    BY <1>5, <1>6, <1>11
  <2> QED
    BY <1>6, <1>9, <2>1
<1>13. /\ t \in DOMAIN nodes \ {Header} /\ nodes[t].item \notin B
       /\ nodes[t].item \in Items \ NaNs
  BY <1>3, <1>5, <1>6, <1>7, <1>12 DEF t
<1>14. nodes[t].item = x
  <2>1. CASE t = m
    BY <2>1
  <2>2. CASE t # m
    <3>1. pos[t] # pos[m]
      BY <1>9, <1>13, <2>2
    <3>2. pos[t] < pos[m]
      BY <1>6, <1>9, <1>12, <3>1
    <3>3. InOrder(nodes[t].item, x)
      BY <1>8, <1>13, <3>2
    <3> QED
      BY <1>13, <3>3, OrderFacts DEF B
  <2> QED
    BY <2>1, <2>2
<1>15. Found(x)
  <2>1. Successor(x) # Null /\ nodes[Successor(x)].item = x
    BY <1>4, <1>12, <1>14
  <2>2. Same(x, x)
    BY DEF Same, Comparable
  <2> QED
    BY <2>1, <2>2 DEF Found
<1> QED
  BY <1>15

LEMMA RemoveMissBag ==
  ASSUME StructInv, NEW x \in Items, RemoveMiss(x)
  PROVE  SB!RemoveMiss(x)
<1>1. /\ live /\ pc # "create" /\ ~Found(x) /\ nodes' = nodes /\ arg' = x
      /\ status' = "CDSA_ERR_NOT_FOUND"
  BY DEF RemoveMiss, Idle, listVars
<1>2. ASSUME SB!Sound PROVE BagOf(nodes)[x] = 0
  <2>1. \A y \in Items : y \in NaNs => BagOf(nodes)[y] = 0
    BY <1>2, BagIs, SkipListAssumption DEF SB!Sound
  <2>2. CASE x \in NaNs
    BY <2>1, <2>2
  <2>3. CASE x \notin NaNs
    <3>1. Shape(nodes)
      BY <1>1, SettledFacts
    <3>2. \A y : IsFiniteSet(Copies(nodes, y))
      BY <3>1, CopiesFinite DEF Shape
    <3>3. \A y \in NaNs : Copies(nodes, y) = {}
      <4> TAKE y \in NaNs
      <4>1. Cardinality(Copies(nodes, y)) = 0
        BY <2>1, SkipListAssumption DEF BagOf
      <4> QED
        BY <3>2, <4>1, FS_EmptySet
    <3>4. NoNaN(nodes)
      BY <3>3 DEF NoNaN, Copies
    <3>5. Copies(nodes, x) = {}
      BY <1>1, <2>3, <3>4, MissFacts
    <3> QED
      BY <3>5, FS_EmptySet DEF BagOf
  <2> QED
    BY <2>2, <2>3
<1>3. Bag' = Bag
  BY <1>1, BagIs
<1> QED
  BY <1>1, <1>2, <1>3, BagIs DEF SB!RemoveMiss

LEMMA BagStep == ASSUME SkipInv, [Next]_vars PROVE [SB!Next]_<<Bag, status, arg>>
<1> DEFINE Quiet == UNCHANGED <<nodes, status, arg>>
<1>1. ASSUME Quiet PROVE UNCHANGED <<Bag, status, arg>>
  BY <1>1, BagIs
<1>2. CASE ListCall
  <2>1. CASE \E x \in Items, h \in 1 .. MaxLevel, n \in Ids : Insert(x, h, n)
    <3>1. PICK x \in Items, h \in 1 .. MaxLevel, n \in Ids : Insert(x, h, n)
      BY <2>1
    <3>2. SB!Insert(x)
      BY <3>1, InsertBag DEF SkipInv
    <3> QED
      BY <3>2 DEF SB!Next
  <2>2. CASE \E x \in Items : Remove(x)
    <3>1. PICK x \in Items : Remove(x)
      BY <2>2
    <3>2. SB!Remove(x)
      BY <3>1, RemoveBag DEF SkipInv
    <3> QED
      BY <3>2 DEF SB!Next
  <2>3. CASE \E x \in Items : RemoveMiss(x)
    <3>1. PICK x \in Items : RemoveMiss(x)
      BY <2>3
    <3>2. SB!RemoveMiss(x)
      BY <3>1, RemoveMissBag DEF SkipInv
    <3> QED
      BY <3>2 DEF SB!Next
  <2>4. CASE Create
    <3>1. arg' = Null /\ status' = "CDSA_OK" /\ DOMAIN nodes' = {Header}
      BY <2>4 DEF Create
    <3>2. BagOf(nodes') = SB!Empty
      BY <3>1, BagEmpty
    <3>3. SB!Clear
      BY <3>1, <3>2, BagIs DEF SB!Clear
    <3> QED
      BY <3>3 DEF SB!Next
  <2>5. CASE Free
    <3>1. arg' = Null /\ status' = "CDSA_OK" /\ DOMAIN nodes' = {}
      BY <2>5 DEF Free, NoNodes
    <3>2. BagOf(nodes') = SB!Empty
      BY <3>1, BagEmpty
    <3>3. SB!Clear
      BY <3>1, <3>2, BagIs DEF SB!Clear
    <3> QED
      BY <3>3 DEF SB!Next
  <2>6. CASE CreateOOM \/ \E h \in 1 .. MaxLevel : InsertOOM(h)
    <3>1. arg' = Null /\ status' = "CDSA_ERR_OOM" /\ nodes' = nodes
      BY <2>6 DEF CreateOOM, InsertOOM, listVars
    <3>2. Bag' = Bag
      BY <3>1, BagIs
    <3>3. SB!OutOfMemory
      BY <3>1, <3>2 DEF SB!OutOfMemory
    <3> QED
      BY <3>3 DEF SB!Next
  <2>7. CASE PartMade \/ PartFails
    <3>1. Quiet
      BY <2>7 DEF PartMade, PartFails, listVars
    <3> QED
      BY <1>1, <3>1
  <2> QED
    BY <1>2, <2>1, <2>2, <2>3, <2>4, <2>5, <2>6, <2>7 DEF ListCall
<1>3. CASE RangeCall
  <2>1. Quiet
    BY <1>3 DEF RangeCall, RangeStart, RangeEmpty, RangeOOM, Copy, CopyString, CopyFails, CopyDone,
                EndRange, FreeRange, listVars, vars
  <2> QED
    BY <1>1, <2>1
<1>4. CASE IterCall
  <2>1. Quiet
    BY <1>4 DEF IterCall, NewIter, IterNext, IterFails, FreeIter, listVars
  <2> QED
    BY <1>1, <2>1
<1>5. CASE UNCHANGED vars
  <2>1. Quiet
    BY <1>5 DEF vars, listVars
  <2> QED
    BY <1>1, <2>1
<1> QED
  BY <1>2, <1>3, <1>4, <1>5 DEF Next

(* The skip list is a bag: insertion adds one copy of the item it names,   *)
(* removal takes one and finds it whenever one is there and no NaN score   *)
(* is stored, creation and teardown empty it, and no other call changes    *)
(* what is stored, a failed allocation included.                           *)
THEOREM SkipListImplementsSortedBag == Spec => ImplementsSortedBag
<1>1. Init => SB!Init
  <2> SUFFICES ASSUME Init PROVE SB!Init
    OBVIOUS
  <2>1. DOMAIN nodes = {} /\ arg = Null /\ status = "CDSA_OK"
    BY DEF Init, NoNodes
  <2>2. Bag = SB!Empty
    BY <2>1, BagEmpty, BagIs
  <2> QED
    BY <2>1, <2>2 DEF SB!Init
<1>2. SkipInv /\ [Next]_vars => [SB!Next]_<<Bag, status, arg>>
  BY BagStep
<1> QED
  BY <1>1, <1>2, SkipAlways, PTL DEF Spec, ImplementsSortedBag, SB!Spec, SB!vars
=============================================================================

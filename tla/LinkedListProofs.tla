-------------------------- MODULE LinkedListProofs ---------------------------
(***************************************************************************)
(* Proofs about LinkedList for every set of elements and nodes and every   *)
(* number of iterators: no node is lost or freed twice, a walk that goes   *)
(* on is exact, and the list is the sequence Lifo promises.                *)
(***************************************************************************)
EXTENDS LinkedList, ModArith, FiniteSetTheorems, SequenceTheorems, TLAPS

(* f lists the nodes of ns, each once, in the order in which the links run *)
(* through them from p.                                                    *)
Linked(ns, p, f, n) ==
  /\ n \in Nat /\ f \in [1 .. n -> DOMAIN ns]
  /\ \A x \in DOMAIN ns : \E i \in 1 .. n : f[i] = x
  /\ \A i, j \in 1 .. n : f[i] = f[j] => i = j
  /\ p = IF n = 0 THEN Null ELSE f[1]
  /\ \A i \in 1 .. n : ns[f[i]].next = IF i = n THEN Null ELSE f[i + 1]

(* A heap of nodes with their data; no node is NULL.                       *)
Heap(ns) == /\ DOMAIN ns \subseteq Ids
            /\ \A m \in DOMAIN ns : ns[m] \in [data : Elems, next : Ids \cup {Null}]

ChainLaw(ns, c) ==
  c = [m \in DOMAIN ns \cup {Null} |->
         IF m = Null THEN <<>> ELSE <<ns[m].data>> \o c[ns[m].next]]
ChainOf(ns) == CHOOSE c : ChainLaw(ns, c)

(* The data of the nodes from the i-th on.                                 *)
DataFrom(ns, f, n, i) == [k \in 1 .. n + 1 - i |-> ns[f[i + k - 1]].data]
At(f, n, i) == IF i = n + 1 THEN Null ELSE f[i]

-----------------------------------------------------------------------------
(* Chains                                                                  *)

LEMMA NullIsNoNode == ASSUME NEW ns, Heap(ns) PROVE Null \notin DOMAIN ns
  BY LinkedListAssumption DEF Heap

LEMMA ConsLaw ==
  ASSUME NEW S, NEW x \in S, NEW s \in Seq(S), NEW t \in Seq(S),
         Len(t) = Len(s) + 1, t[1] = x, \A k \in 1 .. Len(s) : t[k + 1] = s[k]
  PROVE  <<x>> \o s = t
<1>1. /\ <<x>> \in Seq(S) /\ Len(<<x>>) = 1 /\ <<x>>[1] = x /\ Len(s) \in Nat
      /\ <<x>> \o s \in Seq(S) /\ Len(<<x>> \o s) = 1 + Len(s)
  BY ConcatProperties, LenProperties
<1>2. ASSUME NEW i \in 1 .. Len(t) PROVE (<<x>> \o s)[i] = t[i]
  <2>1. CASE i = 1
    BY <1>1, <2>1, ConcatProperties
  <2>2. CASE i # 1
    <3>1. i - 1 \in 1 .. Len(s) /\ t[(i - 1) + 1] = s[i - 1] /\ (i - 1) + 1 = i
      BY <1>1, <2>2
    <3>2. (<<x>> \o s)[i] = s[i - 1]
      BY <1>1, <2>2, ConcatProperties
    <3> QED
      BY <3>1, <3>2
  <2> QED
    BY <2>1, <2>2
<1> QED
  BY <1>1, <1>2, SeqEqual

DataLaw(ns, f, n, i, s) ==
  /\ s \in Seq(Elems) /\ Len(s) = n + 1 - i
  /\ \A k \in 1 .. n + 1 - i : s[k] = ns[f[i + k - 1]].data

LEMMA DataFromSeq ==
  ASSUME NEW ns, Heap(ns), NEW p, NEW f, NEW n, Linked(ns, p, f, n), NEW i \in 1 .. n + 1
  PROVE  DataLaw(ns, f, n, i, DataFrom(ns, f, n, i))
<1>1. n \in Nat /\ f \in [1 .. n -> DOMAIN ns] /\ i \in Nat /\ n + 1 - i \in Nat
  BY DEF Linked
<1>2. ASSUME NEW k \in 1 .. n + 1 - i PROVE ns[f[i + k - 1]].data \in Elems
  <2>1. i + k - 1 \in 1 .. n
    BY <1>1
  <2> QED
    BY <1>1, <2>1 DEF Heap
<1> QED
  BY <1>1, <1>2 DEF DataFrom, DataLaw

(* An element at the front of what is left goes to the end of what was     *)
(* seen.                                                                   *)
LEMMA MoveFront ==
  ASSUME NEW S, NEW s \in Seq(S), NEW x \in S, NEW t \in Seq(S)
  PROVE  s \o (<<x>> \o t) = Append(s, x) \o t
<1>1. <<x>> \in Seq(S) /\ s \o <<x>> = Append(s, x)
  BY AppendIsConcat
<1>2. s \o (<<x>> \o t) = (s \o <<x>>) \o t
  BY <1>1, ConcatAssociative
<1> QED
  BY <1>1, <1>2

LEMMA DataFromStep ==
  ASSUME NEW ns, Heap(ns), NEW p, NEW f, NEW n, Linked(ns, p, f, n), NEW i \in 1 .. n
  PROVE  DataFrom(ns, f, n, i) = <<ns[f[i]].data>> \o DataFrom(ns, f, n, i + 1)
<1> DEFINE s == DataFrom(ns, f, n, i + 1)
           t == DataFrom(ns, f, n, i)
<1>1. n \in Nat /\ f \in [1 .. n -> DOMAIN ns] /\ i \in 1 .. n + 1 /\ i + 1 \in 1 .. n + 1
  BY DEF Linked
<1>2. ns[f[i]].data \in Elems
  BY <1>1 DEF Heap
<1>3. /\ s \in Seq(Elems) /\ Len(s) = n - i
      /\ \A k \in 1 .. n - i : s[k] = ns[f[i + 1 + k - 1]].data
  <2>1. n + 1 - (i + 1) = n - i
    BY <1>1
  <2>2. /\ s \in Seq(Elems) /\ Len(s) = n + 1 - (i + 1)
        /\ \A k \in 1 .. n + 1 - (i + 1) : s[k] = ns[f[i + 1 + k - 1]].data
    BY <1>1, DataFromSeq DEF DataLaw
  <2> QED
    BY <2>1, <2>2
<1>4. /\ t \in Seq(Elems) /\ Len(t) = n + 1 - i
      /\ \A k \in 1 .. n + 1 - i : t[k] = ns[f[i + k - 1]].data
  <2>1. DataLaw(ns, f, n, i, t)
    BY <1>1, DataFromSeq
  <2> QED
    BY <2>1 DEF DataLaw
<1> HIDE DEF s, t
<1>5. Len(t) = Len(s) + 1
  BY <1>1, <1>3, <1>4
<1>6. t[1] = ns[f[i]].data
  <2>1. 1 \in 1 .. n + 1 - i /\ i + 1 - 1 = i
    BY <1>1
  <2> QED
    BY <1>4, <2>1
<1>7. ASSUME NEW k \in 1 .. Len(s) PROVE t[k + 1] = s[k]
  <2>1. k \in 1 .. n - i /\ k + 1 \in 1 .. n + 1 - i /\ i + (k + 1) - 1 = i + 1 + k - 1
    BY <1>1, <1>3
  <2>2. t[k + 1] = ns[f[i + (k + 1) - 1]].data /\ s[k] = ns[f[i + 1 + k - 1]].data
    BY <1>3, <1>4, <2>1
  <2> QED
    BY <2>1, <2>2
<1>8. <<ns[f[i]].data>> \o s = t
  BY <1>2, <1>3, <1>4, <1>5, <1>6, <1>7, ConsLaw
<1> QED
  BY <1>8 DEF s, t

(* The recursion of Chain has a solution, the data along the order, so     *)
(* Chain solves it.                                                        *)
LEMMA ChainSolves ==
  ASSUME NEW ns, Heap(ns), NEW p, NEW f, NEW n, Linked(ns, p, f, n)
  PROVE  ChainLaw(ns, ChainOf(ns))
<1> DEFINE S == DOMAIN ns \cup {Null}
           place(m) == IF m = Null THEN n + 1 ELSE CHOOSE i \in 1 .. n : f[i] = m
           g == [m \in S |-> DataFrom(ns, f, n, place(m))]
<1>1. /\ n \in Nat /\ f \in [1 .. n -> DOMAIN ns] /\ Null \notin DOMAIN ns
      /\ \A x \in DOMAIN ns : \E i \in 1 .. n : f[i] = x
      /\ \A i, j \in 1 .. n : f[i] = f[j] => i = j
      /\ \A i \in 1 .. n : ns[f[i]].next = IF i = n THEN Null ELSE f[i + 1]
  BY NullIsNoNode DEF Linked
<1>2. ASSUME NEW i \in 1 .. n PROVE place(f[i]) = i
  BY <1>1
<1>3. place(Null) = n + 1
  OBVIOUS
<1> HIDE DEF place
<1>4. ASSUME NEW m \in S
      PROVE  g[m] = IF m = Null THEN <<>> ELSE <<ns[m].data>> \o g[ns[m].next]
  <2>1. CASE m = Null
    <3>1. g[m] = DataFrom(ns, f, n, n + 1)
      BY <1>3, <2>1
    <3>2. DataFrom(ns, f, n, n + 1) = <<>>
      <4>1. n + 1 \in 1 .. n + 1 /\ n + 1 - (n + 1) = 0
        BY <1>1
      <4>2. DataFrom(ns, f, n, n + 1) \in Seq(Elems) /\ Len(DataFrom(ns, f, n, n + 1)) = 0
        BY <4>1, DataFromSeq DEF DataLaw
      <4> QED
        BY <4>2, EmptySeq
    <3> QED
      BY <2>1, <3>1, <3>2
  <2>2. CASE m # Null
    <3>1. PICK i \in 1 .. n : f[i] = m
      BY <1>1, <2>2
    <3>2. g[m] = DataFrom(ns, f, n, i)
      BY <1>2, <3>1
    <3>3. ns[m].next \in S /\ place(ns[m].next) = i + 1
      <4>1. CASE i = n
        BY <1>1, <1>3, <3>1, <4>1
      <4>2. CASE i # n
        <5>1. i + 1 \in 1 .. n /\ ns[m].next = f[i + 1]
          BY <1>1, <3>1, <4>2
        <5> QED
          BY <1>1, <1>2, <5>1
      <4> QED
        BY <4>1, <4>2
    <3>4. g[ns[m].next] = DataFrom(ns, f, n, i + 1)
      BY <3>3
    <3>5. DataFrom(ns, f, n, i) = <<ns[f[i]].data>> \o DataFrom(ns, f, n, i + 1)
      BY DataFromStep, Zenon
    <3> QED
      BY <2>2, <3>1, <3>2, <3>4, <3>5
  <2> QED
    BY <2>1, <2>2
<1>5. g = [m \in S |-> g[m]]
  OBVIOUS
<1> HIDE DEF g
<1>6. ChainLaw(ns, g)
  BY <1>4, <1>5 DEF ChainLaw
<1> QED
  BY <1>6 DEF ChainOf

(* One link of the recursion, and what it comes to: the data from a place  *)
(* on.  There is no least distance from the end at which the two differ.   *)
LEMMA ChainStep ==
  ASSUME NEW ns, Heap(ns), NEW p, NEW f, NEW n, Linked(ns, p, f, n)
  PROVE  /\ ChainOf(ns)[Null] = <<>>
         /\ \A m \in DOMAIN ns :
              ChainOf(ns)[m] = <<ns[m].data>> \o ChainOf(ns)[ns[m].next]
<1>1. Null \notin DOMAIN ns
  BY NullIsNoNode
<1> DEFINE c == ChainOf(ns)
<1>2. ChainLaw(ns, c)
  BY ChainSolves, Zenon
<1> HIDE DEF c
<1>3. c = [m \in DOMAIN ns \cup {Null} |->
             IF m = Null THEN <<>> ELSE <<ns[m].data>> \o c[ns[m].next]]
  BY <1>2, Zenon DEF ChainLaw
<1>4. \A m \in DOMAIN ns \cup {Null} :
        c[m] = IF m = Null THEN <<>> ELSE <<ns[m].data>> \o c[ns[m].next]
  BY <1>3, Zenon
<1> QED
  BY <1>1, <1>4 DEF c

LEMMA ChainValue ==
  ASSUME NEW ns, Heap(ns), NEW p, NEW f, NEW n, Linked(ns, p, f, n), NEW i \in 1 .. n + 1
  PROVE  ChainOf(ns)[At(f, n, i)] = DataFrom(ns, f, n, i)
<1> DEFINE Same(j) == ChainOf(ns)[At(f, n, j)] = DataFrom(ns, f, n, j)
           D == {d \in Nat : d <= n /\ ~Same(n + 1 - d)}
<1>1. /\ n \in Nat /\ f \in [1 .. n -> DOMAIN ns]
      /\ \A j \in 1 .. n : ns[f[j]].next = IF j = n THEN Null ELSE f[j + 1]
  BY DEF Linked
<1>2. Same(n + 1)
  <2>1. n + 1 \in 1 .. n + 1 /\ n + 1 - (n + 1) = 0
    BY <1>1
  <2>2. DataFrom(ns, f, n, n + 1) = <<>>
    BY <2>1, DataFromSeq, EmptySeq DEF DataLaw
  <2>3. At(f, n, n + 1) = Null
    BY DEF At
  <2> QED
    BY <2>2, <2>3, ChainStep
<1>3. ASSUME NEW j \in 1 .. n, Same(j + 1) PROVE Same(j)
  <2>1. At(f, n, j) = f[j] /\ At(f, n, j + 1) = ns[f[j]].next /\ f[j] \in DOMAIN ns
    BY <1>1 DEF At
  <2>2. ChainOf(ns)[f[j]] = <<ns[f[j]].data>> \o ChainOf(ns)[ns[f[j]].next]
    BY <2>1, ChainStep
  <2>3. DataFrom(ns, f, n, j) = <<ns[f[j]].data>> \o DataFrom(ns, f, n, j + 1)
    BY DataFromStep
  <2>4. ChainOf(ns)[ns[f[j]].next] = DataFrom(ns, f, n, j + 1)
    BY <1>3, <2>1
  <2> QED
    BY <2>1, <2>2, <2>3, <2>4
<1> HIDE DEF Same
<1>4. D = {}
  <2> SUFFICES ASSUME D # {} PROVE FALSE
    OBVIOUS
  <2>1. PICK d \in D : \A e \in D : d <= e
    BY LeastNumber
  <2>2. d \in Nat /\ d <= n /\ ~Same(n + 1 - d) /\ d # 0
    BY <1>1, <1>2, <2>1
  <2>3. d - 1 \in Nat /\ d - 1 \notin D /\ n + 1 - (d - 1) = (n + 1 - d) + 1
    BY <1>1, <2>1, <2>2
  <2>4. n + 1 - d \in 1 .. n /\ Same((n + 1 - d) + 1)
    BY <1>1, <2>2, <2>3
  <2> QED
    BY <1>3, <2>2, <2>4
<1>5. n + 1 - i \in Nat /\ n + 1 - i <= n /\ n + 1 - (n + 1 - i) = i
  BY <1>1
<1>6. Same(i)
  BY <1>4, <1>5
<1> QED
  BY <1>6 DEF Same

LEMMA ChainIs == ASSUME NEW m PROVE Chain(m) = ChainOf(nodes)[m]
  BY DEF Chain, ChainOf, ChainLaw

LEMMA ChainIsNext == ASSUME NEW m PROVE Chain(m)' = ChainOf(nodes')[m]
  BY DEF Chain, ChainOf, ChainLaw

LEMMA ChainFacts ==
  ASSUME NEW ns, Heap(ns), NEW p, NEW f, NEW n, Linked(ns, p, f, n)
  PROVE  /\ n \in Nat /\ ChainOf(ns)[p] \in Seq(Elems) /\ Len(ChainOf(ns)[p]) = n
         /\ \A k \in 1 .. n : ChainOf(ns)[p][k] = ns[f[k]].data
<1>1. n \in Nat /\ 1 \in 1 .. n + 1 /\ At(f, n, 1) = p
  BY DEF Linked, At
<1>2. ChainOf(ns)[p] = DataFrom(ns, f, n, 1)
  BY <1>1, ChainValue
<1>3. DataLaw(ns, f, n, 1, DataFrom(ns, f, n, 1))
  BY <1>1, DataFromSeq
<1>4. n + 1 - 1 = n /\ \A k \in 1 .. n : 1 + k - 1 = k
  BY <1>1
<1> QED
  BY <1>1, <1>2, <1>3, <1>4 DEF DataLaw

LEMMA ChainType ==
  ASSUME NEW ns, Heap(ns), NEW p, NEW f, NEW n, Linked(ns, p, f, n),
         NEW m \in DOMAIN ns \cup {Null}
  PROVE  ChainOf(ns)[m] \in Seq(Elems)
<1>1. PICK i \in 1 .. n + 1 : At(f, n, i) = m
  <2>1. /\ n \in Nat /\ Null \notin DOMAIN ns
        /\ \A x \in DOMAIN ns : \E i \in 1 .. n : f[i] = x
    BY NullIsNoNode DEF Linked
  <2>2. CASE m = Null
    <3>1. n + 1 \in 1 .. n + 1 /\ At(f, n, n + 1) = m
      BY <2>1, <2>2 DEF At
    <3> QED
      BY <3>1
  <2>3. CASE m # Null
    <3>1. PICK i \in 1 .. n : f[i] = m
      BY <2>1, <2>3
    <3>2. i \in 1 .. n + 1 /\ At(f, n, i) = m
      BY <2>1, <3>1 DEF At
    <3> QED
      BY <3>2
  <2> QED
    BY <2>2, <2>3
<1>2. DataLaw(ns, f, n, i, DataFrom(ns, f, n, i))
  BY DataFromSeq
<1> QED
  BY <1>1, <1>2, ChainValue DEF DataLaw

LEMMA FirstIsNode ==
  ASSUME NEW ns, NEW p, NEW f, NEW n, Linked(ns, p, f, n)
  PROVE  p \in DOMAIN ns \cup {Null}
  BY DEF Linked

LEMMA NextIsNode ==
  ASSUME NEW ns, NEW p, NEW f, NEW n, Linked(ns, p, f, n), NEW m \in DOMAIN ns
  PROVE  ns[m].next \in DOMAIN ns \cup {Null}
<1>1. PICK i \in 1 .. n : f[i] = m
  BY DEF Linked
<1>2. /\ n \in Nat /\ f \in [1 .. n -> DOMAIN ns]
      /\ ns[m].next = IF i = n THEN Null ELSE f[i + 1]
  BY <1>1 DEF Linked
<1>3. i # n => i + 1 \in 1 .. n
  BY <1>2
<1> QED
  BY <1>2, <1>3

LEMMA NodeCount ==
  ASSUME NEW ns, NEW p, NEW f, NEW n, Linked(ns, p, f, n)
  PROVE  IsFiniteSet(DOMAIN ns) /\ Cardinality(DOMAIN ns) = n
<1>1. /\ n \in Nat /\ f \in [1 .. n -> DOMAIN ns]
      /\ \A x \in DOMAIN ns : \E i \in 1 .. n : f[i] = x
      /\ \A i, j \in 1 .. n : f[i] = f[j] => i = j
  BY DEF Linked
<1>2. IsFiniteSet(1 .. n) /\ Cardinality(1 .. n) = n
  BY <1>1, FS_Interval
<1> DEFINE B == DOMAIN ns
<1>3. f \in Surjection(1 .. n, B) /\ f \in Injection(1 .. n, B)
  BY <1>1 DEF Surjection, Injection, IsInjective
<1> HIDE DEF B
<1>4. IsFiniteSet(B) /\ Cardinality(B) = Cardinality(1 .. n)
  BY <1>2, <1>3, FS_Surjection
<1> QED
  BY <1>2, <1>4 DEF B

-----------------------------------------------------------------------------
(* A node in front, and the front node taken away.                         *)
WithFront(ns, x, e, p) ==
  [m \in DOMAIN ns \cup {x} |-> IF m = x THEN [data |-> e, next |-> p] ELSE ns[m]]

LEMMA ConsNode ==
  ASSUME NEW ns, Heap(ns), NEW p, NEW f, NEW n, Linked(ns, p, f, n),
         NEW x \in Ids, x \notin DOMAIN ns, NEW e \in Elems, NEW ms,
         ms = WithFront(ns, x, e, p)
  PROVE  /\ Heap(ms)
         /\ \E g, l : Linked(ms, x, g, l)
         /\ ChainOf(ms)[x] = <<e>> \o ChainOf(ns)[p]
<1> DEFINE g == [i \in 1 .. n + 1 |-> IF i = 1 THEN x ELSE f[i - 1]]
<1>1. /\ n \in Nat /\ f \in [1 .. n -> DOMAIN ns] /\ Null \notin DOMAIN ns
      /\ \A y \in DOMAIN ns : \E i \in 1 .. n : f[i] = y
      /\ \A i, j \in 1 .. n : f[i] = f[j] => i = j
      /\ p = IF n = 0 THEN Null ELSE f[1]
      /\ \A i \in 1 .. n : ns[f[i]].next = IF i = n THEN Null ELSE f[i + 1]
  BY NullIsNoNode DEF Linked
<1>2. /\ DOMAIN ms = DOMAIN ns \cup {x} /\ ms[x] = [data |-> e, next |-> p]
      /\ \A m \in DOMAIN ns : ms[m] = ns[m]
  BY DEF WithFront
<1>3. p \in Ids \cup {Null}
  BY <1>1 DEF Heap
<1>4. Heap(ms)
  BY <1>2, <1>3 DEF Heap
<1>5. g \in [1 .. n + 1 -> DOMAIN ms] /\ n + 1 \in Nat /\ g[1] = x
  BY <1>1, <1>2
<1>6. \A i \in 2 .. n + 1 : i - 1 \in 1 .. n /\ g[i] = f[i - 1] /\ g[i] \in DOMAIN ns
  BY <1>1
<1>7. ASSUME NEW y \in DOMAIN ms PROVE \E i \in 1 .. n + 1 : g[i] = y
  <2>1. CASE y = x
    BY <1>1, <1>5, <2>1
  <2>2. CASE y # x
    <3>1. PICK i \in 1 .. n : f[i] = y
      BY <1>1, <1>2, <2>2
    <3>2. i + 1 \in 2 .. n + 1 /\ (i + 1) - 1 = i
      BY <1>1
    <3>3. g[i + 1] = y
      BY <1>6, <3>1, <3>2
    <3> QED
      BY <3>2, <3>3
  <2> QED
    BY <2>1, <2>2
<1>8. ASSUME NEW i \in 1 .. n + 1, NEW j \in 1 .. n + 1, g[i] = g[j] PROVE i = j
  <2>1. (i = 1 \/ i \in 2 .. n + 1) /\ (j = 1 \/ j \in 2 .. n + 1)
    BY <1>1
  <2>2. CASE i \in 2 .. n + 1 /\ j \in 2 .. n + 1
    <3>1. f[i - 1] = f[j - 1] /\ i - 1 \in 1 .. n /\ j - 1 \in 1 .. n
      BY <1>6, <1>8, <2>2
    <3>2. i - 1 = j - 1
      BY <1>1, <3>1
    <3> QED
      BY <3>2
  <2>3. CASE i = 1 \/ j = 1
    BY <1>5, <1>6, <1>8, <2>1, <2>3
  <2> QED
    BY <2>1, <2>2, <2>3
<1>9. ASSUME NEW i \in 1 .. n + 1
      PROVE  ms[g[i]].next = IF i = n + 1 THEN Null ELSE g[i + 1]
  <2>1. CASE i = 1
    <3>1. ms[g[i]].next = p
      BY <1>2, <1>5, <2>1
    <3>2. CASE n = 0
      BY <1>1, <2>1, <3>1, <3>2
    <3>3. CASE n # 0
      <4>1. 2 \in 2 .. n + 1 /\ i + 1 = 2 /\ i # n + 1 /\ 2 - 1 = 1
        BY <1>1, <2>1, <3>3
      <4>2. g[2] = f[1]
        BY <1>6, <4>1
      <4> QED
        BY <1>1, <3>1, <3>3, <4>1, <4>2
    <3> QED
      BY <3>2, <3>3
  <2>2. CASE i # 1
    <3>1. i \in 2 .. n + 1
      BY <2>2
    <3>2. ms[g[i]].next = ns[f[i - 1]].next /\ i - 1 \in 1 .. n
      BY <1>2, <1>6, <3>1
    <3>3. ns[f[i - 1]].next = IF i - 1 = n THEN Null ELSE f[(i - 1) + 1]
      BY <1>1, <3>2
    <3>4. CASE i = n + 1
      BY <1>1, <3>2, <3>3, <3>4
    <3>5. CASE i # n + 1
      <4>1. i + 1 \in 2 .. n + 1 /\ (i + 1) - 1 = (i - 1) + 1 /\ i - 1 # n
        BY <1>1, <3>1, <3>5
      <4>2. g[i + 1] = f[(i + 1) - 1]
        BY <1>6, <4>1
      <4> QED
        BY <3>2, <3>3, <3>5, <4>1, <4>2
    <3> QED
      BY <3>4, <3>5
  <2> QED
    BY <2>1, <2>2
<1> HIDE DEF g
<1>10. Linked(ms, x, g, n + 1)
  <2>1. x = IF n + 1 = 0 THEN Null ELSE g[1]
    BY <1>1, <1>5
  <2> QED
    BY <1>5, <1>7, <1>8, <1>9, <2>1 DEF Linked
<1>11. ChainOf(ms)[x] = <<e>> \o ChainOf(ns)[p]
  <2> DEFINE s == ChainOf(ns)[p]
             t == ChainOf(ms)[x]
  <2>1. s \in Seq(Elems) /\ Len(s) = n /\ \A k \in 1 .. n : s[k] = ns[f[k]].data
    BY ChainFacts
  <2>2. /\ t \in Seq(Elems) /\ Len(t) = n + 1
        /\ \A k \in 1 .. n + 1 : t[k] = ms[g[k]].data
    BY <1>4, <1>10, ChainFacts
  <2> HIDE DEF s, t
  <2>3. t[1] = e
    <3>1. 1 \in 1 .. n + 1
      BY <1>1
    <3> QED
      BY <1>2, <1>5, <2>2, <3>1
  <2>4. ASSUME NEW k \in 1 .. Len(s) PROVE t[k + 1] = s[k]
    <3>1. k + 1 \in 2 .. n + 1 /\ k + 1 \in 1 .. n + 1 /\ (k + 1) - 1 = k /\ k \in 1 .. n
      BY <1>1, <2>1
    <3>2. g[k + 1] = f[k] /\ f[k] \in DOMAIN ns
      BY <1>6, <3>1
    <3>3. t[k + 1] = ms[f[k]].data /\ s[k] = ns[f[k]].data
      BY <2>1, <2>2, <3>1, <3>2
    <3> QED
      BY <1>2, <3>2, <3>3
  <2>5. <<e>> \o s = t
    BY <2>1, <2>2, <2>3, <2>4, ConsLaw
  <2> QED
    BY <2>5 DEF s, t
<1> QED
  BY <1>2, <1>4, <1>10, <1>11

LEMMA DropNode ==
  ASSUME NEW ns, Heap(ns), NEW p, NEW f, NEW n, Linked(ns, p, f, n), p # Null, NEW ms,
         ms = [m \in DOMAIN ns \ {p} |-> ns[m]]
  PROVE  /\ p \in DOMAIN ns /\ n > 0 /\ Heap(ms) /\ DOMAIN ms = DOMAIN ns \ {p}
         /\ \E g : Linked(ms, ns[p].next, g, n - 1)
         /\ ChainOf(ns)[p] # <<>>
         /\ ChainOf(ms)[ns[p].next] = Tail(ChainOf(ns)[p])
<1> DEFINE g == [i \in 1 .. n - 1 |-> f[i + 1]]
           q == ns[p].next
<1>1. /\ n \in Nat /\ f \in [1 .. n -> DOMAIN ns] /\ Null \notin DOMAIN ns
      /\ \A y \in DOMAIN ns : \E i \in 1 .. n : f[i] = y
      /\ \A i, j \in 1 .. n : f[i] = f[j] => i = j
      /\ p = IF n = 0 THEN Null ELSE f[1]
      /\ \A i \in 1 .. n : ns[f[i]].next = IF i = n THEN Null ELSE f[i + 1]
  BY NullIsNoNode DEF Linked
<1>2. n > 0 /\ 1 \in 1 .. n /\ p = f[1] /\ p \in DOMAIN ns /\ n - 1 \in Nat
  BY <1>1
<1>3. DOMAIN ms = DOMAIN ns \ {p} /\ \A m \in DOMAIN ms : ms[m] = ns[m]
  OBVIOUS
<1>4. Heap(ms)
  BY <1>3 DEF Heap
<1>5. ASSUME NEW i \in 1 .. n - 1
      PROVE  i + 1 \in 1 .. n /\ g[i] = f[i + 1] /\ g[i] \in DOMAIN ms
  <2>1. i + 1 \in 1 .. n /\ i + 1 # 1 /\ g[i] = f[i + 1]
    BY <1>1
  <2>2. f[i + 1] # f[1] /\ f[i + 1] \in DOMAIN ns
    BY <1>1, <1>2, <2>1
  <2> QED
    BY <1>2, <1>3, <2>1, <2>2
<1>6. g \in [1 .. n - 1 -> DOMAIN ms]
  BY <1>5
<1>7. ASSUME NEW y \in DOMAIN ms PROVE \E i \in 1 .. n - 1 : g[i] = y
  <2>1. PICK j \in 1 .. n : f[j] = y
    BY <1>1, <1>3
  <2>2. j # 1
    BY <1>2, <1>3, <2>1
  <2>3. j - 1 \in 1 .. n - 1 /\ (j - 1) + 1 = j
    BY <1>1, <2>2
  <2> QED
    BY <1>5, <2>1, <2>3
<1>8. ASSUME NEW i \in 1 .. n - 1, NEW j \in 1 .. n - 1, g[i] = g[j] PROVE i = j
  <2>1. f[i + 1] = f[j + 1] /\ i + 1 \in 1 .. n /\ j + 1 \in 1 .. n
    BY <1>5, <1>8
  <2>2. i + 1 = j + 1
    BY <1>1, <2>1
  <2> QED
    BY <2>2
<1>9. q = IF n - 1 = 0 THEN Null ELSE g[1]
  <2>1. q = IF 1 = n THEN Null ELSE f[1 + 1]
    BY <1>1, <1>2
  <2>2. CASE n = 1
    BY <2>1, <2>2
  <2>3. CASE n # 1
    <3>1. 1 \in 1 .. n - 1
      BY <1>1, <1>2, <2>3
    <3> QED
      BY <1>5, <2>1, <2>3, <3>1
  <2> QED
    BY <2>2, <2>3
<1>10. ASSUME NEW i \in 1 .. n - 1
       PROVE  ms[g[i]].next = IF i = n - 1 THEN Null ELSE g[i + 1]
  <2>1. i + 1 \in 1 .. n /\ ms[g[i]] = ns[f[i + 1]]
    BY <1>3, <1>5
  <2>2. ns[f[i + 1]].next = IF i + 1 = n THEN Null ELSE f[(i + 1) + 1]
    BY <1>1, <2>1
  <2>3. CASE i = n - 1
    BY <1>1, <2>1, <2>2, <2>3
  <2>4. CASE i # n - 1
    <3>1. i + 1 \in 1 .. n - 1 /\ i + 1 # n
      BY <1>1, <2>4
    <3>2. g[i + 1] = f[(i + 1) + 1]
      BY <1>5, <3>1
    <3> QED
      BY <2>1, <2>2, <2>4, <3>1, <3>2
  <2> QED
    BY <2>3, <2>4
<1> HIDE DEF g
<1>11. Linked(ms, q, g, n - 1)
  BY <1>2, <1>6, <1>7, <1>8, <1>9, <1>10 DEF Linked
<1>12. ChainOf(ns)[p] # <<>> /\ ChainOf(ms)[q] = Tail(ChainOf(ns)[p])
  <2> DEFINE s == ChainOf(ns)[p]
             t == ChainOf(ms)[q]
  <2>1. s \in Seq(Elems) /\ Len(s) = n /\ \A k \in 1 .. n : s[k] = ns[f[k]].data
    BY ChainFacts
  <2>2. /\ t \in Seq(Elems) /\ Len(t) = n - 1
        /\ \A k \in 1 .. n - 1 : t[k] = ms[g[k]].data
    <3> DEFINE l == n - 1
    <3>1. Linked(ms, q, g, l)
      BY <1>11
    <3> HIDE DEF l, q
    <3>2. /\ ChainOf(ms)[q] \in Seq(Elems) /\ Len(ChainOf(ms)[q]) = l
          /\ \A k \in 1 .. l : ChainOf(ms)[q][k] = ms[g[k]].data
      BY <1>4, <3>1, ChainFacts
    <3> QED
      BY <3>2 DEF l
  <2> HIDE DEF s, t
  <2>3. s # <<>> /\ Tail(s) \in Seq(Elems) /\ Len(Tail(s)) = n - 1
        /\ \A k \in 1 .. n - 1 : Tail(s)[k] = s[k + 1]
    BY <1>2, <2>1, EmptySeq, HeadTailProperties
  <2>4. ASSUME NEW k \in 1 .. n - 1 PROVE t[k] = Tail(s)[k]
    <3>1. k + 1 \in 1 .. n /\ g[k] = f[k + 1] /\ g[k] \in DOMAIN ms
      BY <1>5
    <3> QED
      BY <1>3, <2>1, <2>2, <2>3, <3>1
  <2>5. t = Tail(s)
    BY <2>2, <2>3, <2>4, SeqEqual
  <2> QED
    BY <2>3, <2>5 DEF s, t
<1> QED
  BY <1>2, <1>3, <1>4, <1>11, <1>12

-----------------------------------------------------------------------------
(* The invariant.  The nodes are one chain, from head between the calls    *)
(* and from current while they are freed; a teardown or clear holds no     *)
(* node but those it has still to free.                                    *)
Settled == pc \in {"idle", "push"}
First == IF Settled THEN head ELSE current

NodesInv ==
  /\ TypeOK
  /\ \E n, f : Linked(nodes, First, f, n)
  /\ Settled => size = Cardinality(DOMAIN nodes) /\ current = Null
  /\ ~live => pc = "idle" /\ head = Null /\ size = 0
  /\ pc = "push" => value \in Elems

OpenIters == {it \in Iters : iters[it].open}
Owned == (IF live THEN 1 ELSE 0) + (IF pc = "push" THEN 1 ELSE 0)
         + 2 * Cardinality(DOMAIN nodes)
CountInv == IsFiniteSet(OpenIters) /\ used = Owned + Cardinality(OpenIters)

LInv == NodesInv /\ CountInv

LEMMA LFacts ==
  ASSUME LInv
  PROVE  /\ Heap(nodes) /\ TypeOK
         /\ \E n, f : Linked(nodes, First, f, n)
         /\ IsFiniteSet(DOMAIN nodes) /\ Cardinality(DOMAIN nodes) \in Nat
         /\ Settled => size = Cardinality(DOMAIN nodes) /\ current = Null
         /\ ~live => pc = "idle" /\ head = Null /\ size = 0
         /\ pc = "push" => value \in Elems
         /\ IsFiniteSet(OpenIters) /\ Cardinality(OpenIters) \in Nat
         /\ used = Owned + Cardinality(OpenIters)
<1>1. /\ TypeOK /\ \E n, f : Linked(nodes, First, f, n)
      /\ Settled => size = Cardinality(DOMAIN nodes) /\ current = Null
      /\ ~live => pc = "idle" /\ head = Null /\ size = 0
      /\ pc = "push" => value \in Elems
      /\ IsFiniteSet(OpenIters) /\ used = Owned + Cardinality(OpenIters)
  BY DEF LInv, NodesInv, CountInv
<1>2. Heap(nodes)
  BY <1>1 DEF TypeOK, Heap
<1>3. IsFiniteSet(DOMAIN nodes)
  BY <1>1, NodeCount
<1>4. Cardinality(DOMAIN nodes) \in Nat /\ Cardinality(OpenIters) \in Nat
  BY <1>1, <1>3, FS_CardinalityType
<1> QED
  BY <1>1, <1>2, <1>3, <1>4

LEMMA LInit == Init => LInv
<1> SUFFICES ASSUME Init PROVE LInv
  OBVIOUS
<1>1. /\ live = FALSE /\ head = Null /\ size = 0 /\ version = 0 /\ nodes = NoNodes
      /\ pc = "idle" /\ current = Null /\ value = Null
      /\ iters = [it \in Iters |-> ClosedIter]
      /\ used = 0 /\ status = "CDSA_OK" /\ iter_status = "CDSA_OK"
  BY DEF Init
<1>2. DOMAIN nodes = {}
  BY <1>1 DEF NoNodes
<1>3. ClosedIter \in Iterator
  <2>1. <<>> \in Seq(Elems)
    BY EmptySeq
  <2> QED
    BY <2>1 DEF ClosedIter, Iterator
<1>4. TypeOK
  BY <1>1, <1>2, <1>3 DEF TypeOK, Statuses
<1>5. Linked(nodes, First, [i \in 1 .. 0 |-> Null], 0)
  BY <1>1, <1>2 DEF Linked, First, Settled
<1>6. OpenIters = {}
  BY <1>1 DEF OpenIters, ClosedIter
<1>7. Cardinality({}) = 0 /\ IsFiniteSet({})
  BY FS_EmptySet
<1> QED
  BY <1>1, <1>2, <1>4, <1>5, <1>6, <1>7
  DEF LInv, NodesInv, CountInv, Owned, Settled

(* Calls that leave the nodes alone: what they allocate or give back is    *)
(* the struct of the list, that of a node to come, or an iterator.         *)
LEMMA SameNodes ==
  ASSUME LInv, UNCHANGED <<head, size, version, nodes, current>>,
         Settled, Settled', live' \in BOOLEAN, ~live' => ~live /\ pc' = "idle",
         pc' = "push" => value' \in Elems, value' \in Elems \cup {Null},
         iters' \in [Iters -> Iterator], {status', iter_status'} \subseteq Statuses,
         IsFiniteSet(OpenIters'), used' = Owned' + Cardinality(OpenIters')
  PROVE  LInv'
<1>1. /\ TypeOK /\ \E n, f : Linked(nodes, First, f, n)
      /\ size = Cardinality(DOMAIN nodes) /\ current = Null
      /\ ~live => head = Null /\ size = 0
      /\ Cardinality(DOMAIN nodes) \in Nat
  BY LFacts
<1>2. nodes' = nodes /\ head' = head /\ size' = size /\ current' = current
      /\ version' = version
  OBVIOUS
<1>3. First' = First
  BY <1>2 DEF First
<1>4. \E n, f : Linked(nodes', First', f, n)
  BY <1>1, <1>2, <1>3
<1>5. used' \in Nat
  <2>1. Cardinality(OpenIters') \in Nat
    BY FS_CardinalityType
  <2>2. Owned' \in Nat
    BY <1>1, <1>2 DEF Owned
  <2> QED
    BY <2>1, <2>2
<1>6. TypeOK'
  BY <1>1, <1>2, <1>5 DEF TypeOK, Settled
<1> QED
  BY <1>1, <1>2, <1>4, <1>6 DEF LInv, NodesInv, CountInv

LEMMA QuietInv ==
  ASSUME LInv, UNCHANGED <<listVars, localVars, iters, used>>,
         {status', iter_status'} \subseteq Statuses
  PROVE  LInv'
<1>1. UNCHANGED <<live, head, size, version, nodes, pc, current, value, iters, used>>
  BY DEF listVars, localVars
<1>2. TypeOK'
  BY <1>1, LFacts DEF TypeOK
<1>3. First' = First /\ Settled' = Settled /\ OpenIters' = OpenIters /\ Owned' = Owned
  BY <1>1 DEF First, Settled, OpenIters, Owned
<1> QED
  BY <1>1, <1>2, <1>3, LFacts DEF LInv, NodesInv, CountInv

LEMMA CreateInv == LInv /\ Create => LInv'
<1> SUFFICES ASSUME LInv, Create PROVE LInv'
  OBVIOUS
<1>1. /\ ~live /\ live' = TRUE /\ used' = used + 1 /\ status' = "CDSA_OK"
      /\ UNCHANGED <<head, size, version, nodes, pc, current, value, iters, iter_status>>
  BY DEF Create, localVars
<1>2. pc = "idle" /\ Settled /\ Settled'
  BY <1>1, LFacts DEF Settled
<1>3. OpenIters' = OpenIters /\ Owned' = Owned + 1
  BY <1>1, <1>2, LFacts DEF OpenIters, Owned
<1>4. TypeOK /\ {status', iter_status'} \subseteq Statuses
  BY <1>1, LFacts DEF TypeOK, Statuses
<1>5. Owned \in Nat
  BY LFacts DEF Owned
<1>6. used' = Owned' + Cardinality(OpenIters')
  BY <1>1, <1>3, <1>5, LFacts
<1> QED
  BY <1>1, <1>2, <1>3, <1>4, <1>6, LFacts, SameNodes DEF TypeOK

LEMMA PushNodeInv == ASSUME LInv, NEW e \in Elems, PushNode(e) PROVE LInv'
<1>1. /\ live /\ pc = "idle" /\ pc' = "push" /\ value' = e /\ used' = used + 1
      /\ UNCHANGED <<live, head, size, version, nodes, current, iters, status, iter_status>>
  BY DEF PushNode, Idle, listVars
<1>2. Settled /\ Settled'
  BY <1>1 DEF Settled
<1>3. OpenIters' = OpenIters /\ Owned' = Owned + 1
  BY <1>1, <1>2, LFacts DEF OpenIters, Owned
<1>4. TypeOK
  BY LFacts
<1>5. Owned \in Nat
  BY LFacts DEF Owned
<1>6. used' = Owned' + Cardinality(OpenIters')
  BY <1>1, <1>3, <1>5, LFacts
<1> QED
  BY <1>1, <1>2, <1>3, <1>4, <1>6, LFacts, SameNodes DEF TypeOK

LEMMA PushDataOOMInv == LInv /\ PushDataOOM => LInv'
<1> SUFFICES ASSUME LInv, PushDataOOM PROVE LInv'
  OBVIOUS
<1>1. /\ pc = "push" /\ pc' = "idle" /\ value' = Null /\ used' = used - 1
      /\ status' = "CDSA_ERR_OOM"
      /\ UNCHANGED <<live, head, size, version, nodes, current, iters, iter_status>>
  BY DEF PushDataOOM, EndPush
<1>2. Settled /\ Settled' /\ live
  BY <1>1, LFacts DEF Settled
<1>3. OpenIters' = OpenIters /\ Owned' = Owned - 1
  BY <1>1, <1>2, LFacts DEF OpenIters, Owned
<1>4. TypeOK /\ {status', iter_status'} \subseteq Statuses
  BY <1>1, LFacts DEF TypeOK, Statuses
<1>5. Owned \in Nat
  BY LFacts DEF Owned
<1>6. used' = Owned' + Cardinality(OpenIters')
  BY <1>1, <1>3, <1>5, LFacts
<1> QED
  BY <1>1, <1>2, <1>3, <1>4, <1>6, LFacts, SameNodes DEF TypeOK

(* A node whose data is allocated too becomes the first.                   *)
LEMMA PushDataInv == ASSUME LInv, NEW x \in Ids, PushData(x) PROVE LInv'
<1>1. /\ pc = "push" /\ pc' = "idle" /\ value' = Null /\ x \notin DOMAIN nodes
      /\ nodes' = [m \in DOMAIN nodes \cup {x} |->
                     IF m = x THEN [data |-> value, next |-> head] ELSE nodes[m]]
      /\ head' = x /\ size' = size + 1 /\ version' = version + 1
      /\ used' = used + 1 /\ status' = "CDSA_OK"
      /\ UNCHANGED <<live, current, iters, iter_status>>
  BY DEF PushData, EndPush
<1>2. /\ Heap(nodes) /\ TypeOK /\ live /\ value \in Elems
      /\ size = Cardinality(DOMAIN nodes) /\ current = Null
      /\ size \in Nat /\ First = head
  BY <1>1, LFacts DEF Settled, First
<1>3. PICK n, f : Linked(nodes, head, f, n)
  BY <1>2, LFacts
<1>4. n = size /\ n \in Nat
  BY <1>2, <1>3, NodeCount
<1>5. /\ Heap(nodes') /\ DOMAIN nodes' = DOMAIN nodes \cup {x}
      /\ \E g, l : Linked(nodes', x, g, l)
  <2> DEFINE ms == nodes'
  <2>1. ms = WithFront(nodes, x, value, head)
    BY <1>1 DEF WithFront
  <2> HIDE DEF ms
  <2>2. x \notin DOMAIN nodes /\ Heap(nodes) /\ value \in Elems
    BY <1>1, <1>2
  <2>3. /\ Heap(ms) /\ DOMAIN ms = DOMAIN nodes \cup {x}
        /\ \E g, l : Linked(ms, x, g, l)
    <3>1. DOMAIN ms = DOMAIN nodes \cup {x}
      BY <2>1 DEF WithFront
    <3>2. Heap(ms) /\ \E g, l : Linked(ms, x, g, l)
      <4> DEFINE ns == nodes
                 p == head
                 e == value
      <4>1. /\ Heap(ns) /\ Linked(ns, p, f, n) /\ e \in Elems
            /\ x \notin DOMAIN ns /\ ms = WithFront(ns, x, e, p)
        BY <1>3, <2>1, <2>2
      <4> HIDE DEF ns, p, e
      <4> QED
        BY <4>1, ConsNode
    <3> QED
      BY <3>1, <3>2
  <2> QED
    BY <2>3 DEF ms
<1>6. First' = x /\ Settled'
  BY <1>1 DEF First, Settled
<1>7. Cardinality(DOMAIN nodes') = size + 1
  BY <1>1, <1>2, <1>5, LFacts, FS_AddElement
<1>8. OpenIters' = OpenIters
  BY <1>1 DEF OpenIters
<1>9. Owned = 2 + 2 * size /\ Owned' = 1 + 2 * (size + 1)
  BY <1>1, <1>2, <1>7 DEF Owned
<1>10. used' = Owned' + Cardinality(OpenIters') /\ used' \in Nat
  BY <1>1, <1>2, <1>8, <1>9, LFacts
<1>11. TypeOK'
  <2>1. size' \in Nat /\ version' \in Nat
    BY <1>1, <1>2 DEF TypeOK
  <2>2. \A m \in DOMAIN nodes' : nodes'[m] \in [data : Elems, next : Ids \cup {Null}]
    BY <1>5 DEF Heap
  <2>3. DOMAIN nodes' \subseteq Ids /\ head' \in DOMAIN nodes' \cup {Null}
    BY <1>1, <1>5 DEF Heap
  <2>4. {status', iter_status'} \subseteq Statuses
    BY <1>1, <1>2 DEF TypeOK, Statuses
  <2>5. live' \in BOOLEAN /\ iters' \in [Iters -> Iterator]
    BY <1>1, <1>2 DEF TypeOK
  <2> QED
    BY <1>1, <1>2, <1>10, <2>1, <2>2, <2>3, <2>4, <2>5 DEF TypeOK
<1>12. \E m, g : Linked(nodes', First', g, m)
  BY <1>5, <1>6
<1>13. IsFiniteSet(OpenIters')
  BY <1>8, LFacts
<1> QED
  BY <1>1, <1>2, <1>7, <1>10, <1>11, <1>12, <1>13
  DEF LInv, NodesInv, CountInv, Settled

(* The first of the nodes that are left is freed, by a pop or by the loops *)
(* of clear and free.                                                      *)
LEMMA DropInv ==
  ASSUME LInv, live, live' = live, pc' = pc, pc # "push", First # Null, value' = value,
         nodes' = Without(First), First' = nodes[First].next,
         used' = used - 2, iters' = iters, {status', iter_status'} \subseteq Statuses,
         Settled => /\ head' = First' /\ current' = current
                    /\ size' = size - 1 /\ version' = version + 1,
         ~Settled => /\ current' = First'
                     /\ UNCHANGED <<head, size, version>>
  PROVE  LInv'
<1>1. /\ Heap(nodes) /\ TypeOK
      /\ Settled => size = Cardinality(DOMAIN nodes) /\ current = Null
      /\ size \in Nat /\ version \in Nat
  BY LFacts DEF TypeOK
<1>2. PICK n, f : Linked(nodes, First, f, n)
  BY LFacts
<1>3. n = Cardinality(DOMAIN nodes) /\ n \in Nat
  BY <1>2, LFacts, NodeCount
<1>4. nodes' = [m \in DOMAIN nodes \ {First} |-> nodes[m]]
  BY DEF Without
<1>5. /\ First \in DOMAIN nodes /\ n > 0 /\ Heap(nodes')
      /\ DOMAIN nodes' = DOMAIN nodes \ {First}
      /\ \E g : Linked(nodes', nodes[First].next, g, n - 1)
  <2> DEFINE ns == nodes
             ms == nodes'
             p == First
  <2>1. Heap(ns) /\ Linked(ns, p, f, n) /\ p # Null
    BY <1>1, <1>2
  <2>2. ms = [m \in DOMAIN ns \ {p} |-> ns[m]]
    BY <1>4
  <2> HIDE DEF ns, ms, p
  <2>3. /\ p \in DOMAIN ns /\ n > 0 /\ Heap(ms) /\ DOMAIN ms = DOMAIN ns \ {p}
        /\ \E g : Linked(ms, ns[p].next, g, n - 1)
    BY <2>1, <2>2, DropNode
  <2> QED
    BY <2>3 DEF ns, ms, p
<1>6. PICK g : Linked(nodes', First', g, n - 1)
  BY <1>5
<1>7. Cardinality(DOMAIN nodes') = n - 1
  <2> DEFINE l == n - 1
  <2>1. Linked(nodes', First', g, l)
    BY <1>6
  <2> HIDE DEF l
  <2>2. Cardinality(DOMAIN nodes') = l
    BY <2>1, NodeCount
  <2> QED
    BY <2>2 DEF l
<1>8. OpenIters' = OpenIters
  BY DEF OpenIters
<1>9. Owned = 1 + 2 * n /\ Owned' = 1 + 2 * (n - 1)
  BY <1>3, <1>7 DEF Owned
<1>10. used' = Owned' + Cardinality(OpenIters') /\ used' \in Nat
  BY <1>3, <1>5, <1>8, <1>9, LFacts
<1>11. First' \in DOMAIN nodes' \cup {Null}
  BY <1>6, FirstIsNode
<1>12. Settled' = Settled
  BY DEF Settled
<1>13. size' \in Nat /\ version' \in Nat
  BY <1>1, <1>3, <1>5
<1>14. TypeOK'
  <2>1. \A m \in DOMAIN nodes' : nodes'[m] \in [data : Elems, next : Ids \cup {Null}]
    BY <1>5 DEF Heap
  <2>2. DOMAIN nodes' \subseteq Ids
    BY <1>5 DEF Heap
  <2>3. head' \in Ids \cup {Null} /\ (Settled' => head' \in DOMAIN nodes' \cup {Null})
    BY <1>1, <1>11, <1>12, <2>2 DEF TypeOK
  <2>4. current' \in DOMAIN nodes' \cup {Null}
    BY <1>1, <1>11, <1>12
  <2>5. live' \in BOOLEAN /\ iters' \in [Iters -> Iterator] /\ value' \in Elems \cup {Null}
        /\ pc' \in {"idle", "push", "clear", "free"}
    BY <1>1 DEF TypeOK
  <2> QED
    BY <1>10, <1>13, <2>1, <2>2, <2>3, <2>4, <2>5 DEF TypeOK, Settled
<1>15. Settled' => size' = Cardinality(DOMAIN nodes') /\ current' = Null
  BY <1>1, <1>3, <1>7, <1>12
<1>16. IsFiniteSet(OpenIters')
  BY <1>8, LFacts
<1>17. \E m, h : Linked(nodes', First', h, m)
  BY <1>6
<1> QED
  BY <1>10, <1>14, <1>15, <1>16, <1>17 DEF LInv, NodesInv, CountInv

LEMMA PopFrontInv == LInv /\ PopFront => LInv'
<1> SUFFICES ASSUME LInv, PopFront PROVE LInv'
  OBVIOUS
<1>1. /\ live /\ pc = "idle" /\ head # Null
      /\ head' = nodes[head].next /\ nodes' = Without(head)
      /\ size' = size - 1 /\ version' = version + 1
      /\ used' = used - 2 /\ status' = "CDSA_OK"
      /\ UNCHANGED <<live, pc, current, value, iters, iter_status>>
  BY DEF PopFront, Idle, localVars
<1>2. Settled /\ First = head /\ First' = head'
  BY <1>1 DEF Settled, First
<1>3. {status', iter_status'} \subseteq Statuses
  BY <1>1, LFacts DEF TypeOK, Statuses
<1> QED
  BY <1>1, <1>2, <1>3, DropInv

LEMMA FreeNodeInv == LInv /\ FreeNode => LInv'
<1> SUFFICES ASSUME LInv, FreeNode PROVE LInv'
  OBVIOUS
<1>1. /\ pc \in {"clear", "free"} /\ current # Null
      /\ current' = nodes[current].next /\ nodes' = Without(current)
      /\ used' = used - 2
      /\ UNCHANGED <<live, head, size, version, pc, value, iters, status, iter_status>>
  BY DEF FreeNode
<1>2. ~Settled /\ First = current /\ First' = current' /\ live
  BY <1>1, LFacts DEF Settled, First
<1>3. {status', iter_status'} \subseteq Statuses
  BY <1>1, LFacts DEF TypeOK
<1> QED
  BY <1>1, <1>2, <1>3, DropInv

LEMMA StartFreeingInv ==
  ASSUME LInv, NEW call \in {"clear", "free"}, StartFreeing(call)
  PROVE  LInv'
<1>1. /\ live /\ pc = "idle" /\ pc' = call /\ current' = head
      /\ UNCHANGED <<live, head, size, version, nodes, value, iters, used, status,
                     iter_status>>
  BY DEF StartFreeing, Idle, listVars
<1>2. Settled /\ ~Settled' /\ First' = First
  BY <1>1 DEF Settled, First
<1>3. OpenIters' = OpenIters /\ Owned' = Owned
  BY <1>1 DEF OpenIters, Owned
<1>4. TypeOK'
  BY <1>1, LFacts DEF TypeOK
<1> QED
  BY <1>1, <1>2, <1>3, <1>4, LFacts DEF LInv, NodesInv, CountInv

(* The loop has met NULL: no node is left.                                 *)
LEMMA NoneLeft ==
  ASSUME LInv, First = Null
  PROVE  DOMAIN nodes = {} /\ Cardinality(DOMAIN nodes) = 0
<1>1. PICK n, f : Linked(nodes, First, f, n)
  BY LFacts
<1>2. Null \notin DOMAIN nodes
  BY LFacts, NullIsNoNode
<1>3. n = 0
  BY <1>1, <1>2 DEF Linked
<1>4. DOMAIN nodes = {}
  BY <1>1, <1>3 DEF Linked
<1> QED
  BY <1>4, FS_EmptySet

LEMMA DoneInv ==
  ASSUME LInv, ~Settled, current = Null, pc' = "idle", head' = Null, size' = 0,
         version' \in Nat, UNCHANGED <<nodes, current, value, iters, status, iter_status>>,
         \/ live' = live /\ used' = used
         \/ live' = FALSE /\ used' = used - 1
  PROVE  LInv'
<1>1. live /\ pc # "idle" /\ pc # "push" /\ First = Null /\ TypeOK
  BY LFacts DEF Settled, First
<1>2. DOMAIN nodes = {} /\ Cardinality(DOMAIN nodes) = 0
  BY <1>1, NoneLeft
<1>3. Settled' /\ First' = Null /\ OpenIters' = OpenIters
  BY DEF Settled, First, OpenIters
<1>4. Owned = 1 /\ Owned' = IF live' THEN 1 ELSE 0
  BY <1>1, <1>2 DEF Owned
<1>5. used' = Owned' + Cardinality(OpenIters') /\ used' \in Nat
  <2>1. used = 1 + Cardinality(OpenIters) /\ Cardinality(OpenIters) \in Nat
    BY <1>4, LFacts
  <2>2. Cardinality(OpenIters') = Cardinality(OpenIters)
    BY <1>3
  <2>3. used' = (IF live' THEN 1 ELSE 0) + Cardinality(OpenIters)
    <3>1. CASE live' = live /\ used' = used
      BY <1>1, <2>1, <3>1
    <3>2. CASE live' = FALSE /\ used' = used - 1
      BY <2>1, <3>2
    <3> QED
      BY <3>1, <3>2
  <2>4. (IF live' THEN 1 ELSE 0) \in Nat
    OBVIOUS
  <2> QED
    BY <1>4, <2>1, <2>2, <2>3, <2>4
<1>6. TypeOK'
  BY <1>1, <1>5 DEF TypeOK
<1>7. \E n, f : Linked(nodes', First', f, n)
  BY <1>1, <1>3, LFacts
<1> QED
  BY <1>2, <1>3, <1>5, <1>6, <1>7, LFacts DEF LInv, NodesInv, CountInv

-----------------------------------------------------------------------------
(* The walks.  No snapshot is ahead of the version, a teardown has no      *)
(* iterator to meet, and while the list is not being freed an iterator     *)
(* that passes the version check stands in the chain where it left off.    *)
Follows(it) ==
  /\ iters[it].current_node \in DOMAIN nodes \cup {Null}
  /\ ChainOf(nodes)[head] = iters[it].seen \o ChainOf(nodes)[iters[it].current_node]

WalkInv(it) ==
  iters[it].open => /\ live /\ pc # "free"
                    /\ iters[it].snapshot_version <= version
                    /\ Settled /\ Safe(it) => Follows(it)
AllWalks == \A it \in Iters : WalkInv(it)

ListInv == LInv /\ AllWalks

LEMMA SameWalks ==
  ASSUME AllWalks, UNCHANGED <<head, version, nodes, iters>>, live => live',
         Settled' => Settled,
         pc' = "free" => pc = "free" \/ \A it \in Iters : ~iters[it].open
  PROVE  AllWalks'
<1> SUFFICES ASSUME NEW it \in Iters PROVE WalkInv(it)'
  BY DEF AllWalks
<1>1. WalkInv(it)
  BY DEF AllWalks
<1>2. Follows(it)' = Follows(it) /\ Safe(it)' = Safe(it)
  BY DEF Follows, Safe
<1> QED
  BY <1>1, <1>2 DEF WalkInv

LEMMA StaleWalks ==
  ASSUME TypeOK, AllWalks, version' = version + 1, live' = live, iters' = iters,
         pc' # "free"
  PROVE  AllWalks'
<1> SUFFICES ASSUME NEW it \in Iters PROVE WalkInv(it)'
  BY DEF AllWalks
<1>1. WalkInv(it)
  BY DEF AllWalks
<1>2. version \in Nat /\ iters[it].snapshot_version \in Nat
  BY DEF TypeOK, Iterator
<1> QED
  BY <1>1, <1>2 DEF WalkInv, Safe

LEMMA FreeingWalks ==
  ASSUME AllWalks, FreeNode PROVE AllWalks'
<1>1. /\ pc' = pc /\ live' = live /\ version' = version /\ iters' = iters /\ ~Settled'
  BY DEF FreeNode, Settled
<1> QED
  BY <1>1 DEF AllWalks, WalkInv

LEMMA FreeDoneWalks ==
  ASSUME AllWalks, FreeDone PROVE AllWalks'
<1>1. pc = "free" /\ iters' = iters
  BY DEF FreeDone
<1> QED
  BY <1>1 DEF AllWalks, WalkInv

(* The calls on an iterator.                                               *)
LEMMA OneIter ==
  ASSUME ListInv, NEW it \in Iters, pc = "idle", UNCHANGED <<listVars, localVars, status>>,
         iter_status' \in Statuses, NEW i \in Iterator, iters' = [iters EXCEPT ![it] = i],
         i.open => live /\ i.snapshot_version <= version,
         i.open /\ i.snapshot_version = version =>
           /\ i.current_node \in DOMAIN nodes \cup {Null}
           /\ ChainOf(nodes)[head] = i.seen \o ChainOf(nodes)[i.current_node],
         used' = used + (IF i.open THEN 1 ELSE 0) - (IF iters[it].open THEN 1 ELSE 0)
  PROVE  ListInv'
<1>1. /\ UNCHANGED <<live, head, size, version, nodes, pc, current, value, status>>
      /\ TypeOK /\ LInv /\ AllWalks
  BY LFacts DEF listVars, localVars, ListInv
<1>2. iters \in [Iters -> Iterator] /\ iters' \in [Iters -> Iterator] /\ iters'[it] = i
      /\ \A jt \in Iters : jt # it => iters'[jt] = iters[jt]
  BY <1>1 DEF TypeOK
<1>3. i.open \in BOOLEAN /\ iters[it].open \in BOOLEAN
  BY <1>2 DEF Iterator
<1>4. /\ IsFiniteSet(OpenIters')
      /\ Cardinality(OpenIters') = Cardinality(OpenIters) + (IF i.open THEN 1 ELSE 0)
                                   - (IF iters[it].open THEN 1 ELSE 0)
  <2>1. CASE i.open = iters[it].open
    <3>1. OpenIters' = OpenIters
      BY <1>2, <2>1 DEF OpenIters
    <3> QED
      BY <1>1, <1>3, <2>1, <3>1, LFacts
  <2>2. CASE i.open /\ ~iters[it].open
    <3>1. OpenIters' = OpenIters \cup {it} /\ it \notin OpenIters
      BY <1>2, <2>2 DEF OpenIters
    <3>2. IsFiniteSet(OpenIters) /\ Cardinality(OpenIters) \in Nat
      BY <1>1, LFacts
    <3>3. IsFiniteSet(OpenIters') /\ Cardinality(OpenIters') = Cardinality(OpenIters) + 1
      BY <3>1, <3>2, FS_AddElement
    <3> QED
      BY <2>2, <3>2, <3>3
  <2>3. CASE ~i.open /\ iters[it].open
    <3>1. OpenIters' = OpenIters \ {it} /\ it \in OpenIters
      BY <1>2, <2>3 DEF OpenIters
    <3>2. IsFiniteSet(OpenIters) /\ Cardinality(OpenIters) \in Nat
      BY <1>1, LFacts
    <3>3. IsFiniteSet(OpenIters') /\ Cardinality(OpenIters') = Cardinality(OpenIters) - 1
      BY <3>1, <3>2, FS_RemoveElement
    <3> QED
      BY <2>3, <3>2, <3>3
  <2> QED
    BY <1>3, <2>1, <2>2, <2>3
<1>5. Owned' = Owned /\ Owned \in Nat
  BY <1>1, LFacts DEF Owned
<1>6. used' = Owned' + Cardinality(OpenIters')
  <2>1. used = Owned + Cardinality(OpenIters) /\ Cardinality(OpenIters) \in Nat
    BY <1>1, LFacts
  <2> QED
    BY <1>3, <1>4, <1>5, <2>1
<1>7. LInv'
  <2>1. Settled /\ Settled' /\ {status', iter_status'} \subseteq Statuses
    BY <1>1 DEF Settled, TypeOK
  <2>2. live' \in BOOLEAN /\ (~live' => ~live /\ pc' = "idle") /\ pc' # "push"
        /\ value' \in Elems \cup {Null}
    BY <1>1 DEF TypeOK
  <2> QED
    BY <1>1, <1>2, <1>4, <1>6, <2>1, <2>2, SameNodes
<1>8. AllWalks'
  <2> SUFFICES ASSUME NEW jt \in Iters PROVE WalkInv(jt)'
    BY DEF AllWalks
  <2>1. WalkInv(jt)
    BY <1>1 DEF AllWalks
  <2>2. CASE jt # it
    BY <1>1, <1>2, <2>1, <2>2 DEF WalkInv, Safe, Follows, Settled
  <2>3. CASE jt = it
    BY <1>1, <1>2, <2>3 DEF WalkInv, Safe, Follows
  <2> QED
    BY <2>2, <2>3
<1> QED
  BY <1>7, <1>8 DEF ListInv

LEMMA ClosedIterType == ClosedIter \in Iterator /\ ~ClosedIter.open
<1>1. <<>> \in Seq(Elems)
  BY EmptySeq
<1> QED
  BY <1>1 DEF ClosedIter, Iterator

LEMMA NewIterInv == ASSUME ListInv, NEW it \in Iters, NewIter(it) PROVE ListInv'
<1> DEFINE i == [ClosedIter EXCEPT !.open = TRUE, !.current_node = head,
                                   !.snapshot_version = version]
<1>1. /\ live /\ pc = "idle" /\ ~iters[it].open /\ iters' = [iters EXCEPT ![it] = i]
      /\ used' = used + 1 /\ iter_status' = "CDSA_OK"
      /\ UNCHANGED <<listVars, localVars, status>>
  BY DEF NewIter, Idle
<1>2. LInv /\ TypeOK /\ Heap(nodes) /\ Settled /\ First = head
  BY <1>1, LFacts DEF ListInv, Settled, First
<1>3. PICK n, f : Linked(nodes, head, f, n)
  BY <1>2, LFacts
<1>4. head \in DOMAIN nodes \cup {Null} /\ ChainOf(nodes)[head] \in Seq(Elems)
  BY <1>2, <1>3, FirstIsNode, ChainType
<1>5. /\ i \in Iterator /\ i.open /\ i.current_node = head
      /\ i.snapshot_version = version /\ i.seen = <<>>
  BY <1>2, ClosedIterType DEF ClosedIter, Iterator, TypeOK
<1> HIDE DEF i
<1>6. <<>> \o ChainOf(nodes)[head] = ChainOf(nodes)[head]
  BY <1>4, ConcatEmptySeq
<1>7. version \in Nat /\ used \in Nat /\ "CDSA_OK" \in Statuses
  BY <1>2 DEF TypeOK, Statuses
<1>8. used' = used + (IF i.open THEN 1 ELSE 0) - (IF iters[it].open THEN 1 ELSE 0)
  BY <1>1, <1>5, <1>7
<1>9. /\ i.open => live /\ i.snapshot_version <= version
      /\ i.open /\ i.snapshot_version = version =>
           /\ i.current_node \in DOMAIN nodes \cup {Null}
           /\ ChainOf(nodes)[head] = i.seen \o ChainOf(nodes)[i.current_node]
  BY <1>1, <1>4, <1>5, <1>6, <1>7
<1>10. /\ pc = "idle" /\ UNCHANGED <<listVars, localVars, status>>
       /\ iters' = [iters EXCEPT ![it] = i] /\ iter_status' \in Statuses
  BY <1>1, <1>7
<1> QED
  BY <1>5, <1>8, <1>9, <1>10, OneIter, Zenon

LEMMA IterNextInv == ASSUME ListInv, NEW it \in Iters, IterNext(it) PROVE ListInv'
<1> DEFINE c == iters[it].current_node
           i == [iters[it] EXCEPT !.current_node = nodes[c].next,
                                  !.seen = Append(@, nodes[c].data)]
<1>1. /\ live /\ pc = "idle" /\ iters[it].open /\ Safe(it) /\ c # Null
      /\ iters' = [iters EXCEPT ![it] = i] /\ used' = used /\ iter_status' = "CDSA_OK"
      /\ UNCHANGED <<listVars, localVars, status>>
  BY DEF IterNext, Idle
<1>2. /\ LInv /\ TypeOK /\ Heap(nodes) /\ Settled /\ First = head
      /\ WalkInv(it) /\ iters[it] \in Iterator
  BY <1>1, LFacts DEF ListInv, Settled, First, AllWalks, TypeOK
<1>3. PICK n, f : Linked(nodes, head, f, n)
  BY <1>2, LFacts
<1>4. /\ c \in DOMAIN nodes /\ iters[it].snapshot_version = version
      /\ ChainOf(nodes)[head] = iters[it].seen \o ChainOf(nodes)[c]
  BY <1>1, <1>2 DEF WalkInv, Follows, Safe
<1>5. nodes[c].data \in Elems /\ nodes[c].next \in DOMAIN nodes \cup {Null}
  BY <1>2, <1>3, <1>4, NextIsNode DEF Heap
<1>6. /\ ChainOf(nodes)[c] = <<nodes[c].data>> \o ChainOf(nodes)[nodes[c].next]
      /\ ChainOf(nodes)[nodes[c].next] \in Seq(Elems)
  BY <1>2, <1>3, <1>4, <1>5, ChainStep, ChainType
<1>7. iters[it].seen \in Seq(Elems) /\ nodes[c].next \in Ids \cup {Null}
  BY <1>2, <1>4 DEF Iterator, Heap
<1>8. /\ i \in Iterator /\ i.open /\ i.current_node = nodes[c].next
      /\ i.snapshot_version = version /\ i.seen = Append(iters[it].seen, nodes[c].data)
  <2>1. Append(iters[it].seen, nodes[c].data) \in Seq(Elems)
    BY <1>5, <1>7, AppendProperties
  <2> HIDE DEF c
  <2> QED
    BY <1>1, <1>2, <1>4, <1>7, <2>1 DEF Iterator
<1> HIDE DEF i
<1>9. ChainOf(nodes)[head] = i.seen \o ChainOf(nodes)[nodes[c].next]
  <2> DEFINE t == ChainOf(nodes)[nodes[c].next]
             x == nodes[c].data
             s == iters[it].seen
  <2>1. t \in Seq(Elems) /\ x \in Elems /\ s \in Seq(Elems)
    BY <1>5, <1>6, <1>7
  <2>2. /\ ChainOf(nodes)[head] = s \o (<<x>> \o t)
        /\ i.seen = Append(s, x)
    BY <1>4, <1>6, <1>8
  <2> HIDE DEF t, x, s
  <2>3. ChainOf(nodes)[head] = i.seen \o t
    <3>1. s \o (<<x>> \o t) = Append(s, x) \o t
      BY ONLY <2>1, MoveFront
    <3> QED
      BY <2>2, <3>1, Zenon
  <2> QED
    BY <2>3 DEF t
<1>10. version \in Nat /\ used \in Nat /\ "CDSA_OK" \in Statuses
  BY <1>2 DEF TypeOK, Statuses
<1>11. used' = used + (IF i.open THEN 1 ELSE 0) - (IF iters[it].open THEN 1 ELSE 0)
  BY <1>1, <1>8, <1>10
<1>12. /\ i.open => live /\ i.snapshot_version <= version
       /\ i.open /\ i.snapshot_version = version =>
            /\ i.current_node \in DOMAIN nodes \cup {Null}
            /\ ChainOf(nodes)[head] = i.seen \o ChainOf(nodes)[i.current_node]
  <2>1. live /\ i.snapshot_version = version /\ version <= version
    BY <1>1, <1>8, <1>10
  <2>2. i.current_node \in DOMAIN nodes \cup {Null}
    BY <1>5, <1>8, Zenon
  <2>3. ChainOf(nodes)[head] = i.seen \o ChainOf(nodes)[i.current_node]
    BY <1>8, <1>9, Zenon
  <2> QED
    BY <2>1, <2>2, <2>3, Zenon
<1>13. /\ pc = "idle" /\ UNCHANGED <<listVars, localVars, status>>
       /\ iters' = [iters EXCEPT ![it] = i] /\ iter_status' \in Statuses
  BY <1>1, <1>10
<1> QED
  BY <1>8, <1>11, <1>12, <1>13, OneIter, Zenon

LEMMA IterFailsInv == ASSUME ListInv, NEW it \in Iters, IterFails(it) PROVE ListInv'
<1>1. /\ UNCHANGED <<listVars, localVars, iters, used, status>>
      /\ iter_status' \in Statuses
  BY DEF IterFails, Statuses
<1>2. LInv /\ AllWalks /\ {status', iter_status'} \subseteq Statuses
  BY <1>1, LFacts DEF ListInv, TypeOK
<1>3. LInv'
  BY <1>1, <1>2, QuietInv
<1>4. UNCHANGED <<head, version, nodes, iters, live, pc>> /\ Settled' = Settled
  BY <1>1 DEF listVars, localVars, Settled
<1> QED
  BY <1>2, <1>3, <1>4, SameWalks DEF ListInv

LEMMA FreeIterInv == ASSUME ListInv, NEW it \in Iters, FreeIter(it) PROVE ListInv'
<1>1. /\ pc = "idle" /\ iters[it].open /\ iters' = [iters EXCEPT ![it] = ClosedIter]
      /\ used' = used - 1 /\ iter_status' = "CDSA_OK"
      /\ UNCHANGED <<listVars, localVars, status>>
  BY DEF FreeIter
<1>2. used \in Nat /\ "CDSA_OK" \in Statuses
  BY LFacts DEF ListInv, TypeOK, Statuses
<1>3. /\ used' = used + (IF ClosedIter.open THEN 1 ELSE 0)
                      - (IF iters[it].open THEN 1 ELSE 0)
      /\ ClosedIter \in Iterator /\ ~ClosedIter.open /\ iter_status' \in Statuses
  BY <1>1, <1>2, ClosedIterType
<1> QED
  BY <1>1, <1>3, OneIter, Zenon

LEMMA StepKeeps == ASSUME ListInv, Step PROVE ListInv'
<1>1. LInv /\ AllWalks /\ TypeOK /\ version \in Nat
  BY LFacts DEF ListInv, TypeOK
<1>2. ASSUME NEW n \in Ids, PushData(n) PROVE ListInv'
  <2>1. version' = version + 1 /\ live' = live /\ iters' = iters /\ pc' # "free"
    BY <1>2 DEF PushData, EndPush
  <2> QED
    BY <1>1, <1>2, <2>1, PushDataInv, StaleWalks DEF ListInv
<1>3. CASE PushDataOOM
  <2>1. /\ UNCHANGED <<head, version, nodes, iters, live>> /\ pc' # "free"
        /\ Settled
    BY <1>3 DEF PushDataOOM, EndPush, Settled
  <2> QED
    BY <1>1, <1>3, <2>1, PushDataOOMInv, SameWalks DEF ListInv
<1>4. CASE FreeNode
  BY <1>1, <1>4, FreeNodeInv, FreeingWalks DEF ListInv
<1>5. CASE ClearDone
  <2>1. /\ pc = "clear" /\ current = Null /\ pc' = "idle" /\ head' = Null /\ size' = 0
        /\ version' = version + 1
        /\ UNCHANGED <<live, nodes, current, value, iters, used, status, iter_status>>
    BY <1>5 DEF ClearDone
  <2>2. ~Settled /\ version' \in Nat
    BY <1>1, <2>1 DEF Settled
  <2> QED
    BY <1>1, <2>1, <2>2, DoneInv, StaleWalks DEF ListInv
<1>6. CASE FreeDone
  <2>1. /\ pc = "free" /\ current = Null /\ pc' = "idle" /\ head' = Null /\ size' = 0
        /\ version' = 0 /\ live' = FALSE /\ used' = used - 1
        /\ UNCHANGED <<nodes, current, value, iters, status, iter_status>>
    BY <1>6 DEF FreeDone
  <2>2. ~Settled
    BY <2>1 DEF Settled
  <2> QED
    BY <1>1, <1>6, <2>1, <2>2, DoneInv, FreeDoneWalks DEF ListInv
<1> QED
  BY <1>2, <1>3, <1>4, <1>5, <1>6 DEF Step

LEMMA ListCallKeeps == ASSUME ListInv, ListCall PROVE ListInv'
<1>1. LInv /\ AllWalks /\ TypeOK
  BY LFacts DEF ListInv
<1>2. ASSUME LInv', Settled, UNCHANGED <<head, version, nodes, iters>>, live => live',
             pc' # "free" \/ \A it \in Iters : ~iters[it].open
      PROVE  ListInv'
  BY <1>1, <1>2, SameWalks DEF ListInv
<1>3. ASSUME NEW e \in Elems, PushNode(e) PROVE ListInv'
  <2>1. /\ UNCHANGED <<head, version, nodes, iters, live>> /\ pc' # "free" /\ Settled
    BY <1>3 DEF PushNode, Idle, listVars, Settled
  <2> QED
    BY <1>1, <1>2, <1>3, <2>1, PushNodeInv
<1>4. CASE Create
  <2>1. /\ UNCHANGED <<head, version, nodes, iters, pc>> /\ ~live
    BY <1>4 DEF Create, localVars
  <2>2. pc' # "free" /\ Settled
    BY <1>1, <2>1, LFacts DEF Settled
  <2> QED
    BY <1>1, <1>2, <1>4, <2>1, <2>2, CreateInv
<1>5. CASE CreateOOM \/ PushNodeOOM \/ PopEmpty
  <2>1. /\ UNCHANGED <<listVars, localVars, iters, used, iter_status>>
        /\ status' \in Statuses /\ (~live \/ pc = "idle")
    BY <1>5 DEF CreateOOM, PushNodeOOM, PopEmpty, Idle, Statuses
  <2>2. {status', iter_status'} \subseteq Statuses /\ pc = "idle"
    BY <1>1, <2>1, LFacts DEF TypeOK
  <2>3. UNCHANGED <<head, version, nodes, iters, live>> /\ pc' # "free" /\ Settled
    BY <2>1, <2>2 DEF listVars, localVars, Settled
  <2> QED
    BY <1>1, <1>2, <2>1, <2>2, <2>3, QuietInv
<1>6. CASE PopFront
  <2>1. version' = version + 1 /\ live' = live /\ iters' = iters /\ pc' # "free"
    BY <1>6 DEF PopFront, Idle, localVars
  <2> QED
    BY <1>1, <1>6, <2>1, PopFrontInv, StaleWalks DEF ListInv
<1>7. CASE ClearStart \/ FreeStart
  <2>1. PICK call \in {"clear", "free"} :
          StartFreeing(call) /\ (call = "free" => \A it \in Iters : ~iters[it].open)
    BY <1>7 DEF ClearStart, FreeStart
  <2>2. UNCHANGED <<head, version, nodes, iters, live>> /\ pc' = call /\ Settled
    BY <2>1 DEF StartFreeing, Idle, listVars, Settled
  <2>3. pc' # "free" \/ \A it \in Iters : ~iters[it].open
    BY <2>1, <2>2
  <2>4. LInv'
    BY <1>1, <2>1, StartFreeingInv
  <2> QED
    BY <1>2, <2>2, <2>3, <2>4
<1> QED
  BY <1>3, <1>4, <1>5, <1>6, <1>7 DEF ListCall

LEMMA ListNext == ListInv /\ [Next]_vars => ListInv'
<1> SUFFICES ASSUME ListInv, [Next]_vars PROVE ListInv'
  OBVIOUS
<1>1. CASE IterCall
  BY <1>1, NewIterInv, IterNextInv, IterFailsInv, FreeIterInv DEF IterCall
<1>2. CASE UNCHANGED vars
  <2>1. UNCHANGED <<listVars, localVars, iters, used, status, iter_status>>
    BY <1>2 DEF vars
  <2>2. UNCHANGED <<head, version, nodes, iters, live, pc>> /\ Settled' = Settled
    BY <2>1 DEF listVars, localVars, Settled
  <2>3. LInv /\ AllWalks /\ {status', iter_status'} \subseteq Statuses
    BY <2>1, LFacts DEF ListInv, TypeOK
  <2> QED
    BY <2>1, <2>2, <2>3, QuietInv, SameWalks DEF ListInv
<1> QED
  BY <1>1, <1>2, StepKeeps, ListCallKeeps DEF Next

LEMMA ListInit == Init => ListInv
<1>1. Init => AllWalks
  BY DEF Init, AllWalks, WalkInv, ClosedIter
<1> QED
  BY <1>1, LInit DEF ListInv

LEMMA ListAlways == Spec => []ListInv
  BY ListInit, ListNext, PTL DEF Spec

(* Every allocation is owned by the list, by one of the size nodes of its  *)
(* chain, by a push that waits for its data or by an iterator: a push that *)
(* fails half-way and the loops of clear and free leak nothing and free    *)
(* nothing twice.                                                          *)
THEOREM ListLeakFree == Spec => []NoLeak
<1>1. ListInv => NoLeak
  <2> SUFFICES ASSUME ListInv PROVE NoLeak
    OBVIOUS
  <2>1. LInv /\ TypeOK /\ Heap(nodes)
    BY LFacts DEF ListInv
  <2>2. used = Owned + Cardinality(OpenIters)
    BY <2>1, LFacts
  <2>3. ASSUME Settled PROVE size = Cardinality(DOMAIN nodes) /\ size = Len(Chain(head))
    <3>1. First = head
      BY <2>3 DEF First
    <3>2. PICK n, f : Linked(nodes, head, f, n)
      BY <2>1, <3>1, LFacts
    <3>3. Len(Chain(head)) = n
      BY <2>1, <3>2, ChainFacts, ChainIs
    <3> QED
      BY <2>1, <2>3, <3>2, <3>3, LFacts, NodeCount
  <2> QED
    BY <2>1, <2>2, <2>3 DEF NoLeak, Owned, OpenIters, Settled
<1> QED
  BY <1>1, ListAlways, PTL

(* An iterator that passes the version check stands at a node that has not *)
(* been freed, or at the end, and what it yielded and will yield are the   *)
(* list.                                                                   *)
THEOREM ListIteratorCorrect == Spec => []IteratorExact
<1>1. ListInv => IteratorExact
  <2> SUFFICES ASSUME ListInv, NEW it \in Iters, Idle, iters[it].open, Safe(it)
               PROVE  /\ iters[it].current_node \in DOMAIN nodes \cup {Null}
                      /\ Chain(head) = iters[it].seen \o Chain(iters[it].current_node)
    BY DEF IteratorExact
  <2>1. Follows(it)
    BY DEF ListInv, AllWalks, WalkInv, Idle, Settled
  <2>2. /\ Chain(head) = ChainOf(nodes)[head]
        /\ Chain(iters[it].current_node) = ChainOf(nodes)[iters[it].current_node]
    BY ChainIs
  <2> QED
    BY <2>1, <2>2 DEF Follows
<1> QED
  BY <1>1, ListAlways, PTL

-----------------------------------------------------------------------------
(* The refinement                                                          *)

LEMMA ItemsAre ==
  Items = IF Settled THEN ChainOf(nodes)[head] ELSE <<>>
  BY ChainIs DEF Items, Settled

LEMMA ItemsAreNext ==
  Items' = IF Settled' THEN ChainOf(nodes')[head'] ELSE <<>>
  BY ChainIsNext DEF Items, Settled

LEMMA NullIsEmpty == ListInv => ChainOf(nodes)[Null] = <<>>
  BY LFacts, ChainStep DEF ListInv

LEMMA NullIsEmptyNext == (ListInv => ChainOf(nodes)[Null] = <<>>)'
  BY NullIsEmpty, PTL

LEMMA SameItems ==
  ASSUME UNCHANGED <<nodes, head>>, Settled' = Settled PROVE Items' = Items
  BY ItemsAre, ItemsAreNext

LEMMA PushRefines ==
  ASSUME ListInv, NEW x \in Ids, PushData(x)
  PROVE  LF!Push(value)
<1>1. /\ pc = "push" /\ pc' = "idle" /\ x \notin DOMAIN nodes /\ head' = x
      /\ nodes' = WithFront(nodes, x, value, head) /\ status' = "CDSA_OK"
  BY DEF PushData, EndPush, WithFront
<1>2. Heap(nodes) /\ Settled /\ Settled' /\ First = head /\ value \in Elems
  BY <1>1, LFacts DEF ListInv, Settled, First
<1>3. PICK n, f : Linked(nodes, head, f, n)
  BY <1>2, LFacts DEF ListInv
<1> DEFINE ns == nodes
           ms == nodes'
           p == head
           e == value
<1>4. /\ Heap(ns) /\ Linked(ns, p, f, n) /\ e \in Elems
      /\ x \notin DOMAIN ns /\ ms = WithFront(ns, x, e, p)
  BY <1>1, <1>2, <1>3
<1> HIDE DEF ns, ms, p, e
<1>5. ChainOf(ms)[x] = <<e>> \o ChainOf(ns)[p]
  BY <1>4, ConsNode
<1>6. ChainOf(nodes')[head'] = <<value>> \o ChainOf(nodes)[head]
  BY <1>1, <1>5 DEF ns, ms, p, e
<1>7. Items' = <<value>> \o Items
  BY <1>2, <1>6, ItemsAre, ItemsAreNext
<1> QED
  BY <1>1, <1>7 DEF LF!Push, LF!Ok

LEMMA PopRefines == ASSUME ListInv, PopFront PROVE LF!Pop
<1>1. /\ pc = "idle" /\ pc' = "idle" /\ head # Null /\ head' = nodes[head].next
      /\ nodes' = [m \in DOMAIN nodes \ {head} |-> nodes[m]] /\ status' = "CDSA_OK"
  BY DEF PopFront, Idle, localVars, Without
<1>2. Heap(nodes) /\ Settled /\ Settled' /\ First = head
  BY <1>1, LFacts DEF ListInv, Settled, First
<1>3. PICK n, f : Linked(nodes, head, f, n)
  BY <1>2, LFacts DEF ListInv
<1>4. /\ ChainOf(nodes)[head] # <<>>
      /\ ChainOf(nodes')[nodes[head].next] = Tail(ChainOf(nodes)[head])
  <2> DEFINE ns == nodes
             ms == nodes'
             p == head
  <2>1. /\ Heap(ns) /\ Linked(ns, p, f, n) /\ p # Null
        /\ ms = [m \in DOMAIN ns \ {p} |-> ns[m]]
    BY <1>1, <1>2, <1>3
  <2> HIDE DEF ns, ms, p
  <2>2. ChainOf(ns)[p] # <<>> /\ ChainOf(ms)[ns[p].next] = Tail(ChainOf(ns)[p])
    BY <2>1, DropNode
  <2> QED
    BY <2>2 DEF ns, ms, p
<1>5. Items # <<>> /\ Items' = Tail(Items)
  BY <1>1, <1>2, <1>4, ItemsAre, ItemsAreNext
<1> QED
  BY <1>1, <1>5 DEF LF!Pop, LF!Ok

LEMMA ListStepRefines == ASSUME ListInv, ListInv', [Next]_vars PROVE [LF!Next]_(LF!vars)
<1> USE DEF LF!vars
<1>1. ASSUME NEW n \in Ids, PushData(n) PROVE LF!Next
  <2>1. value \in Elems
    BY <1>1, LFacts DEF ListInv, PushData, EndPush
  <2> QED
    BY <1>1, <2>1, PushRefines DEF LF!Next
<1>2. CASE PushDataOOM
  <2>1. /\ UNCHANGED <<nodes, head>> /\ Settled' = Settled /\ status' = "CDSA_ERR_OOM"
    BY <1>2 DEF PushDataOOM, EndPush, Settled
  <2> QED
    BY <2>1, SameItems DEF LF!Next, LF!OutOfMemory
<1>3. CASE FreeNode
  <2>1. ~Settled /\ ~Settled' /\ status' = status
    BY <1>3 DEF FreeNode, Settled
  <2> QED
    BY <2>1, ItemsAre, ItemsAreNext
<1>4. CASE ClearDone \/ FreeDone
  <2>1. ~Settled /\ Settled' /\ head' = Null /\ status' = status
    BY <1>4 DEF ClearDone, FreeDone, Settled
  <2>2. ChainOf(nodes')[Null] = <<>>
    BY NullIsEmptyNext
  <2> QED
    BY <2>1, <2>2, ItemsAre, ItemsAreNext
<1>5. ASSUME NEW e \in Elems, PushNode(e) PROVE UNCHANGED LF!vars
  <2>1. UNCHANGED <<nodes, head>> /\ Settled /\ Settled' /\ status' = status
    BY <1>5 DEF PushNode, Idle, listVars, Settled
  <2> QED
    BY <2>1, SameItems
<1>6. CASE Create
  <2>1. /\ UNCHANGED <<nodes, head, pc>> /\ status' = "CDSA_OK" /\ ~live
    BY <1>6 DEF Create, localVars
  <2>2. head = Null /\ Settled /\ Settled'
    BY <2>1, LFacts DEF ListInv, Settled
  <2>3. Items = <<>>
    BY <2>2, ItemsAre, NullIsEmpty
  <2>4. Items' = Items
    BY <2>1, <2>2, SameItems
  <2> QED
    BY <2>1, <2>3, <2>4 DEF LF!Next, LF!Make, LF!Ok
<1>7. CASE CreateOOM \/ PushNodeOOM
  <2>1. UNCHANGED <<nodes, head>> /\ Settled' = Settled /\ status' = "CDSA_ERR_OOM"
    BY <1>7 DEF CreateOOM, PushNodeOOM, listVars, localVars, Settled
  <2> QED
    BY <2>1, SameItems DEF LF!Next, LF!OutOfMemory
<1>8. CASE PopFront
  BY <1>8, PopRefines DEF LF!Next
<1>9. CASE PopEmpty
  <2>1. /\ UNCHANGED <<nodes, head>> /\ Settled' = Settled /\ status' = "CDSA_ERR_EMPTY"
        /\ Settled /\ head = Null
    BY <1>9 DEF PopEmpty, Idle, listVars, localVars, Settled
  <2>2. Items = <<>>
    BY <2>1, ItemsAre, NullIsEmpty
  <2> QED
    BY <2>1, <2>2, SameItems DEF LF!Next, LF!PopEmpty
<1>10. CASE ClearStart \/ FreeStart
  <2>1. ~Settled' /\ status' = status
    BY <1>10 DEF ClearStart, FreeStart, StartFreeing, Settled
  <2> QED
    BY <2>1, ItemsAreNext DEF LF!Next, LF!Clear
<1>11. CASE IterCall \/ UNCHANGED vars
  <2>1. UNCHANGED <<nodes, head, pc, status>>
    BY <1>11 DEF IterCall, NewIter, IterNext, IterFails, FreeIter, vars, listVars, localVars
  <2> QED
    BY <2>1, SameItems DEF Settled
<1> QED
  BY <1>1, <1>2, <1>3, <1>4, <1>5, <1>6, <1>7, <1>8, <1>9, <1>10, <1>11
  DEF Next, Step, ListCall

(* The list implements the sequence: a push puts its element in front when *)
(* its second allocation succeeds, a clear takes effect when its loop      *)
(* begins, and no other step of any call shows.                            *)
THEOREM ListImplementsLifo == Spec => ImplementsLifo
<1>1. Init => LF!Init
  <2> SUFFICES ASSUME Init PROVE LF!Init
    OBVIOUS
  <2>1. ListInv /\ Settled /\ head = Null /\ status = "CDSA_OK"
    BY ListInit DEF Init, Settled
  <2> QED
    BY <2>1, ItemsAre, NullIsEmpty DEF LF!Init
<1>2. ListInv /\ ListInv' /\ [Next]_vars => [LF!Next]_(LF!vars)
  BY ListStepRefines
<1> QED
  BY <1>1, <1>2, ListAlways, PTL DEF Spec, ImplementsLifo, LF!Spec
=============================================================================

------------------------------ MODULE ArtProofs ------------------------------
(***************************************************************************)
(* Proofs about ArtTree for every set of keys, every four widths of nodes, *)
(* any number of saved bytes, of blocks, of frames and of iterators.       *)
(***************************************************************************)
EXTENDS ArtTree, ModArith, FiniteSetTheorems, SequenceTheorems, TLAPS

-----------------------------------------------------------------------------
(* Numbers                                                                 *)

LEMMA MinFacts ==
  ASSUME NEW S \in SUBSET Nat, S # {}
  PROVE  Min(S) \in S /\ \A y \in S : Min(S) <= y
  BY LeastNumber DEF Min

(* A nonempty set with bounded numbers has a member with the largest.      *)
LEMMA LargestOf ==
  ASSUME NEW B, B # {}, NEW num, NEW top \in Nat,
         \A m \in B : num[m] \in Nat /\ num[m] <= top
  PROVE  \E m \in B : \A k \in B : num[k] <= num[m]
<1> DEFINE N == {top - num[m] : m \in B}
<1>1. N \in SUBSET Nat /\ N # {}
  OBVIOUS
<1>2. PICK n \in N : \A k \in N : n <= k
  BY <1>1, LeastNumber
<1>3. PICK m \in B : n = top - num[m]
  BY <1>2
<1>4. ASSUME NEW k \in B PROVE num[k] <= num[m]
  <2>1. top - num[k] \in N
    OBVIOUS
  <2>2. top - num[m] <= top - num[k]
    BY <1>2, <1>3, <2>1
  <2>3. num[k] \in Nat /\ num[m] \in Nat
    OBVIOUS
  <2> QED
    BY <2>2, <2>3
<1> QED
  BY <1>4

LEMMA SmallestOf ==
  ASSUME NEW B, B # {}, NEW num, \A m \in B : num[m] \in Nat
  PROVE  \E m \in B : \A k \in B : num[m] <= num[k]
<1> DEFINE N == {num[m] : m \in B}
<1>1. N \in SUBSET Nat /\ N # {}
  OBVIOUS
<1>2. PICK n \in N : \A k \in N : n <= k
  BY <1>1, LeastNumber
<1>3. PICK m \in B : n = num[m]
  BY <1>2
<1>4. \A k \in B : num[k] \in N
  OBVIOUS
<1> QED
  BY <1>2, <1>3, <1>4

-----------------------------------------------------------------------------
(* Recursion.  A walk from x: it goes on with next until it is in ends.    *)
Run(ends, next, r, n, x) ==
  /\ r[0] = x /\ r[n] \in ends
  /\ \A i \in 0 .. n - 1 : r[i] \notin ends /\ r[i + 1] = next[r[i]]

(* There is one walk from x at most.                                       *)
LEMMA RunsAgree ==
  ASSUME NEW ends, NEW next, NEW x, NEW r, NEW s, NEW n \in Nat, NEW m \in Nat,
         Run(ends, next, r, n, x), Run(ends, next, s, m, x)
  PROVE  r[n] = s[m]
<1>1. \A i \in Nat : i <= n /\ i <= m => r[i] = s[i]
  <2> SUFFICES ASSUME NEW j \in Nat, j <= n, j <= m, r[j] # s[j] PROVE FALSE
    OBVIOUS
  <2> DEFINE D == {i \in Nat : i <= n /\ i <= m /\ r[i] # s[i]}
  <2>1. PICK i \in D : \A k \in D : i <= k
    <3>1. D \in SUBSET Nat /\ j \in D
      OBVIOUS
    <3> QED
      BY <3>1, LeastNumber
  <2>2. i # 0
    BY <2>1 DEF Run
  <2>3. i - 1 \in Nat /\ i - 1 \in 0 .. n - 1 /\ i - 1 \in 0 .. m - 1 /\ (i - 1) + 1 = i
    BY <2>1, <2>2
  <2>4. r[i - 1] = s[i - 1]
    <3>1. i - 1 \notin D
      BY <2>1, <2>3
    <3> QED
      BY <3>1, <2>3
  <2>5. r[i] = next[r[i - 1]] /\ s[i] = next[s[i - 1]]
    BY <2>3 DEF Run
  <2> QED
    BY <2>1, <2>4, <2>5
<1>2. CASE n < m
  <2>1. n \in 0 .. m - 1
    BY <1>2
  <2>2. s[n] \notin ends
    BY <2>1 DEF Run
  <2> QED
    BY <2>2, <1>1, <1>2 DEF Run
<1>3. CASE m < n
  <2>1. m \in 0 .. n - 1
    BY <1>3
  <2>2. r[m] \notin ends
    BY <2>1 DEF Run
  <2> QED
    BY <2>2, <1>1, <1>3 DEF Run
<1>4. CASE n = m
  BY <1>1, <1>4
<1> QED
  BY <1>2, <1>3, <1>4

Continues(X, ends, next, res, f) ==
  f = [x \in X |-> IF x \in ends THEN res[x] ELSE f[next[x]]]

(* A recursion that only goes on, or ends, has a solution, whether it ends *)
(* everywhere or not.                                                      *)
LEMMA TailRecursion ==
  ASSUME NEW X, NEW ends, NEW next, NEW res,
         \A x \in X : x \notin ends => next[x] \in X
  PROVE  \E f : Continues(X, ends, next, res, f)
<1> DEFINE Reaches(x, e) == \E n \in Nat : \E r : Run(ends, next, r, n, x) /\ e = r[n]
           f == [x \in X |-> IF \E e : Reaches(x, e) THEN res[CHOOSE e : Reaches(x, e)]
                             ELSE NULL]
<1>1. \A x, e, d : Reaches(x, e) /\ Reaches(x, d) => e = d
  <2> TAKE x, e, d
  <2> HAVE Reaches(x, e) /\ Reaches(x, d)
  <2>a. PICK n \in Nat : \E r : Run(ends, next, r, n, x) /\ e = r[n]
    OBVIOUS
  <2>1. PICK r : Run(ends, next, r, n, x) /\ e = r[n]
    BY <2>a
  <2>b. PICK m \in Nat : \E s : Run(ends, next, s, m, x) /\ d = s[m]
    OBVIOUS
  <2>2. PICK s : Run(ends, next, s, m, x) /\ d = s[m]
    BY <2>b
  <2> QED
    BY <2>1, <2>2, RunsAgree
<1>2. ASSUME NEW x \in X, x \in ends PROVE Reaches(x, x)
  <2> DEFINE r == [i \in {0} |-> x]
  <2>1. Run(ends, next, r, 0, x)
    BY <1>2 DEF Run
  <2> QED
    BY <2>1
<1>3. ASSUME NEW x \in X, x \notin ends, NEW e PROVE Reaches(x, e) <=> Reaches(next[x], e)
  <2>1. ASSUME Reaches(next[x], e) PROVE Reaches(x, e)
    <3>a. PICK n \in Nat : \E r : Run(ends, next, r, n, next[x]) /\ e = r[n]
      BY <2>1
    <3>1. PICK r : Run(ends, next, r, n, next[x]) /\ e = r[n]
      BY <3>a
    <3> DEFINE s == [i \in Nat |-> IF i = 0 THEN x ELSE r[i - 1]]
    <3>2. s[0] = x /\ n + 1 \in Nat /\ s[n + 1] = r[n]
      OBVIOUS
    <3>3. ASSUME NEW i \in 0 .. (n + 1) - 1
          PROVE  s[i] \notin ends /\ s[i + 1] = next[s[i]]
      <4>0. s[i + 1] = r[i]
        OBVIOUS
      <4>1. CASE i = 0
        <5>1. s[0] = x /\ r[0] = next[x]
          BY <3>1 DEF Run
        <5> QED
          BY <5>1, <4>0, <4>1, <1>3
      <4>2. CASE i # 0
        <5>1. i - 1 \in 0 .. n - 1 /\ (i - 1) + 1 = i
          BY <4>2
        <5>2. s[i] = r[i - 1]
          BY <4>2
        <5>3. r[i - 1] \notin ends /\ r[(i - 1) + 1] = next[r[i - 1]]
          BY <5>1, <3>1 DEF Run
        <5> QED
          BY <5>1, <5>2, <5>3, <4>0
      <4> QED
        BY <4>1, <4>2
    <3>4. Run(ends, next, s, n + 1, x)
      <4> HIDE DEF s
      <4> QED
        BY <3>1, <3>2, <3>3 DEF Run
    <3> QED
      <4> HIDE DEF s
      <4> QED
        BY <3>1, <3>2, <3>4
  <2>2. ASSUME Reaches(x, e) PROVE Reaches(next[x], e)
    <3>a. PICK n \in Nat : \E r : Run(ends, next, r, n, x) /\ e = r[n]
      BY <2>2
    <3>1. PICK r : Run(ends, next, r, n, x) /\ e = r[n]
      BY <3>a
    <3>2. n # 0
      BY <3>1, <1>3 DEF Run
    <3>3. n - 1 \in Nat /\ (n - 1) + 1 = n
      BY <3>2
    <3> DEFINE s == [i \in Nat |-> r[i + 1]]
    <3>4. s[0] = next[x]
      <4>1. 0 \in 0 .. n - 1
        BY <3>2
      <4>2. r[0 + 1] = next[r[0]] /\ r[0] = x
        BY <3>1, <4>1 DEF Run
      <4> QED
        BY <4>2
    <3>5. s[n - 1] = r[n]
      BY <3>3
    <3>6. ASSUME NEW i \in 0 .. (n - 1) - 1
          PROVE  s[i] \notin ends /\ s[i + 1] = next[s[i]]
      <4>1. i + 1 \in 0 .. n - 1
        BY <3>3
      <4>2. r[i + 1] \notin ends /\ r[(i + 1) + 1] = next[r[i + 1]]
        BY <3>1, <4>1 DEF Run
      <4>3. s[i] = r[i + 1] /\ s[i + 1] = r[(i + 1) + 1]
        OBVIOUS
      <4> QED
        BY <4>2, <4>3
    <3>7. Run(ends, next, s, n - 1, next[x])
      <4> HIDE DEF s
      <4> QED
        BY <3>1, <3>4, <3>5, <3>6 DEF Run
    <3> QED
      <4> HIDE DEF s
      <4> QED
        BY <3>1, <3>3, <3>5, <3>7
  <2> QED
    BY <2>1, <2>2
<1>4. ASSUME NEW x \in X
      PROVE  f[x] = IF x \in ends THEN res[x] ELSE f[next[x]]
  <2>1. CASE x \in ends
    <3>1. Reaches(x, x)
      BY <1>2, <2>1
    <3> HIDE DEF Reaches
    <3>2. (CHOOSE e : Reaches(x, e)) = x
      BY <3>1, <1>1
    <3>3. \E e : Reaches(x, e)
      BY <3>1
    <3> QED
      BY <3>2, <3>3, <2>1
  <2>2. CASE x \notin ends
    <3>1. next[x] \in X
      BY <2>2
    <3> HIDE DEF Reaches
    <3>2. \A e : Reaches(x, e) <=> Reaches(next[x], e)
      BY <1>3, <2>2
    <3>3. (\E e : Reaches(x, e)) <=> (\E e : Reaches(next[x], e))
      BY <3>2
    <3>4. ASSUME NEW e, Reaches(x, e)
          PROVE  (CHOOSE d : Reaches(x, d)) = e /\ (CHOOSE d : Reaches(next[x], d)) = e
      <4>1. Reaches(next[x], e)
        BY <3>2, <3>4
      <4> QED
        BY <1>1, <3>4, <4>1
    <3>5. f[x] = f[next[x]]
      BY <3>1, <3>3, <3>4
    <3> QED
      BY <3>5, <2>2
  <2> QED
    BY <2>1, <2>2
<1> HIDE DEF f
<1>5. f = [x \in X |-> f[x]]
  BY DEF f
<1>6. Continues(X, ends, next, res, f)
  BY <1>4, <1>5 DEF Continues
<1> QED
  BY <1>6

-----------------------------------------------------------------------------
(* Strings                                                                 *)
Bytes == 0 .. LastByte
Words == Seq(1 .. LastByte)
Agree(u, v) == \A i \in 0 .. Len(u) - 1 : Char(v, i) = Char(u, i)

LEMMA Constants ==
  /\ LastByte \in Nat /\ Keys \subseteq Words
  /\ MaxPrefix \in Nat \ {0} /\ NodesPerTier \in Nat \ {0} /\ ART_MAX_DEPTH \in Nat \ {0}
  BY ArtAssumption DEF Words

LEMMA CharFacts ==
  ASSUME NEW u \in Words, NEW i \in Nat
  PROVE  /\ Char(u, i) \in Bytes
         /\ Char(u, i) = 0 <=> i >= Len(u)
         /\ Len(u) \in Nat
<1>1. LastByte \in Nat /\ Len(u) \in Nat
  BY Constants DEF Words
<1>2. CASE i < Len(u)
  <2>1. i + 1 \in 1 .. Len(u)
    BY <1>1, <1>2
  <2>2. u[i + 1] \in 1 .. LastByte
    <3>1. u \in Seq(1 .. LastByte)
      BY DEF Words
    <3> QED
      BY <2>1, <3>1, ElementOfSeq
  <2> QED
    BY <1>1, <1>2, <2>2 DEF Char, Bytes
<1>3. CASE i >= Len(u)
  BY <1>1, <1>3 DEF Char, Bytes
<1> QED
  BY <1>1, <1>2, <1>3

LEMMA AgreeLen ==
  ASSUME NEW u \in Words, NEW v \in Words, Agree(u, v)
  PROVE  Len(u) <= Len(v)
<1>1. Len(u) \in Nat /\ Len(v) \in Nat
  BY DEF Words
<1>2. ASSUME Len(v) < Len(u) PROVE FALSE
  <2>1. Len(v) \in 0 .. Len(u) - 1
    BY <1>1, <1>2
  <2>2. Char(v, Len(v)) = Char(u, Len(v))
    BY <2>1 DEF Agree
  <2> QED
    BY <2>2, <1>1, <1>2, CharFacts
<1> QED
  BY <1>1, <1>2

LEMMA AgreeTrans ==
  ASSUME NEW u \in Words, NEW v \in Words, NEW x \in Words, Agree(u, v), Agree(v, x)
  PROVE  Agree(u, x)
<1>1. Len(u) \in Nat /\ Len(v) \in Nat /\ Len(u) <= Len(v)
  BY AgreeLen DEF Words
<1>2. ASSUME NEW i \in 0 .. Len(u) - 1 PROVE Char(x, i) = Char(u, i)
  <2>1. i \in 0 .. Len(v) - 1
    BY <1>1
  <2> QED
    BY <2>1 DEF Agree
<1> QED
  BY <1>2 DEF Agree

LEMMA AgreeSelf == ASSUME NEW u PROVE Agree(u, u)
  BY DEF Agree

LEMMA SameWord ==
  ASSUME NEW u \in Words, NEW v \in Words, \A i \in Nat : Char(u, i) = Char(v, i)
  PROVE  u = v
<1>1. Agree(u, v) /\ Agree(v, u)
  BY DEF Agree, Words
<1>2. Len(u) = Len(v) /\ Len(u) \in Nat
  <2>1. Len(u) <= Len(v) /\ Len(v) <= Len(u)
    BY <1>1, AgreeLen
  <2> QED
    BY <2>1 DEF Words
<1>3. ASSUME NEW i \in 1 .. Len(u) PROVE u[i] = v[i]
  <2>1. i - 1 \in Nat /\ i - 1 < Len(u) /\ (i - 1) + 1 = i
    BY <1>2
  <2>2. Char(u, i - 1) = Char(v, i - 1)
    BY <2>1
  <2> QED
    BY <2>1, <2>2, <1>2 DEF Char
<1>4. u \in Seq(1 .. LastByte) /\ v \in Seq(1 .. LastByte)
  BY DEF Words
<1> QED
  BY <1>2, <1>3, <1>4, SeqEqual

(* A string that goes on from u with a terminator is u.                    *)
LEMMA AgreeEnds ==
  ASSUME NEW u \in Words, NEW v \in Words, Agree(u, v), Char(v, Len(u)) = 0
  PROVE  u = v
<1>1. Len(u) \in Nat /\ Len(v) \in Nat /\ Len(u) <= Len(v)
  BY AgreeLen DEF Words
<1>2. Len(v) = Len(u)
  BY <1>1, CharFacts
<1>3. ASSUME NEW i \in Nat PROVE Char(u, i) = Char(v, i)
  <2>1. CASE i < Len(u)
    <3>1. i \in 0 .. Len(u) - 1
      BY <1>1, <2>1
    <3> QED
      BY <3>1 DEF Agree
  <2>2. CASE i >= Len(u)
    BY <2>2, <1>1, <1>2, CharFacts
  <2> QED
    BY <2>1, <2>2, <1>1
<1> QED
  BY <1>3, SameWord

-----------------------------------------------------------------------------
(* Trees.  The witness of a tree, word, gives every inner node the bytes   *)
(* that lead to its end, those hidden included.                            *)
Addresses == Tiers \X (1 .. NodesPerTier)
LeavesOf(lv) == {Leaf(k) : k \in DOMAIN lv}
Ptrs(ns, lv) == DOMAIN ns \cup LeavesOf(lv)
Edges(ns, p) == Range(ns[p].edges)
Word(word, p) == IF IsLeaf(p) THEN p[2] ELSE word[p]
Depth(ns, word, p) == Len(word[p]) - ns[p].prefix_len

(* An edge goes on from the bytes that lead to the end of its node.        *)
Leads(ns, word, p, e) ==
  /\ Agree(word[p], Word(word, e[2])) /\ Char(Word(word, e[2]), Len(word[p])) = e[1]
  /\ ~IsLeaf(e[2]) => Depth(ns, word, e[2]) = Len(word[p]) + 1

(* A node's path is the last bytes of its word, and the first of them are  *)
(* saved.                                                                  *)
PathOK(ns, word, p) ==
  /\ word[p] \in Words /\ ns[p].prefix_len <= Len(word[p])
  /\ Len(ns[p].prefix) <= MaxPrefix /\ Len(ns[p].prefix) <= ns[p].prefix_len
  /\ Len(ns[p].prefix) = MaxPrefix \/ Len(ns[p].prefix) = ns[p].prefix_len
  /\ \A i \in 0 .. Len(ns[p].prefix) - 1 :
       ns[p].prefix[i + 1] = Char(word[p], Depth(ns, word, p) + i)

Nodes(P) == [prefix_len : Nat, prefix : Seq(Bytes), edges : Seq(Bytes \X P)]

Shape(ns, lv) ==
  /\ DOMAIN ns \subseteq Addresses /\ DOMAIN lv \subseteq Keys
  /\ IsFiniteSet(DOMAIN lv)
  /\ \A p \in DOMAIN ns : ns[p] \in Nodes(Ptrs(ns, lv))

(* Each byte leads one way, each block has one pointer to it and the root  *)
(* none.                                                                   *)
Distinct(s) == \A i, j \in DOMAIN s : s[i][1] = s[j][1] => i = j
OnePointer(ns, lv, rt) ==
  /\ rt # NULL => rt \in Ptrs(ns, lv)
  /\ \A p \in DOMAIN ns : \A e \in Edges(ns, p) : e[2] # rt
  /\ \A p, q \in DOMAIN ns : \A e \in Edges(ns, p), f \in Edges(ns, q) :
       e[2] = f[2] => p = q /\ e = f
  /\ \A c \in Ptrs(ns, lv) : c = rt \/ \E p \in DOMAIN ns : \E e \in Edges(ns, p) : e[2] = c

Tree(ns, lv, rt, word) ==
  /\ Shape(ns, lv) /\ OnePointer(ns, lv, rt)
  /\ \A p \in DOMAIN ns : /\ Distinct(ns[p].edges) /\ PathOK(ns, word, p)
                          /\ \A e \in Edges(ns, p) : Leads(ns, word, p, e)
  /\ rt \in DOMAIN ns => Depth(ns, word, rt) = 0

LEMMA PtrFacts ==
  /\ \A k : IsLeaf(Leaf(k)) /\ Leaf(k)[2] = k
  /\ \A k, l : Leaf(k) = Leaf(l) => k = l
  /\ \A p \in Addresses : ~IsLeaf(p) /\ Tier(p) \in 1 .. 4 /\ p # NULL
  /\ \A k \in Keys : Leaf(k) # NULL
  BY ArtAssumption DEF Leaf, IsLeaf, Addresses, Tier, Tiers

LEMMA ShapeFacts ==
  ASSUME NEW ns, NEW lv, Shape(ns, lv)
  PROVE  /\ NULL \notin Ptrs(ns, lv)
         /\ \A p \in DOMAIN ns : ~IsLeaf(p) /\ p \notin LeavesOf(lv) /\ Tier(p) \in 1 .. 4
         /\ \A p \in LeavesOf(lv) : /\ IsLeaf(p) /\ p = Leaf(p[2])
                                    /\ p[2] \in DOMAIN lv /\ p[2] \in Words
         /\ \A p \in Ptrs(ns, lv) : IsLeaf(p) <=> p \in LeavesOf(lv)
         /\ \A p \in Ptrs(ns, lv) : ~IsLeaf(p) <=> p \in DOMAIN ns
         /\ \A k : Leaf(k) \in Ptrs(ns, lv) <=> k \in DOMAIN lv
<1>1. \A p \in DOMAIN ns : ~IsLeaf(p) /\ p # NULL /\ Tier(p) \in 1 .. 4
  BY PtrFacts DEF Shape
<1>2. ASSUME NEW p \in LeavesOf(lv)
      PROVE  IsLeaf(p) /\ p = Leaf(p[2]) /\ p[2] \in DOMAIN lv /\ p[2] \in Words /\ p # NULL
  <2>1. PICK k \in DOMAIN lv : p = Leaf(k)
    BY DEF LeavesOf
  <2>2. k \in Keys /\ k \in Words
    BY Constants DEF Shape
  <2> QED
    BY <2>1, <2>2, PtrFacts
<1>3. \A k : Leaf(k) \in LeavesOf(lv) <=> k \in DOMAIN lv
  BY PtrFacts DEF LeavesOf
<1> QED
  BY <1>1, <1>2, <1>3, PtrFacts DEF Ptrs

LEMMA EdgeFacts ==
  ASSUME NEW ns, NEW lv, Shape(ns, lv), NEW p \in DOMAIN ns
  PROVE  /\ \A e \in Edges(ns, p) : /\ e[1] \in Bytes /\ e[2] \in Ptrs(ns, lv)
                                    /\ e = <<e[1], e[2]>>
         /\ Len(ns[p].edges) \in Nat /\ DOMAIN ns[p].edges = 1 .. Len(ns[p].edges)
         /\ \A i \in DOMAIN ns[p].edges : ns[p].edges[i] \in Edges(ns, p)
         /\ \A e \in Edges(ns, p) : \E i \in DOMAIN ns[p].edges : ns[p].edges[i] = e
         /\ ns[p].prefix_len \in Nat /\ Len(ns[p].prefix) \in Nat
<1>1. ns[p] \in Nodes(Ptrs(ns, lv))
  BY DEF Shape
<1>2. /\ ns[p].prefix_len \in Nat /\ ns[p].prefix \in Seq(Bytes)
      /\ ns[p].edges \in Seq(Bytes \X Ptrs(ns, lv))
  BY <1>1 DEF Nodes
<1>3. \A i \in DOMAIN ns[p].edges : ns[p].edges[i] \in Bytes \X Ptrs(ns, lv)
  BY <1>2
<1> QED
  BY <1>2, <1>3 DEF Edges, Range

(* What the witness says of the nodes and of what their edges lead to.     *)
LEMMA TreeFacts ==
  ASSUME NEW ns, NEW lv, NEW rt, NEW word, Tree(ns, lv, rt, word)
  PROVE  /\ \A p \in DOMAIN ns : /\ word[p] \in Words /\ Len(word[p]) \in Nat
                                 /\ Depth(ns, word, p) \in Nat
                                 /\ Word(word, p) = word[p]
         /\ \A p \in Ptrs(ns, lv) : Word(word, p) \in Words /\ Len(Word(word, p)) \in Nat
         /\ \A p \in DOMAIN ns : \A e \in Edges(ns, p) :
              /\ Agree(word[p], Word(word, e[2]))
              /\ Char(Word(word, e[2]), Len(word[p])) = e[1]
              /\ Len(word[p]) <= Len(Word(word, e[2]))
              /\ e[2] \in DOMAIN ns => Len(word[p]) < Len(word[e[2]]) /\ e[1] # 0
         /\ \A p \in DOMAIN ns : \A e, f \in Edges(ns, p) : e[1] = f[1] => e = f
<1>1. Shape(ns, lv)
  BY DEF Tree
<1>2. ASSUME NEW p \in DOMAIN ns
      PROVE  /\ word[p] \in Words /\ Len(word[p]) \in Nat /\ Depth(ns, word, p) \in Nat
             /\ Word(word, p) = word[p]
  <2>1. PathOK(ns, word, p)
    BY DEF Tree
  <2>2. ~IsLeaf(p) /\ ns[p].prefix_len \in Nat
    BY <1>1, ShapeFacts, EdgeFacts
  <2> QED
    BY <2>1, <2>2 DEF PathOK, Words, Depth, Word
<1>3. ASSUME NEW p \in Ptrs(ns, lv)
      PROVE  Word(word, p) \in Words /\ Len(Word(word, p)) \in Nat
  <2>1. CASE IsLeaf(p)
    BY <1>1, <2>1, ShapeFacts DEF Word, Words
  <2>2. CASE ~IsLeaf(p)
    BY <1>1, <1>2, <2>2, ShapeFacts
  <2> QED
    BY <2>1, <2>2
<1>4. ASSUME NEW p \in DOMAIN ns, NEW e \in Edges(ns, p)
      PROVE  /\ Agree(word[p], Word(word, e[2]))
             /\ Char(Word(word, e[2]), Len(word[p])) = e[1]
             /\ Len(word[p]) <= Len(Word(word, e[2]))
             /\ e[2] \in DOMAIN ns => Len(word[p]) < Len(word[e[2]]) /\ e[1] # 0
  <2>1. Leads(ns, word, p, e)
    BY DEF Tree
  <2>2. e[2] \in Ptrs(ns, lv)
    BY <1>1, EdgeFacts
  <2>3. Agree(word[p], Word(word, e[2])) /\ Char(Word(word, e[2]), Len(word[p])) = e[1]
    BY <2>1 DEF Leads
  <2>4. Len(word[p]) <= Len(Word(word, e[2]))
    BY <2>2, <2>3, <1>2, <1>3, AgreeLen
  <2>5. ASSUME e[2] \in DOMAIN ns PROVE Len(word[p]) < Len(word[e[2]]) /\ e[1] # 0
    <3>1. ~IsLeaf(e[2])
      BY <1>1, <2>5, ShapeFacts
    <3>2. Depth(ns, word, e[2]) = Len(word[p]) + 1
      BY <2>1, <3>1 DEF Leads
    <3>3. ns[e[2]].prefix_len \in Nat
      BY <1>1, <2>5, EdgeFacts
    <3>4. Len(word[p]) < Len(word[e[2]])
      BY <3>2, <3>3, <1>2, <2>5 DEF Depth
    <3> QED
      BY <3>4, <2>3, <2>5, <1>2, CharFacts
  <2> QED
    BY <2>3, <2>4, <2>5
<1>5. ASSUME NEW p \in DOMAIN ns, NEW e \in Edges(ns, p), NEW f \in Edges(ns, p), e[1] = f[1]
      PROVE  e = f
  <2>1. Distinct(ns[p].edges)
    BY DEF Tree
  <2>2. PICK i \in DOMAIN ns[p].edges : ns[p].edges[i] = e
    BY <1>1, EdgeFacts
  <2>3. PICK j \in DOMAIN ns[p].edges : ns[p].edges[j] = f
    BY <1>1, EdgeFacts
  <2> QED
    BY <1>5, <2>1, <2>2, <2>3 DEF Distinct
<1> QED
  BY <1>2, <1>3, <1>4, <1>5

-----------------------------------------------------------------------------
(* What is above a block: itself, and whatever has a pointer to something  *)
(* above it.                                                               *)
Climbs(ns, S) == \A p \in DOMAIN ns : \A e \in Edges(ns, p) : e[2] \in S => p \in S
Up(ns, lv, x) == {c \in Ptrs(ns, lv) :
                    \A S \in SUBSET Ptrs(ns, lv) : x \in S /\ Climbs(ns, S) => c \in S}

LEMMA UpClosed ==
  ASSUME NEW ns, NEW lv, NEW x \in Ptrs(ns, lv)
  PROVE  /\ x \in Up(ns, lv, x) /\ Up(ns, lv, x) \subseteq Ptrs(ns, lv)
         /\ Climbs(ns, Up(ns, lv, x))
<1>1. x \in Up(ns, lv, x) /\ Up(ns, lv, x) \subseteq Ptrs(ns, lv)
  BY DEF Up
<1>2. ASSUME NEW p \in DOMAIN ns, NEW e \in Edges(ns, p), e[2] \in Up(ns, lv, x)
      PROVE  p \in Up(ns, lv, x)
  <2>1. p \in Ptrs(ns, lv)
    BY DEF Ptrs
  <2>2. ASSUME NEW S \in SUBSET Ptrs(ns, lv), x \in S, Climbs(ns, S) PROVE p \in S
    <3>1. e[2] \in S
      BY <1>2, <2>2 DEF Up
    <3> QED
      BY <3>1, <2>2 DEF Climbs
  <2> QED
    BY <2>1, <2>2 DEF Up
<1> QED
  BY <1>1, <1>2 DEF Climbs

LEMMA UpLeast ==
  ASSUME NEW ns, NEW lv, NEW x, NEW S \in SUBSET Ptrs(ns, lv), x \in S, Climbs(ns, S)
  PROVE  Up(ns, lv, x) \subseteq S
  BY DEF Up

(* What is above x and not x has a child above x.                          *)
LEMMA UpChild ==
  ASSUME NEW ns, NEW lv, NEW x \in Ptrs(ns, lv), NEW c \in Up(ns, lv, x), c # x
  PROVE  c \in DOMAIN ns /\ \E e \in Edges(ns, c) : e[2] \in Up(ns, lv, x)
<1> SUFFICES ASSUME ~(c \in DOMAIN ns /\ \E e \in Edges(ns, c) : e[2] \in Up(ns, lv, x))
             PROVE  FALSE
  OBVIOUS
<1> DEFINE S == Up(ns, lv, x) \ {c}
<1>1. S \in SUBSET Ptrs(ns, lv) /\ x \in S
  BY UpClosed
<1>2. Climbs(ns, S)
  BY UpClosed DEF Climbs
<1>3. Up(ns, lv, x) \subseteq S
  BY <1>1, <1>2, UpLeast
<1> QED
  BY <1>3

LEMMA UpTrans ==
  ASSUME NEW ns, NEW lv, NEW x \in Ptrs(ns, lv), NEW c \in Up(ns, lv, x)
  PROVE  Up(ns, lv, c) \subseteq Up(ns, lv, x)
  BY UpClosed, UpLeast

LEMMA UpAbove ==
  ASSUME NEW ns, NEW lv, NEW rt, OnePointer(ns, lv, rt), NEW p \in DOMAIN ns,
         NEW e \in Edges(ns, p), e[2] \in Ptrs(ns, lv),
         NEW d \in Up(ns, lv, e[2]), d # e[2]
  PROVE  d \in Up(ns, lv, p)
<1> DEFINE S == Up(ns, lv, p) \cup {e[2]}
<1>0. p \in Ptrs(ns, lv)
  BY DEF Ptrs
<1>1. S \in SUBSET Ptrs(ns, lv) /\ e[2] \in S
  BY <1>0, UpClosed
<1>2. ASSUME NEW q \in DOMAIN ns, NEW f \in Edges(ns, q), f[2] \in S PROVE q \in S
  <2>1. CASE f[2] \in Up(ns, lv, p)
    BY <1>0, <2>1, UpClosed DEF Climbs
  <2>2. CASE f[2] = e[2]
    <3>1. q = p
      BY <2>2 DEF OnePointer
    <3> QED
      BY <1>0, <3>1, UpClosed
  <2> QED
    BY <2>1, <2>2, <1>2
<1>3. Climbs(ns, S)
  <2> HIDE DEF S
  <2> QED
    BY <1>2 DEF Climbs
<1>4. Up(ns, lv, e[2]) \subseteq S
  <2> HIDE DEF S
  <2> QED
    BY <1>1, <1>3, UpLeast
<1> QED
  BY <1>4

(* Of two blocks above a third, one is above the other.                    *)
LEMMA UpChain ==
  ASSUME NEW ns, NEW lv, NEW rt, Shape(ns, lv), OnePointer(ns, lv, rt),
         NEW x \in Ptrs(ns, lv), NEW c \in Up(ns, lv, x), NEW d \in Up(ns, lv, x)
  PROVE  c \in Up(ns, lv, d) \/ d \in Up(ns, lv, c)
<1> DEFINE S == {b \in Ptrs(ns, lv) : \A a \in Up(ns, lv, x) :
                   b \in Up(ns, lv, a) \/ a \in Up(ns, lv, b)}
<1>1. x \in S
  OBVIOUS
<1>2. ASSUME NEW p \in DOMAIN ns, NEW e \in Edges(ns, p), e[2] \in S PROVE p \in S
  <2>1. p \in Ptrs(ns, lv) /\ e[2] \in Ptrs(ns, lv)
    BY EdgeFacts DEF Ptrs
  <2>2. ASSUME NEW a \in Up(ns, lv, x) PROVE p \in Up(ns, lv, a) \/ a \in Up(ns, lv, p)
    <3>0. a \in Ptrs(ns, lv)
      BY UpClosed
    <3>1. CASE e[2] \in Up(ns, lv, a)
      BY <3>0, <3>1, UpClosed DEF Climbs
    <3>2. CASE a = e[2]
      <4>1. e[2] \in Up(ns, lv, e[2])
        BY <2>1, UpClosed
      <4>2. p \in Up(ns, lv, e[2])
        BY <4>1, <2>1, UpClosed DEF Climbs
      <4> QED
        BY <3>2, <4>2
    <3>3. CASE a \in Up(ns, lv, e[2]) /\ a # e[2]
      BY <2>1, <3>3, UpAbove
    <3> QED
      BY <1>2, <3>1, <3>2, <3>3
  <2> QED
    BY <2>1, <2>2
<1>3. Up(ns, lv, x) \subseteq S
  BY <1>1, <1>2, UpLeast DEF Climbs
<1> QED
  BY <1>3

(* The root is above everything.                                           *)
LEMMA UpRoot ==
  ASSUME NEW ns, NEW lv, NEW rt, NEW word, Tree(ns, lv, rt, word), NEW x \in Ptrs(ns, lv)
  PROVE  rt \in Up(ns, lv, x)
<1> DEFINE B == Up(ns, lv, x) \cap DOMAIN ns
           num == [m \in B |-> Len(word[m])]
<1>0. OnePointer(ns, lv, rt) /\ Shape(ns, lv)
  BY DEF Tree
<1>1. ASSUME NEW c \in Up(ns, lv, x), c # rt
      PROVE  \E p \in B : \E e \in Edges(ns, p) : e[2] = c
  <2>1. c \in Ptrs(ns, lv)
    BY UpClosed
  <2>2. PICK p \in DOMAIN ns : \E e \in Edges(ns, p) : e[2] = c
    BY <1>0, <1>1, <2>1 DEF OnePointer
  <2>3. p \in B
    BY <2>2, UpClosed DEF Climbs
  <2> QED
    BY <2>2, <2>3
<1>2. CASE B = {}
  BY <1>1, <1>2, UpClosed
<1>3. CASE B # {}
  <2>1. \A m \in B : num[m] \in Nat
    BY TreeFacts
  <2>2. PICK m \in B : \A k \in B : num[m] <= num[k]
    <3> HIDE DEF num, B
    <3> QED
      BY <1>3, <2>1, SmallestOf
  <2>3. ASSUME m # rt PROVE FALSE
    <3>1. PICK p \in B : \E e \in Edges(ns, p) : e[2] = m
      BY <1>1, <2>3
    <3>2. Len(word[p]) < Len(word[m])
      BY <3>1, TreeFacts
    <3>3. Len(word[m]) <= Len(word[p]) /\ Len(word[m]) \in Nat /\ Len(word[p]) \in Nat
      BY <2>1, <2>2
    <3> QED
      BY <3>2, <3>3
  <2> QED
    BY <2>3
<1> QED
  BY <1>2, <1>3

(* The word of an inner node above x begins the word of x, and the next    *)
(* byte leads to the child above x.                                        *)
LEMMA UpAgree ==
  ASSUME NEW ns, NEW lv, NEW rt, NEW word, Tree(ns, lv, rt, word),
         NEW x \in Ptrs(ns, lv), NEW c \in Up(ns, lv, x), c \in DOMAIN ns
  PROVE  /\ Agree(word[c], Word(word, x)) /\ Len(word[c]) <= Len(Word(word, x))
         /\ c # x /\ x \in DOMAIN ns => Len(word[c]) < Len(word[x])
         /\ \A e \in Edges(ns, c) : e[2] \in Up(ns, lv, x) =>
              Char(Word(word, x), Len(word[c])) = e[1]
<1>0. OnePointer(ns, lv, rt) /\ Shape(ns, lv)
  BY DEF Tree
<1> DEFINE S == {b \in Ptrs(ns, lv) :
                   /\ Agree(Word(word, b), Word(word, x))
                   /\ b # x /\ x \in DOMAIN ns => Len(Word(word, b)) < Len(Word(word, x))
                   /\ b # x => b \in DOMAIN ns}
<1>1. x \in S
  BY AgreeSelf
<1>2. ASSUME NEW p \in DOMAIN ns, NEW e \in Edges(ns, p), e[2] \in S PROVE p \in S
  <2>1. p \in Ptrs(ns, lv) /\ e[2] \in Ptrs(ns, lv)
    BY <1>0, EdgeFacts DEF Ptrs
  <2>2. /\ Word(word, p) = word[p] /\ word[p] \in Words
        /\ Word(word, e[2]) \in Words /\ Word(word, x) \in Words
        /\ Agree(word[p], Word(word, e[2]))
    BY <2>1, TreeFacts
  <2>3. Agree(word[p], Word(word, x))
    BY <1>2, <2>2, AgreeTrans
  <2>4. ASSUME x \in DOMAIN ns PROVE Len(word[p]) < Len(Word(word, x))
    <3>1. e[2] \in DOMAIN ns
      BY <1>2, <2>4
    <3>2. Len(word[p]) < Len(word[e[2]]) /\ Word(word, e[2]) = word[e[2]]
      BY <3>1, TreeFacts
    <3>3. Len(Word(word, e[2])) <= Len(Word(word, x))
      BY <1>2, <2>2, AgreeLen
    <3>4. Len(word[p]) \in Nat /\ Len(Word(word, e[2])) \in Nat /\ Len(Word(word, x)) \in Nat
      BY <2>1, TreeFacts
    <3> QED
      BY <3>2, <3>3, <3>4
  <2> QED
    BY <2>1, <2>2, <2>3, <2>4
<1>3. Up(ns, lv, x) \subseteq S
  <2> HIDE DEF S
  <2>1. S \in SUBSET Ptrs(ns, lv)
    BY DEF S
  <2> QED
    BY <1>1, <1>2, <2>1, UpLeast DEF Climbs
<1>4. Word(word, c) = word[c] /\ Word(word, x) \in Words /\ word[c] \in Words
  BY TreeFacts
<1>5. Agree(word[c], Word(word, x))
  BY <1>3, <1>4
<1>6. Len(word[c]) <= Len(Word(word, x))
  BY <1>5, <1>4, AgreeLen
<1>7. ASSUME c # x, x \in DOMAIN ns PROVE Len(word[c]) < Len(word[x])
  <2>1. Word(word, x) = word[x]
    BY <1>7, TreeFacts
  <2> QED
    BY <2>1, <1>3, <1>4, <1>7
<1>8. ASSUME NEW e \in Edges(ns, c), e[2] \in Up(ns, lv, x)
      PROVE  Char(Word(word, x), Len(word[c])) = e[1]
  <2>1. Char(Word(word, e[2]), Len(word[c])) = e[1]
    BY TreeFacts
  <2>2. e[2] \in S
    BY <1>3, <1>8
  <2>3. CASE e[2] = x
    BY <2>1, <2>3
  <2>4. CASE e[2] # x
    <3>1. e[2] \in DOMAIN ns
      BY <2>2, <2>4
    <3>2. Len(word[c]) < Len(word[e[2]]) /\ Word(word, e[2]) = word[e[2]]
      BY <3>1, TreeFacts
    <3>3. Len(word[c]) \in 0 .. Len(Word(word, e[2])) - 1
      <4>1. Len(word[c]) \in Nat /\ Len(word[e[2]]) \in Nat
        BY <3>1, TreeFacts
      <4> QED
        BY <3>2, <4>1
    <3>4. Agree(Word(word, e[2]), Word(word, x))
      BY <2>2
    <3> QED
      BY <2>1, <3>3, <3>4 DEF Agree
  <2> QED
    BY <2>3, <2>4
<1> QED
  BY <1>5, <1>6, <1>7, <1>8

(* Two edges of a node do not both lead to x.                              *)
LEMMA UpOneEdge ==
  ASSUME NEW ns, NEW lv, NEW rt, NEW word, Tree(ns, lv, rt, word),
         NEW x \in Ptrs(ns, lv), NEW c \in DOMAIN ns,
         NEW e \in Edges(ns, c), NEW f \in Edges(ns, c),
         e[2] \in Up(ns, lv, x), f[2] \in Up(ns, lv, x)
  PROVE  e = f
<1>1. c \in Up(ns, lv, x)
  BY UpClosed DEF Climbs
<1>2. e[1] = f[1]
  BY <1>1, UpAgree
<1> QED
  BY <1>2, TreeFacts

LEMMA UpAnti ==
  ASSUME NEW ns, NEW lv, NEW rt, NEW word, Tree(ns, lv, rt, word),
         NEW x \in Ptrs(ns, lv), NEW c \in Up(ns, lv, x), x \in Up(ns, lv, c)
  PROVE  c = x
<1> SUFFICES ASSUME c # x PROVE FALSE
  OBVIOUS
<1>1. c \in Ptrs(ns, lv)
  BY UpClosed
<1>2. c \in DOMAIN ns /\ x \in DOMAIN ns
  BY <1>1, UpChild
<1>3. Len(word[c]) < Len(word[x]) /\ Len(word[x]) < Len(word[c])
  BY <1>1, <1>2, UpAgree
<1>4. Len(word[c]) \in Nat /\ Len(word[x]) \in Nat
  BY <1>2, TreeFacts
<1> QED
  BY <1>3, <1>4

-----------------------------------------------------------------------------
(* Reading a node                                                          *)

LEMMA PointersAre == Pointers = Ptrs(nodes, leaves)
  BY DEF Pointers, Ptrs, LeavesOf

LEMMA ChildFacts ==
  ASSUME NEW word, Tree(nodes, leaves, root, word), NEW p \in DOMAIN nodes, NEW b
  PROVE  /\ Child(p, b) = NULL => \A e \in Edges(nodes, p) : e[1] # b
         /\ Child(p, b) # NULL => <<b, Child(p, b)>> \in Edges(nodes, p)
         /\ \A e \in Edges(nodes, p) : e[1] = b => Child(p, b) = e[2]
         /\ Child(p, b) \in Pointers \cup {NULL}
<1> DEFINE led == {e \in Edges(nodes, p) : e[1] = b}
<1>0. Shape(nodes, leaves)
  BY DEF Tree
<1>1. Child(p, b) = IF led = {} THEN NULL ELSE (CHOOSE e \in led : TRUE)[2]
  BY DEF Child, Edges
<1>2. CASE led = {}
  BY <1>1, <1>2
<1>3. ASSUME NEW e \in led
      PROVE  Child(p, b) = e[2] /\ e[2] # NULL /\ e = <<b, e[2]>> /\ e[2] \in Pointers
  <2>1. (CHOOSE f \in led : TRUE) \in led
    BY <1>3
  <2>2. (CHOOSE f \in led : TRUE) = e
    BY <1>3, <2>1, TreeFacts
  <2>3. e = <<e[1], e[2]>> /\ e[2] \in Ptrs(nodes, leaves) /\ e[1] = b
    BY <1>0, EdgeFacts
  <2>4. e[2] # NULL /\ e[2] \in Pointers
    BY <1>0, <2>3, ShapeFacts, PointersAre
  <2>5. led # {}
    BY <1>3
  <2>6. Child(p, b) = (CHOOSE f \in led : TRUE)[2]
    BY <1>1, <2>5
  <2>7. Child(p, b) = e[2]
    <3> HIDE DEF led
    <3> QED
      BY <2>2, <2>6
  <2> QED
    BY <2>3, <2>4, <2>7
<1> QED
  BY <1>2, <1>3

LEMMA PrefixFacts ==
  ASSUME Shape(nodes, leaves), NEW p \in DOMAIN nodes, NEW k, NEW d \in Nat
  PROVE  LET s == check_prefix(p, k, d)
             saved == nodes[p].prefix
         IN  /\ s \in 0 .. Len(saved)
             /\ \A i \in 0 .. s - 1 : saved[i + 1] = Char(k, d + i)
             /\ s < Len(saved) => saved[s + 1] # Char(k, d + s)
<1> DEFINE saved == nodes[p].prefix
           off == {i \in 0 .. Len(saved) - 1 : saved[i + 1] # Char(k, d + i)}
           S == {Len(saved)} \cup off
           s == check_prefix(p, k, d)
<1>1. Len(saved) \in Nat
  BY EdgeFacts
<1>2. s = Min(S)
  BY DEF check_prefix
<1>3. S \in SUBSET Nat /\ S # {}
  BY <1>1
<1>4. s \in S /\ \A y \in S : s <= y
  <2> HIDE DEF S, s
  <2> QED
    BY <1>2, <1>3, MinFacts
<1>5. s \in 0 .. Len(saved)
  BY <1>1, <1>4
<1>6. ASSUME NEW i \in 0 .. s - 1 PROVE saved[i + 1] = Char(k, d + i)
  <2>1. i \notin S
    <3> HIDE DEF S, s
    <3> QED
      BY <1>1, <1>4, <1>5
  <2>2. i \in 0 .. Len(saved) - 1
    BY <1>1, <1>5
  <2> QED
    BY <2>1, <2>2
<1>7. ASSUME s < Len(saved) PROVE saved[s + 1] # Char(k, d + s)
  <2>1. s \in off
    <3> HIDE DEF off, s
    <3> QED
      BY <1>1, <1>4, <1>7
  <2> QED
    BY <2>1
<1> QED
  BY <1>5, <1>6, <1>7

LEMMA SavedFacts ==
  ASSUME NEW k \in Words, NEW from \in Nat, NEW len \in Nat
  PROVE  LET s == Saved(k, from, len)
         IN  /\ s \in Seq(Bytes) /\ Len(s) \in Nat
             /\ Len(s) <= len /\ Len(s) <= MaxPrefix
             /\ Len(s) = MaxPrefix \/ Len(s) = len
             /\ \A i \in 0 .. Len(s) - 1 : s[i + 1] = Char(k, from + i)
<1> DEFINE n == Min({len, MaxPrefix})
<1>1. MaxPrefix \in Nat
  BY Constants
<1>2. n \in {len, MaxPrefix} /\ n <= len /\ n <= MaxPrefix
  <2> HIDE DEF n
  <2>1. {len, MaxPrefix} \in SUBSET Nat
    BY <1>1
  <2> QED
    BY <2>1, MinFacts DEF n
<1>3. n \in Nat
  BY <1>1, <1>2
<1> HIDE DEF n
<1>4. Saved(k, from, len) = [i \in 1 .. n |-> Char(k, from + i - 1)]
  BY DEF Saved, n
<1>5. \A i \in 1 .. n : Char(k, from + i - 1) \in Bytes
  BY <1>3, CharFacts
<1>6. Saved(k, from, len) \in [1 .. n -> Bytes]
  BY <1>4, <1>5
<1>7. Saved(k, from, len) \in Seq(Bytes) /\ Len(Saved(k, from, len)) = n
  BY <1>3, <1>6
<1>8. ASSUME NEW i \in 0 .. n - 1 PROVE Saved(k, from, len)[i + 1] = Char(k, from + i)
  <2>1. i + 1 \in 1 .. n /\ from + (i + 1) - 1 = from + i
    BY <1>3
  <2> QED
    BY <1>4, <2>1
<1> QED
  BY <1>2, <1>3, <1>7, <1>8

(* Words are bounded.                                                      *)
LEMMA BoundExists ==
  ASSUME NEW S, IsFiniteSet(S), NEW num, \A x \in S : num[x] \in Nat
  PROVE  \E top \in Nat : \A x \in S : num[x] <= top
<1> SUFFICES ASSUME ~\E top \in Nat : \A x \in S : num[x] <= top PROVE FALSE
  OBVIOUS
<1> DEFINE Bad(T) == T \in SUBSET S /\ ~\E top \in Nat : \A x \in T : num[x] <= top
           D == {n \in Nat : \E T : Bad(T) /\ Cardinality(T) = n}
<1>1. PICK n \in D : \A m \in D : n <= m
  <2>1. Cardinality(S) \in D
    BY FS_CardinalityType
  <2>2. D \in SUBSET Nat /\ D # {}
    BY <2>1
  <2> HIDE DEF D
  <2> QED
    BY <2>2, LeastNumber
<1>2. PICK T : Bad(T) /\ Cardinality(T) = n
  BY <1>1
<1>3. IsFiniteSet(T) /\ n \in Nat
  BY <1>1, <1>2, FS_Subset
<1>4. T # {}
  <2>1. 0 \in Nat
    OBVIOUS
  <2> QED
    BY <1>2, <2>1
<1>5. PICK x : x \in T
  BY <1>4
<1>6. Cardinality(T \ {x}) = n - 1 /\ n # 0
  BY <1>2, <1>3, <1>4, <1>5, FS_RemoveElement, FS_EmptySet
<1>7. ~Bad(T \ {x})
  <2> HIDE DEF Bad
  <2>1. n - 1 \in Nat /\ ~(n <= n - 1)
    BY <1>3, <1>6
  <2>2. n - 1 \notin D
    BY <1>1, <2>1
  <2> QED
    BY <1>6, <2>1, <2>2
<1>8. PICK top \in Nat : \A y \in T \ {x} : num[y] <= top
  BY <1>2, <1>7
<1>9. num[x] \in Nat
  BY <1>2, <1>5
<1>10. \A y \in T : num[y] <= top + num[x]
  <2> TAKE y \in T
  <2>1. num[y] \in Nat
    BY <1>2
  <2>2. CASE y = x
    BY <2>2, <1>9
  <2>3. CASE y # x
    BY <2>1, <2>3, <1>8, <1>9
  <2> QED
    BY <2>2, <2>3
<1>11. top + num[x] \in Nat
  BY <1>9
<1> QED
  BY <1>2, <1>10, <1>11

LEMMA FiniteNodes ==
  ASSUME NEW ns, NEW lv, Shape(ns, lv)
  PROVE  IsFiniteSet(DOMAIN ns)
<1>1. IsFiniteSet(Tiers \X (1 .. NodesPerTier))
  <2>0. 1 \in Int /\ 4 \in Int /\ NodesPerTier \in Int
    BY Constants
  <2>1. IsFiniteSet(1 .. 4) /\ IsFiniteSet(1 .. NodesPerTier)
    BY <2>0, FS_Interval
  <2> QED
    BY <2>1, FS_Product DEF Tiers
<1> QED
  BY <1>1, FS_Subset DEF Shape, Addresses

LEMMA WordBound ==
  ASSUME NEW ns, NEW lv, NEW rt, NEW word, Tree(ns, lv, rt, word)
  PROVE  \E top \in Nat : \A p \in DOMAIN ns : Len(word[p]) <= top
<1> DEFINE num == [p \in DOMAIN ns |-> Len(word[p])]
<1>1. IsFiniteSet(DOMAIN ns)
  BY FiniteNodes DEF Tree
<1>2. \A p \in DOMAIN ns : num[p] \in Nat
  BY TreeFacts
<1>3. \E top \in Nat : \A p \in DOMAIN ns : num[p] <= top
  <2> HIDE DEF num
  <2> QED
    BY <1>1, <1>2, BoundExists
<1> QED
  BY <1>3

-----------------------------------------------------------------------------
(* The first leaf below a node                                             *)

FirstEnds == {q \in Pointers : IsLeaf(q) \/ nodes[q].edges = <<>>}
FirstNext == [q \in Pointers |-> nodes[q].edges[1][2]]
FirstRes == [q \in Pointers |-> IF IsLeaf(q) THEN q ELSE NULL]
FirstLaw(f) == Continues(Pointers, FirstEnds, FirstNext, FirstRes, f)

LEMMA FirstIs ==
  ASSUME NEW p
  PROVE  find_minimum_leaf(p) =
           (CHOOSE f : f = [q \in Pointers |->
              IF IsLeaf(q) THEN q
              ELSE IF nodes[q].edges = <<>> THEN NULL ELSE f[nodes[q].edges[1][2]]])[p]
  BY DEF find_minimum_leaf

LEMMA FirstRecursion ==
  ASSUME Shape(nodes, leaves), NEW q \in Pointers
  PROVE  find_minimum_leaf(q) =
           IF IsLeaf(q) THEN q
           ELSE IF nodes[q].edges = <<>> THEN NULL
           ELSE find_minimum_leaf(nodes[q].edges[1][2])
<1> DEFINE law(f) == f = [r \in Pointers |->
              IF IsLeaf(r) THEN r
              ELSE IF nodes[r].edges = <<>> THEN NULL ELSE f[nodes[r].edges[1][2]]]
<1>1. ASSUME NEW r \in Pointers, r \notin FirstEnds PROVE FirstNext[r] \in Pointers
  <2>1. r \in DOMAIN nodes /\ nodes[r].edges # <<>>
    BY <1>1, ShapeFacts, PointersAre DEF FirstEnds
  <2>2. 1 \in DOMAIN nodes[r].edges
    <3>1. nodes[r].edges \in Seq(Bytes \X Ptrs(nodes, leaves))
      BY <2>1 DEF Shape, Nodes
    <3> QED
      BY <2>1, <3>1
  <2>3. nodes[r].edges[1][2] \in Pointers
    BY <2>1, <2>2, EdgeFacts, PointersAre
  <2> QED
    BY <2>3 DEF FirstNext
<1>2. \E f : FirstLaw(f)
  <2>1. \A x \in Pointers : x \notin FirstEnds => FirstNext[x] \in Pointers
    BY <1>1
  <2> QED
    BY <2>1, TailRecursion DEF FirstLaw
<1>3. \A f : FirstLaw(f) <=> law(f)
  BY DEF FirstLaw, Continues, FirstEnds, FirstNext, FirstRes
<1>4. law(CHOOSE f : law(f))
  <2>1. \E f : law(f)
    BY <1>2, <1>3
  <2> HIDE DEF law
  <2> QED
    BY <2>1
<1>5. \A r : find_minimum_leaf(r) = (CHOOSE f : law(f))[r]
  BY FirstIs
<1> DEFINE g == CHOOSE f : law(f)
<1>6. law(g)
  BY <1>4
<1>7. \A r : find_minimum_leaf(r) = g[r]
  BY <1>5
<1> HIDE DEF g
<1> QED
  BY <1>6, <1>7

(* It is a leaf, and the node is above it; or there is none.               *)
LEMMA FirstFacts ==
  ASSUME NEW word, Tree(nodes, leaves, root, word), NEW p \in Pointers
  PROVE  \/ find_minimum_leaf(p) = NULL
         \/ /\ find_minimum_leaf(p) \in LeavesOf(leaves)
            /\ p \in Up(nodes, leaves, find_minimum_leaf(p))
<1> DEFINE good(r) == \/ find_minimum_leaf(r) = NULL
                      \/ /\ find_minimum_leaf(r) \in LeavesOf(leaves)
                         /\ r \in Up(nodes, leaves, find_minimum_leaf(r))
<1>0. Shape(nodes, leaves)
  BY DEF Tree
<1>1. ASSUME NEW r \in Pointers, IsLeaf(r) PROVE good(r)
  <2>1. find_minimum_leaf(r) = r
    BY <1>0, <1>1, FirstRecursion
  <2>2. r \in LeavesOf(leaves)
    BY <1>0, <1>1, ShapeFacts, PointersAre
  <2>3. r \in Up(nodes, leaves, r)
    BY UpClosed, PointersAre
  <2> QED
    BY <2>1, <2>2, <2>3
<1> DEFINE B == {r \in DOMAIN nodes : ~good(r)}
           num == [r \in B |-> Len(word[r])]
<1>2. B = {}
  <2> SUFFICES ASSUME B # {} PROVE FALSE
    OBVIOUS
  <2>1. PICK top \in Nat : \A r \in DOMAIN nodes : Len(word[r]) <= top
    BY WordBound
  <2>2. \A r \in B : num[r] \in Nat /\ num[r] <= top
    BY <2>1, TreeFacts
  <2>3. PICK m \in B : \A r \in B : num[r] <= num[m]
    <3> HIDE DEF num, B
    <3> QED
      BY <2>2, LargestOf
  <2>4. m \in Pointers /\ ~IsLeaf(m)
    BY <1>0, ShapeFacts, PointersAre DEF Ptrs
  <2>5. nodes[m].edges # <<>>
    BY <1>0, <2>4, FirstRecursion
  <2> DEFINE c == nodes[m].edges[1][2]
  <2>6. find_minimum_leaf(m) = find_minimum_leaf(c)
    BY <1>0, <2>4, <2>5, FirstRecursion
  <2>7. nodes[m].edges[1] \in Edges(nodes, m) /\ c \in Pointers
    <3>1. nodes[m].edges \in Seq(Bytes \X Ptrs(nodes, leaves))
      BY <1>0 DEF Shape, Nodes
    <3>2. 1 \in DOMAIN nodes[m].edges
      BY <2>5, <3>1
    <3> QED
      BY <1>0, <3>2, EdgeFacts, PointersAre
  <2>8. good(c)
    <3>1. CASE IsLeaf(c)
      BY <1>1, <2>7, <3>1
    <3>2. CASE ~IsLeaf(c)
      <4>1. c \in DOMAIN nodes
        BY <1>0, <2>7, <3>2, ShapeFacts, PointersAre
      <4>2. Len(word[m]) < Len(word[c]) /\ Len(word[m]) \in Nat /\ Len(word[c]) \in Nat
        BY <2>7, <4>1, TreeFacts
      <4>3. c \notin B
        <5>1. c \in B => num[c] <= num[m]
          BY <2>3
        <5> QED
          BY <5>1, <4>2
      <4> QED
        BY <4>1, <4>3
    <3> QED
      BY <3>1, <3>2
  <2>9. good(m)
    <3>1. CASE find_minimum_leaf(c) = NULL
      BY <2>6, <3>1
    <3>2. CASE find_minimum_leaf(c) # NULL
      <4> DEFINE l == find_minimum_leaf(c)
      <4>1. l \in LeavesOf(leaves) /\ c \in Up(nodes, leaves, l)
        BY <2>8, <3>2
      <4>2. l \in Ptrs(nodes, leaves)
        BY <4>1 DEF Ptrs
      <4>3. m \in Up(nodes, leaves, l)
        <5> HIDE DEF l
        <5> QED
          BY <4>1, <4>2, <2>7, UpClosed DEF Climbs
      <4> QED
        BY <2>6, <4>1, <4>3
    <3> QED
      BY <3>1, <3>2
  <2> QED
    BY <2>9
<1>3. CASE IsLeaf(p)
  BY <1>1, <1>3
<1>4. CASE ~IsLeaf(p)
  BY <1>0, <1>2, <1>4, ShapeFacts, PointersAre
<1> QED
  BY <1>3, <1>4

-----------------------------------------------------------------------------
(* The walk along a key                                                    *)

Paths == Seq(Places) \ {<<>>}
Halts(ends) == \A at \in Places : at[1] = NULL \/ IsLeaf(at[1]) => at \in ends
PathEnds(ends) == {path \in Paths : Last(path) \in ends}
PathNext(k) == [path \in Paths |-> Append(path, Onward(k, Last(path)))]
Same == [path \in Paths |-> path]
FollowLaw(k, ends, f) == Continues(Paths, PathEnds(ends), PathNext(k), Same, f)

LEMMA LastPlace ==
  ASSUME NEW path \in Paths
  PROVE  /\ Len(path) \in Nat \ {0} /\ path \in Seq(Places) /\ Last(path) \in Places
         /\ Last(path) = path[Len(path)]
         /\ Last(path)[1] \in Pointers \cup {NULL} /\ Last(path)[2] \in Nat
<1>1. path \in Seq(Places) /\ path # <<>>
  BY DEF Paths
<1>2. Len(path) \in Nat \ {0}
  BY <1>1, EmptySeq
<1>3. path[Len(path)] \in Places
  BY <1>1, <1>2, ElementOfSeq
<1> QED
  BY <1>1, <1>2, <1>3 DEF Last, Places

LEMMA PathStep ==
  ASSUME NEW word, Tree(nodes, leaves, root, word), NEW k \in Words, NEW at \in Places,
         at[1] # NULL, ~IsLeaf(at[1])
  PROVE  at[1] \in DOMAIN nodes /\ Onward(k, at) \in Places
<1>0. Shape(nodes, leaves)
  BY DEF Tree
<1>1. at[1] \in Pointers /\ at[2] \in Nat
  BY DEF Places
<1>2. at[1] \in DOMAIN nodes
  BY <1>0, <1>1, ShapeFacts, PointersAre
<1>3. nodes[at[1]].prefix_len \in Nat
  BY <1>0, <1>2, EdgeFacts
<1>4. \A b : Child(at[1], b) \in Pointers \cup {NULL}
  BY <1>2, ChildFacts
<1> QED
  BY <1>1, <1>2, <1>3, <1>4 DEF Onward, Places

LEMMA FollowIs ==
  ASSUME NEW k, NEW ends
  PROVE  Follow(k, ends) =
           (CHOOSE f : f = [path \in Seq(Places) \ {<<>>} |->
              IF Last(path) \in ends THEN path
              ELSE f[Append(path, Onward(k, Last(path)))]])[Start]
  BY DEF Follow

LEMMA FollowRecursion ==
  ASSUME NEW word, Tree(nodes, leaves, root, word), NEW k \in Words, NEW ends, Halts(ends)
  PROVE  \E f : /\ Follow(k, ends) = f[Start]
                /\ \A path \in Paths : f[path] =
                     IF Last(path) \in ends THEN path
                     ELSE f[Append(path, Onward(k, Last(path)))]
<1> DEFINE law(f) == f = [path \in Seq(Places) \ {<<>>} |->
              IF Last(path) \in ends THEN path
              ELSE f[Append(path, Onward(k, Last(path)))]]
<1>1. ASSUME NEW path \in Paths, path \notin PathEnds(ends) PROVE PathNext(k)[path] \in Paths
  <2>1. Last(path) \in Places /\ Last(path) \notin ends /\ path \in Seq(Places)
    BY <1>1, LastPlace DEF PathEnds
  <2>2. Onward(k, Last(path)) \in Places
    <3>1. Last(path)[1] # NULL /\ ~IsLeaf(Last(path)[1])
      BY <2>1 DEF Halts
    <3> QED
      BY <2>1, <3>1, PathStep
  <2>3. Append(path, Onward(k, Last(path))) \in Seq(Places)
    BY <2>1, <2>2, AppendProperties
  <2>4. Append(path, Onward(k, Last(path))) # <<>>
    BY <2>1, <2>2, AppendProperties
  <2> QED
    BY <2>3, <2>4 DEF PathNext, Paths
<1>2. \E f : FollowLaw(k, ends, f)
  <2>1. \A path \in Paths : path \notin PathEnds(ends) => PathNext(k)[path] \in Paths
    BY <1>1
  <2> QED
    BY <2>1, TailRecursion DEF FollowLaw
<1>3. \A f : FollowLaw(k, ends, f) <=> law(f)
  BY DEF FollowLaw, Continues, PathEnds, PathNext, Same, Paths
<1>4. law(CHOOSE f : law(f))
  <2>1. \E f : law(f)
    BY <1>2, <1>3
  <2> HIDE DEF law
  <2> QED
    BY <2>1
<1> DEFINE g == CHOOSE f : law(f)
<1>5. Follow(k, ends) = g[Start]
  BY FollowIs
<1>6. law(g)
  BY <1>4
<1> HIDE DEF g
<1>7. \A path \in Paths : g[path] = IF Last(path) \in ends THEN path
                                    ELSE g[Append(path, Onward(k, Last(path)))]
  BY <1>6 DEF Paths
<1> QED
  BY <1>5, <1>7

(* A walk from the root that has not met the ends.                         *)
Trail(k, ends, path) ==
  /\ path \in Paths /\ path[1] = <<root, 0>>
  /\ \A i \in 1 .. Len(path) - 1 : path[i] \notin ends /\ path[i + 1] = Onward(k, path[i])

LEMMA TrailStep ==
  ASSUME NEW word, Tree(nodes, leaves, root, word), NEW k \in Words, NEW ends, Halts(ends),
         NEW path, Trail(k, ends, path), Last(path) \notin ends
  PROVE  /\ Trail(k, ends, Append(path, Onward(k, Last(path))))
         /\ Last(path)[1] \in DOMAIN nodes
<1> DEFINE new == Onward(k, Last(path))
<1>1. path \in Paths
  BY DEF Trail
<1>2. /\ Len(path) \in Nat \ {0} /\ path \in Seq(Places) /\ Last(path) \in Places
      /\ Last(path) = path[Len(path)]
  BY <1>1, LastPlace
<1>3. Last(path)[1] # NULL /\ ~IsLeaf(Last(path)[1])
  BY <1>2 DEF Halts
<1>4. new \in Places /\ Last(path)[1] \in DOMAIN nodes
  BY <1>2, <1>3, PathStep
<1> HIDE DEF new
<1>5. /\ Append(path, new) \in Seq(Places) /\ Append(path, new) # <<>>
      /\ Len(Append(path, new)) = Len(path) + 1
      /\ \A i \in 1 .. Len(path) : Append(path, new)[i] = path[i]
      /\ Append(path, new)[Len(path) + 1] = new
  BY <1>2, <1>4, AppendProperties
<1>6. Append(path, new)[1] = <<root, 0>>
  BY <1>2, <1>5 DEF Trail
<1>7. ASSUME NEW i \in 1 .. Len(Append(path, new)) - 1
      PROVE  /\ Append(path, new)[i] \notin ends
             /\ Append(path, new)[i + 1] = Onward(k, Append(path, new)[i])
  <2>1. CASE i = Len(path)
    BY <2>1, <1>2, <1>5 DEF new
  <2>2. CASE i # Len(path)
    <3>1. i \in 1 .. Len(path) - 1 /\ i \in 1 .. Len(path) /\ i + 1 \in 1 .. Len(path)
      BY <1>2, <1>5, <2>2
    <3> QED
      BY <3>1, <1>5 DEF Trail
  <2> QED
    BY <2>1, <2>2
<1>8. Trail(k, ends, Append(path, new))
  BY <1>5, <1>6, <1>7 DEF Trail, Paths
<1> QED
  BY <1>4, <1>8 DEF new

(* A node on the walk is at its depth, and the next byte of the key leads  *)
(* on.                                                                     *)
LEMMA OnTrail ==
  ASSUME NEW word, Tree(nodes, leaves, root, word), NEW k \in Words, NEW ends, Halts(ends),
         NEW path, Trail(k, ends, path), NEW i \in 1 .. Len(path)
  PROVE  /\ path[i][1] \in DOMAIN nodes => path[i][2] = Depth(nodes, word, path[i][1])
         /\ path[i] \in Places
         /\ i > 1 => LET q == path[i - 1][1]
                     IN  /\ q \in DOMAIN nodes /\ path[i][2] = Len(word[q]) + 1
                         /\ path[i][1] = Child(q, Char(k, Len(word[q])))
                         /\ path[i - 1] \notin ends
<1> DEFINE good(j) ==
      /\ path[j][1] \in DOMAIN nodes => path[j][2] = Depth(nodes, word, path[j][1])
      /\ j > 1 => LET q == path[j - 1][1]
                  IN  /\ q \in DOMAIN nodes /\ path[j][2] = Len(word[q]) + 1
                      /\ path[j][1] = Child(q, Char(k, Len(word[q])))
                      /\ path[j - 1] \notin ends
<1>0. Shape(nodes, leaves) /\ path \in Paths
  BY DEF Tree, Trail
<1>1. Len(path) \in Nat \ {0} /\ path \in Seq(Places)
  BY <1>0, LastPlace
<1>2. \A j \in 1 .. Len(path) : path[j] \in Places
  BY <1>1, ElementOfSeq
<1>3. good(1)
  <2>1. path[1][1] = root /\ path[1][2] = 0
    BY DEF Trail
  <2>2. root \in DOMAIN nodes => Depth(nodes, word, root) = 0
    BY DEF Tree
  <2> QED
    BY <2>1, <2>2
<1>4. ASSUME NEW j \in 1 .. Len(path), j > 1, good(j - 1) PROVE good(j)
  <2> DEFINE q == path[j - 1][1]
  <2>1. j - 1 \in 1 .. Len(path) - 1 /\ j - 1 \in 1 .. Len(path) /\ (j - 1) + 1 = j
    <3>1. j \in Nat /\ j > 1 /\ j <= Len(path) /\ Len(path) \in Nat
      BY <1>1, <1>4
    <3> HIDE DEF good
    <3> QED
      BY <3>1
  <2>2. path[j - 1] \notin ends /\ path[j] = Onward(k, path[j - 1])
    BY <2>1 DEF Trail
  <2>3. path[j - 1] \in Places
    BY <2>1, <1>2
  <2>4. q # NULL /\ ~IsLeaf(q)
    BY <2>2, <2>3 DEF Halts
  <2>5. q \in DOMAIN nodes
    BY <2>3, <2>4, PathStep
  <2>6. path[j - 1][2] = Depth(nodes, word, q)
    BY <1>4, <2>5
  <2>7. Len(word[q]) \in Nat /\ nodes[q].prefix_len \in Nat
    BY <1>0, <2>5, TreeFacts, EdgeFacts
  <2>8. path[j - 1][2] + nodes[q].prefix_len = Len(word[q])
    BY <2>6, <2>7 DEF Depth
  <2>9. path[j] = <<Child(q, Char(k, Len(word[q]))), Len(word[q]) + 1>>
    BY <2>2, <2>8 DEF Onward
  <2>10. path[j][1] \in DOMAIN nodes => path[j][2] = Depth(nodes, word, path[j][1])
    <3> SUFFICES ASSUME path[j][1] \in DOMAIN nodes PROVE path[j][2] = Depth(nodes, word, path[j][1])
      OBVIOUS
    <3> DEFINE b == Char(k, Len(word[q]))
    <3>1. Child(q, b) # NULL /\ Child(q, b) = path[j][1]
      BY <1>0, <2>9, ShapeFacts DEF Ptrs
    <3>2. <<b, Child(q, b)>> \in Edges(nodes, q)
      BY <2>5, <3>1, ChildFacts
    <3>3. Leads(nodes, word, q, <<b, Child(q, b)>>)
      BY <2>5, <3>2 DEF Tree
    <3>4. ~IsLeaf(Child(q, b))
      BY <1>0, <3>1, ShapeFacts
    <3> QED
      BY <2>9, <3>1, <3>3, <3>4 DEF Leads
  <2> QED
    BY <2>2, <2>5, <2>9, <2>10
<1>5. \A j \in Nat : j \in 1 .. Len(path) => good(j)
  <2> SUFFICES ASSUME NEW m \in 1 .. Len(path), ~good(m) PROVE FALSE
    OBVIOUS
  <2> DEFINE D == {j \in Nat : j \in 1 .. Len(path) /\ ~good(j)}
  <2>1. D \in SUBSET Nat /\ m \in D
    OBVIOUS
  <2>2. PICK j \in D : \A n \in D : j <= n
    <3> HIDE DEF D
    <3> QED
      BY <2>1, LeastNumber
  <2>3. j # 1
    BY <1>3, <2>2
  <2>4. j - 1 \in 1 .. Len(path) /\ j - 1 \in Nat /\ ~(j <= j - 1)
    BY <2>2, <2>3, <1>1
  <2>5. good(j - 1)
    BY <2>2, <2>4
  <2>6. good(j)
    BY <2>2, <2>3, <2>5, <1>4
  <2> QED
    BY <2>2, <2>6
<1> HIDE DEF good
<1>6. good(i)
  BY <1>1, <1>5
<1> QED
  BY <1>2, <1>6 DEF good

(* The walk ends.                                                          *)
LEMMA FollowFacts ==
  ASSUME NEW word, Tree(nodes, leaves, root, word), NEW k \in Words, NEW ends, Halts(ends)
  PROVE  Trail(k, ends, Follow(k, ends)) /\ Last(Follow(k, ends)) \in ends
<1>0. PICK f : /\ Follow(k, ends) = f[Start]
               /\ \A path \in Paths : f[path] =
                     IF Last(path) \in ends THEN path
                     ELSE f[Append(path, Onward(k, Last(path)))]
  BY FollowRecursion
<1> DEFINE good(path) == Trail(k, ends, f[path]) /\ Last(f[path]) \in ends
           B == {path \in Paths : Trail(k, ends, path) /\ ~good(path)}
           num == [path \in B |-> Len(word[Last(path)[1]])]
<1>1. ASSUME NEW path \in B
      PROVE  /\ Last(path) \notin ends /\ Last(path)[1] \in DOMAIN nodes
             /\ Append(path, Onward(k, Last(path))) \in B
  <2>1. Last(path) \notin ends
    <3> SUFFICES ASSUME Last(path) \in ends PROVE FALSE
      OBVIOUS
    <3>1. f[path] = path
      BY <1>0
    <3> QED
      BY <3>1
  <2>2. f[path] = f[Append(path, Onward(k, Last(path)))]
    BY <1>0, <2>1
  <2>3. /\ Trail(k, ends, Append(path, Onward(k, Last(path))))
        /\ Last(path)[1] \in DOMAIN nodes
    BY <2>1, TrailStep
  <2> QED
    BY <2>1, <2>2, <2>3 DEF Trail
<1>2. B = {}
  <2> SUFFICES ASSUME B # {} PROVE FALSE
    OBVIOUS
  <2>1. PICK top \in Nat : \A r \in DOMAIN nodes : Len(word[r]) <= top
    BY WordBound
  <2>2. \A path \in B : num[path] \in Nat /\ num[path] <= top
    BY <1>1, <2>1, TreeFacts
  <2>3. PICK m \in B : \A path \in B : num[path] <= num[m]
    <3> HIDE DEF num, B
    <3> QED
      BY <2>2, LargestOf
  <2> DEFINE n == Append(m, Onward(k, Last(m)))
  <2>4. n \in B /\ Last(m)[1] \in DOMAIN nodes /\ Last(m) \notin ends
    BY <1>1
  <2>5. Last(n)[1] \in DOMAIN nodes
    <3> HIDE DEF n
    <3> QED
      BY <1>1, <2>4
  <2>6. m \in Paths /\ n \in Paths /\ Trail(k, ends, n)
    BY <2>4
  <2>7. Len(n) = Len(m) + 1 /\ n[Len(m)] = Last(m) /\ Len(m) \in Nat \ {0}
    <3>1. m \in Seq(Places) /\ Len(m) \in Nat \ {0} /\ Last(m) = m[Len(m)] /\ Last(m) \in Places
      BY <2>6, LastPlace
    <3>2. Onward(k, Last(m)) \in Places
      <4>1. Last(m)[1] # NULL /\ ~IsLeaf(Last(m)[1])
        BY <2>4, <3>1 DEF Halts
      <4> QED
        BY <3>1, <4>1, PathStep
    <3> QED
      BY <3>1, <3>2, AppendProperties
  <2> HIDE DEF n
  <2>8. Last(n) = n[Len(n)]
    BY <2>6, LastPlace
  <2> DEFINE q == Last(m)[1]
             b == Char(k, Len(word[q]))
  <2>9. Last(n)[1] = Child(q, b)
    <3>1. Len(n) \in 1 .. Len(n) /\ Len(n) > 1 /\ Len(n) - 1 = Len(m)
      BY <2>7
    <3> QED
      BY <2>6, <2>7, <2>8, <3>1, OnTrail
  <2>10. <<b, Last(n)[1]>> \in Edges(nodes, q)
    <3>1. Child(q, b) # NULL
      <4>1. Shape(nodes, leaves)
        BY DEF Tree
      <4> QED
        BY <4>1, <2>5, <2>9, ShapeFacts DEF Ptrs
    <3> QED
      BY <2>4, <2>9, <3>1, ChildFacts
  <2>11. Len(word[q]) < Len(word[Last(n)[1]])
    BY <2>4, <2>5, <2>10, TreeFacts
  <2>12. num[n] <= num[m] /\ num[n] = Len(word[Last(n)[1]]) /\ num[m] = Len(word[q])
    BY <2>3, <2>4
  <2>13. Len(word[q]) \in Nat /\ Len(word[Last(n)[1]]) \in Nat
    BY <2>4, <2>5, TreeFacts
  <2> QED
    BY <2>11, <2>12, <2>13
<1>3. Start \in Paths /\ Trail(k, ends, Start)
  <2>1. root \in Pointers \cup {NULL}
    BY PointersAre DEF Tree, OnePointer
  <2>2. <<root, 0>> \in Places
    BY <2>1 DEF Places
  <2>3. Start \in Seq(Places) /\ Len(Start) = 1 /\ Start[1] = <<root, 0>> /\ Start # <<>>
    BY <2>2 DEF Start
  <2>4. 1 .. Len(Start) - 1 = {}
    BY <2>3
  <2> QED
    BY <2>3, <2>4 DEF Trail, Paths
<1>4. good(Start)
  BY <1>2, <1>3
<1> QED
  BY <1>0, <1>4

(* The node with the pointer to p, NULL for the root's.                    *)
Above(up, p) ==
  \/ up = NULL /\ root = p
  \/ up \in DOMAIN nodes /\ root # p /\ \E b : <<b, p>> \in Edges(nodes, up)

LEMMA TrailAbove ==
  ASSUME NEW word, Tree(nodes, leaves, root, word), NEW k \in Words, NEW ends, Halts(ends),
         NEW path, Trail(k, ends, path), NEW i \in 1 .. Len(path), path[i][1] # NULL
  PROVE  /\ i = 1 => Above(NULL, path[i][1])
         /\ i > 1 => /\ path[i - 1][1] \in DOMAIN nodes /\ Above(path[i - 1][1], path[i][1])
                     /\ LET q == path[i - 1][1]
                        IN  <<Char(k, Len(word[q])), path[i][1]>> \in Edges(nodes, q)
<1>1. CASE i = 1
  <2>1. path[1][1] = root
    BY DEF Trail
  <2> QED
    BY <1>1, <2>1 DEF Above
<1>2. CASE i > 1
  <2> DEFINE q == path[i - 1][1]
             b == Char(k, Len(word[q]))
  <2>1. q \in DOMAIN nodes /\ path[i][1] = Child(q, b)
    BY <1>2, OnTrail
  <2>2. <<b, path[i][1]>> \in Edges(nodes, q)
    <3> HIDE DEF q, b
    <3> QED
      BY <2>1, ChildFacts
  <2>3. path[i][1] # root
    <3>1. OnePointer(nodes, leaves, root)
      BY DEF Tree
    <3>2. <<b, path[i][1]>>[2] = path[i][1]
      OBVIOUS
    <3> HIDE DEF q, b
    <3> QED
      BY <2>1, <2>2, <3>1, <3>2 DEF OnePointer
  <2>4. Above(q, path[i][1])
    <3>1. \E a : <<a, path[i][1]>> \in Edges(nodes, q)
      BY <2>2
    <3> HIDE DEF q, b
    <3> QED
      BY <2>1, <2>3, <3>1 DEF Above
  <2> QED
    BY <1>2, <2>1, <2>2, <2>4
<1> QED
  BY <1>1, <1>2

LEMMA BehindFacts ==
  ASSUME NEW word, Tree(nodes, leaves, root, word), NEW k \in Words, NEW ends, Halts(ends),
         NEW path, Trail(k, ends, path), Last(path)[1] # NULL
  PROVE  LET p == Last(path)[1]
             q == Behind(path, 1)
             r == Behind(path, 2)
         IN  /\ Above(q, p)
             /\ q # NULL => /\ q \in DOMAIN nodes /\ Above(r, q)
                            /\ <<Char(k, Len(word[q])), p>> \in Edges(nodes, q)
                            /\ Last(path)[2] = Len(word[q]) + 1
                            /\ path[Len(path) - 1] \notin ends
                            /\ path[Len(path) - 1] \in Places
                            /\ path[Len(path) - 1][1] = q
             /\ q = NULL => Last(path)[2] = 0 /\ p = root
<1>1. path \in Paths
  BY DEF Trail
<1>2. Len(path) \in Nat \ {0} /\ Last(path) = path[Len(path)]
  BY <1>1, LastPlace
<1>3. CASE Len(path) = 1
  <2>1. Behind(path, 1) = NULL
    BY <1>3 DEF Behind
  <2>2. Last(path) = <<root, 0>>
    BY <1>2, <1>3 DEF Trail
  <2>3. Above(NULL, Last(path)[1])
    BY <2>2 DEF Above
  <2> QED
    BY <2>1, <2>2, <2>3
<1>4. CASE Len(path) > 1
  <2> DEFINE n == Len(path)
             q == path[n - 1][1]
  <2>1. n \in 1 .. Len(path) /\ n > 1 /\ n - 1 \in 1 .. Len(path)
    BY <1>2, <1>4
  <2>2. Behind(path, 1) = q
    BY <1>4 DEF Behind
  <2>3. /\ q \in DOMAIN nodes /\ Above(q, path[n][1])
        /\ <<Char(k, Len(word[q])), path[n][1]>> \in Edges(nodes, q)
    <3>1. path[n][1] # NULL
      BY <1>2
    <3> QED
      BY <2>1, <3>1, TrailAbove
  <2>4. path[n][2] = Len(word[q]) + 1 /\ path[n - 1] \notin ends /\ path[n - 1] \in Places
    BY <2>1, OnTrail
  <2>5. q # NULL
    BY <2>3, ShapeFacts DEF Tree, Ptrs
  <2>6. Above(Behind(path, 2), q)
    <3>1. CASE n = 2
      <4>1. Behind(path, 2) = NULL
        BY <3>1 DEF Behind
      <4>2. Above(NULL, path[1][1])
        <5>1. 1 \in 1 .. Len(path) /\ path[1][1] # NULL
          BY <2>1, <2>5, <3>1
        <5> QED
          BY <5>1, TrailAbove
      <4> QED
        BY <3>1, <4>1, <4>2
    <3>2. CASE n > 2
      <4>1. Behind(path, 2) = path[n - 2][1]
        BY <3>2 DEF Behind
      <4>2. n - 1 \in 1 .. Len(path) /\ n - 1 > 1 /\ (n - 1) - 1 = n - 2
        BY <1>2, <3>2
      <4>3. Above(path[(n - 1) - 1][1], path[n - 1][1])
        BY <2>5, <4>2, TrailAbove
      <4> QED
        BY <4>1, <4>2, <4>3
    <3>3. n = 2 \/ n > 2
      <4>1. \A m \in Nat : m > 1 => m = 2 \/ m > 2
        OBVIOUS
      <4>2. n \in Nat /\ n > 1
        BY <1>2, <1>4
      <4> HIDE DEF n
      <4> QED
        BY <4>1, <4>2
    <3> QED
      BY <3>1, <3>2, <3>3
  <2> QED
    BY <1>2, <2>2, <2>3, <2>4, <2>5, <2>6
<1>5. Len(path) = 1 \/ Len(path) > 1
  <2>1. \A m \in Nat \ {0} : m = 1 \/ m > 1
    OBVIOUS
  <2> QED
    BY <1>2, <2>1, Zenon
<1> QED
  BY <1>3, <1>4, <1>5

(* A walk along a key of the tree stays above its leaf.                    *)
LEMMA TrailUp ==
  ASSUME NEW word, Tree(nodes, leaves, root, word), NEW k \in DOMAIN leaves, NEW ends,
         Halts(ends), NEW path, Trail(k, ends, path), NEW i \in 1 .. Len(path)
  PROVE  path[i][1] \in Up(nodes, leaves, Leaf(k))
<1> DEFINE good(j) == path[j][1] \in Up(nodes, leaves, Leaf(k))
<1>0. /\ Shape(nodes, leaves) /\ path \in Paths /\ Len(path) \in Nat \ {0}
      /\ k \in Words /\ Leaf(k) \in Ptrs(nodes, leaves)
  <2>1. Shape(nodes, leaves) /\ path \in Paths
    BY DEF Tree, Trail
  <2>2. k \in Words
    BY <2>1, Constants DEF Shape
  <2>3. Leaf(k) \in Ptrs(nodes, leaves)
    BY <2>1, ShapeFacts
  <2> QED
    BY <2>1, <2>2, <2>3, LastPlace
<1>1. good(1)
  <2>1. path[1][1] = root
    BY DEF Trail
  <2> QED
    BY <2>1, <1>0, UpRoot
<1>2. ASSUME NEW j \in 1 .. Len(path), j > 1, good(j - 1) PROVE good(j)
  <2> DEFINE q == path[j - 1][1]
  <2>1. q \in DOMAIN nodes /\ path[j][1] = Child(q, Char(k, Len(word[q])))
    BY <1>0, <1>2, OnTrail
  <2>2. q # Leaf(k)
    BY <1>0, <2>1, ShapeFacts, PtrFacts
  <2> HIDE DEF q
  <2>3. PICK e \in Edges(nodes, q) : e[2] \in Up(nodes, leaves, Leaf(k))
    BY <1>0, <1>2, <2>2, UpChild DEF q
  <2>4. Char(Word(word, Leaf(k)), Len(word[q])) = e[1]
    BY <1>0, <1>2, <2>1, <2>3, UpAgree DEF q
  <2>5. Word(word, Leaf(k)) = k
    BY PtrFacts DEF Word
  <2>6. Child(q, Char(k, Len(word[q]))) = e[2]
    <3> DEFINE b == Char(k, Len(word[q]))
    <3>1. e[1] = b
      BY <2>4, <2>5
    <3> HIDE DEF b
    <3>2. Child(q, b) = e[2]
      BY <2>1, <2>3, <3>1, ChildFacts
    <3> QED
      BY <3>2 DEF b
  <2> QED
    BY <2>1, <2>3, <2>6
<1> HIDE DEF good
<1>3. \A j \in Nat : j \in 1 .. Len(path) => good(j)
  <2> SUFFICES ASSUME NEW m \in 1 .. Len(path), ~good(m) PROVE FALSE
    OBVIOUS
  <2> DEFINE D == {j \in Nat : j \in 1 .. Len(path) /\ ~good(j)}
  <2>1. D \in SUBSET Nat /\ m \in D
    OBVIOUS
  <2>2. PICK j \in D : \A n \in D : j <= n
    <3> HIDE DEF D
    <3> QED
      BY <2>1, LeastNumber
  <2>3. j # 1
    BY <1>1, <2>2
  <2>4. j - 1 \in 1 .. Len(path) /\ j - 1 \in Nat /\ ~(j <= j - 1)
    BY <2>2, <2>3, <1>0
  <2>5. good(j - 1)
    BY <2>2, <2>4
  <2>6. good(j)
    BY <2>2, <2>3, <2>5, <1>2
  <2> QED
    BY <2>2, <2>6
<1> QED
  BY <1>0, <1>3 DEF good

RouteEnds(k) == {at \in Places : \/ at[1] = NULL \/ IsLeaf(at[1])
                                 \/ Differs(at[1], k, at[2])
                                 \/ Past(at[1], k, at[2])}

LEMMA RouteIs ==
  ASSUME NEW word, Tree(nodes, leaves, root, word), NEW k \in Words
  PROVE  LET path == Follow(k, RouteEnds(k))
             p == Last(path)[1]
         IN  /\ Route(k).path = path
             /\ Route(k).end = IF p = Leaf(k) THEN "found"
                               ELSE IF p = NULL \/ IsLeaf(p) \/ Differs(p, k, Last(path)[2])
                               THEN "absent" ELSE "past"
             /\ Halts(RouteEnds(k)) /\ Trail(k, RouteEnds(k), path)
             /\ path \in Paths /\ Last(path) \in RouteEnds(k)
<1>1. Halts(RouteEnds(k))
  BY DEF Halts, RouteEnds
<1>2. /\ Trail(k, RouteEnds(k), Follow(k, RouteEnds(k)))
      /\ Last(Follow(k, RouteEnds(k))) \in RouteEnds(k)
  BY <1>1, FollowFacts
<1>3. Follow(k, RouteEnds(k)) \in Paths
  BY <1>2 DEF Trail
<1>4. /\ Route(k).path = Follow(k, RouteEnds(k))
      /\ Route(k).end = LET p == Last(Follow(k, RouteEnds(k)))[1]
                        IN  IF p = Leaf(k) THEN "found"
                            ELSE IF p = NULL \/ IsLeaf(p)
                                    \/ Differs(p, k, Last(Follow(k, RouteEnds(k)))[2])
                            THEN "absent" ELSE "past"
  BY DEF Route, RouteEnds
<1> QED
  BY <1>1, <1>2, <1>3, <1>4

(* What a node has saved is in every key below it.                         *)
LEMMA SavedBelow ==
  ASSUME NEW word, Tree(nodes, leaves, root, word), NEW p \in DOMAIN nodes,
         NEW k \in Words, NEW d, d = Depth(nodes, word, p), Agree(word[p], k)
  PROVE  ~Differs(p, k, d) /\ ~Past(p, k, d)
<1> DEFINE s == check_prefix(p, k, d)
           saved == nodes[p].prefix
<1>0. Shape(nodes, leaves) /\ PathOK(nodes, word, p)
  BY DEF Tree
<1>1. /\ d \in Nat /\ Len(word[p]) \in Nat /\ nodes[p].prefix_len \in Nat /\ Len(saved) \in Nat
      /\ word[p] \in Words /\ Len(k) \in Nat
  BY <1>0, TreeFacts, EdgeFacts DEF Words
<1>2. d + nodes[p].prefix_len = Len(word[p])
  BY <1>1 DEF Depth
<1>3. Len(word[p]) <= Len(k)
  BY <1>1, AgreeLen
<1>4. ~Past(p, k, d)
  BY <1>1, <1>2, <1>3 DEF Past
<1>5. ASSUME Differs(p, k, d) PROVE FALSE
  <2>1. s < Len(saved) /\ s \in 0 .. Len(saved) /\ saved[s + 1] # Char(k, d + s)
    BY <1>0, <1>1, <1>5, PrefixFacts DEF Differs
  <2>2. s \in 0 .. Len(saved) - 1
    BY <1>1, <2>1
  <2>3. saved[s + 1] = Char(word[p], d + s)
    BY <1>0, <2>2 DEF PathOK
  <2>4. d + s \in 0 .. Len(word[p]) - 1
    <3>1. Len(saved) <= nodes[p].prefix_len
      BY <1>0 DEF PathOK
    <3> HIDE DEF s, saved
    <3> QED
      BY <1>1, <1>2, <2>2, <3>1
  <2>5. Char(k, d + s) = Char(word[p], d + s)
    BY <2>4 DEF Agree
  <2> QED
    BY <2>1, <2>3, <2>5
<1> QED
  BY <1>4, <1>5

(* A search finds the keys of the tree and no others.                      *)
LEMMA RouteFinds ==
  ASSUME NEW word, Tree(nodes, leaves, root, word), NEW k \in Keys
  PROVE  Route(k).end = "found" <=> k \in DOMAIN leaves
<1> DEFINE path == Follow(k, RouteEnds(k))
           p == Last(path)[1]
<1>0. Shape(nodes, leaves) /\ k \in Words
  BY Constants DEF Tree
<1>1. /\ Halts(RouteEnds(k)) /\ Trail(k, RouteEnds(k), path)
      /\ path \in Paths /\ Last(path) \in RouteEnds(k)
      /\ Route(k).end = "found" <=> p = Leaf(k)
  BY <1>0, RouteIs
<1> HIDE DEF path
<1>2. /\ Len(path) \in Nat \ {0} /\ Last(path) = path[Len(path)]
      /\ p \in Pointers \cup {NULL} /\ Last(path)[2] \in Nat
  BY <1>1, LastPlace
<1>3. ASSUME p = Leaf(k) PROVE k \in DOMAIN leaves
  <2>1. CASE p \in Pointers
    BY <1>0, <1>3, <2>1, ShapeFacts, PointersAre
  <2>2. CASE p = NULL
    BY <1>3, <2>2, PtrFacts
  <2> QED
    BY <1>2, <2>1, <2>2
<1>4. ASSUME k \in DOMAIN leaves PROVE p = Leaf(k)
  <2>1. p \in Up(nodes, leaves, Leaf(k))
    <3>1. Len(path) \in 1 .. Len(path)
      BY <1>2
    <3> QED
      BY <1>1, <1>2, <1>4, <3>1, TrailUp
  <2>2. Leaf(k) \in Ptrs(nodes, leaves) /\ Word(word, Leaf(k)) = k
    BY <1>0, <1>4, ShapeFacts, PtrFacts DEF Word
  <2> SUFFICES ASSUME p # Leaf(k) PROVE FALSE
    OBVIOUS
  <2>3. p \in DOMAIN nodes
    BY <2>1, <2>2, UpChild
  <2>4. Agree(word[p], k)
    BY <2>1, <2>2, <2>3, UpAgree
  <2>5. Last(path)[2] = Depth(nodes, word, p)
    <3>1. Len(path) \in 1 .. Len(path)
      BY <1>2
    <3> QED
      BY <1>0, <1>1, <1>2, <2>3, <3>1, OnTrail
  <2>6. ~Differs(p, k, Last(path)[2]) /\ ~Past(p, k, Last(path)[2])
    BY <1>0, <2>3, <2>4, <2>5, SavedBelow
  <2>7. p # NULL /\ ~IsLeaf(p)
    BY <1>0, <2>3, ShapeFacts DEF Ptrs
  <2> QED
    BY <1>1, <2>6, <2>7 DEF RouteEnds
<1> QED
  BY <1>1, <1>3, <1>4
-----------------------------------------------------------------------------
LEMMA SeqInto ==
  ASSUME NEW A, NEW B, NEW s \in Seq(A), \A i \in DOMAIN s : s[i] \in B
  PROVE  s \in Seq(B)
<1>1. Len(s) \in Nat /\ DOMAIN s = 1 .. Len(s) /\ s = [i \in 1 .. Len(s) |-> s[i]]
  OBVIOUS
<1> QED
  BY <1>1

(* What becomes of a tree.  A node gets other edges: some of the old ones, *)
(* and one new one at most, to a new leaf; leaves without a pointer go.    *)
NewEdges(ns, p, es) == Range(es) \ Edges(ns, p)

LEMMA TreeEdges ==
  ASSUME NEW ns, NEW lv, NEW rt, NEW word, Tree(ns, lv, rt, word), NEW p \in DOMAIN ns,
         NEW es, NEW lv2, DOMAIN lv2 \subseteq Keys, IsFiniteSet(DOMAIN lv2),
         es \in Seq(Bytes \X Ptrs(ns, lv2)), Distinct(es),
         \A e \in NewEdges(ns, p, es) : e[2] \notin Ptrs(ns, lv) /\ Leads(ns, word, p, e),
         \A e, f \in NewEdges(ns, p, es) : e = f,
         Ptrs(ns, lv2) = (Ptrs(ns, lv) \ {e[2] : e \in Edges(ns, p) \ Range(es)})
                         \cup {e[2] : e \in NewEdges(ns, p, es)},
         NEW ns2, DOMAIN ns2 = DOMAIN ns,
         \A n \in DOMAIN ns : ns2[n] = IF n = p THEN [ns[p] EXCEPT !.edges = es] ELSE ns[n]
  PROVE  Tree(ns2, lv2, rt, word)
<1> DEFINE P == Ptrs(ns, lv)
           P2 == Ptrs(ns, lv2)
<1>0. Shape(ns, lv) /\ OnePointer(ns, lv, rt)
  BY DEF Tree
<1>1. DOMAIN ns2 = DOMAIN ns /\ Ptrs(ns2, lv2) = P2
  BY DEF Ptrs
<1>2. ASSUME NEW n \in DOMAIN ns, n # p PROVE ns2[n] = ns[n] /\ Edges(ns2, n) = Edges(ns, n)
  BY <1>2 DEF Edges
<1>3. ns[p] \in Nodes(P)
  BY <1>0 DEF Shape
<1>4. /\ ns2[p] = [ns[p] EXCEPT !.edges = es] /\ ns2[p].edges = es
      /\ ns2[p].prefix = ns[p].prefix /\ ns2[p].prefix_len = ns[p].prefix_len
  BY <1>3 DEF Nodes
<1>5. Edges(ns2, p) = Range(es)
  BY <1>4 DEF Edges
<1>6. ASSUME NEW n \in DOMAIN ns, n # p, NEW e \in Edges(ns, n) PROVE e[2] \in P2
  <2>1. e[2] \in P
    BY <1>0, EdgeFacts
  <2>2. \A f \in Edges(ns, p) : f[2] # e[2]
    BY <1>0, <1>6 DEF OnePointer
  <2> QED
    BY <2>1, <2>2
<1>7. ASSUME NEW n \in DOMAIN ns2 PROVE ns2[n] \in Nodes(P2)
  <2>1. CASE n = p
    BY <2>1, <1>3, <1>4 DEF Nodes
  <2>2. CASE n # p
    <3>1. ns[n] \in Nodes(P) /\ ns2[n] = ns[n]
      BY <1>0, <1>1, <1>2, <2>2 DEF Shape
    <3>2. \A i \in DOMAIN ns[n].edges : ns[n].edges[i] \in Bytes \X P2
      <4> TAKE i \in DOMAIN ns[n].edges
      <4> DEFINE e == ns[n].edges[i]
      <4>1. e \in Edges(ns, n)
        BY DEF Edges, Range
      <4>2. e[2] \in P2
        BY <1>1, <1>6, <2>2, <4>1
      <4>3. e[1] \in Bytes /\ e = <<e[1], e[2]>>
        BY <1>0, <1>1, <4>1, EdgeFacts
      <4> HIDE DEF e, P2
      <4>4. <<e[1], e[2]>> \in Bytes \X P2
        BY <4>2, <4>3
      <4>5. e \in Bytes \X P2
        BY <4>3, <4>4
      <4> QED
        BY <4>5 DEF e
    <3>3. ns[n].edges \in Seq(Bytes \X P2)
      <4>1. ns[n].edges \in Seq(Bytes \X P)
        BY <3>1 DEF Nodes
      <4> HIDE DEF P, P2
      <4> QED
        BY <3>2, <4>1, SeqInto
    <3> HIDE DEF P, P2
    <3> QED
      BY <3>1, <3>3 DEF Nodes
  <2> QED
    BY <2>1, <2>2
<1>8. Shape(ns2, lv2)
  BY <1>0, <1>1, <1>7 DEF Shape
<1>9. ASSUME NEW n \in DOMAIN ns, NEW e \in Edges(ns2, n)
      PROVE  e \in Edges(ns, n) \/ (n = p /\ e \in NewEdges(ns, p, es))
  <2>1. CASE n = p
    BY <1>5, <2>1 DEF NewEdges
  <2>2. CASE n # p
    BY <1>2, <2>2
  <2> QED
    BY <2>1, <2>2
<1>10. ASSUME NEW e \in NewEdges(ns, p, es) PROVE e \in Range(es) /\ e[2] \in P2 /\ e[2] \notin P
  BY <1>10 DEF NewEdges
<1>11. OnePointer(ns2, lv2, rt)
  <2>1. rt # NULL => rt \in P2
    BY <1>0 DEF OnePointer
  <2>2. NULL \notin P2
    BY <1>1, <1>8, ShapeFacts
  <2>3. ASSUME NEW n \in DOMAIN ns, NEW e \in Edges(ns2, n) PROVE e[2] # rt
    <3>1. CASE e \in Edges(ns, n)
      BY <1>0, <3>1 DEF OnePointer
    <3>2. CASE e \in NewEdges(ns, p, es)
      BY <1>0, <1>10, <2>2, <3>2 DEF OnePointer
    <3> QED
      BY <1>9, <3>1, <3>2
  <2>4. ASSUME NEW a \in DOMAIN ns, NEW b \in DOMAIN ns, NEW e \in Edges(ns2, a),
               NEW f \in Edges(ns2, b), e[2] = f[2]
        PROVE  a = b /\ e = f
    <3>1. CASE e \in Edges(ns, a) /\ f \in Edges(ns, b)
      BY <1>0, <2>4, <3>1 DEF OnePointer
    <3>2. CASE a = p /\ b = p /\ e \in NewEdges(ns, p, es) /\ f \in NewEdges(ns, p, es)
      BY <3>2
    <3>3. CASE e \in NewEdges(ns, p, es) /\ f \in Edges(ns, b)
      BY <1>0, <1>10, <2>4, <3>3, EdgeFacts
    <3>4. CASE e \in Edges(ns, a) /\ f \in NewEdges(ns, p, es)
      BY <1>0, <1>10, <2>4, <3>4, EdgeFacts
    <3> QED
      BY <1>9, <3>1, <3>2, <3>3, <3>4
  <2>5. ASSUME NEW c \in P2, c # rt PROVE \E n \in DOMAIN ns : \E e \in Edges(ns2, n) : e[2] = c
    <3>1. CASE \E e \in NewEdges(ns, p, es) : c = e[2]
      BY <1>5, <1>10, <3>1
    <3>2. CASE c \in P /\ c \notin {e[2] : e \in Edges(ns, p) \ Range(es)}
      <4>1. PICK n \in DOMAIN ns : \E e \in Edges(ns, n) : e[2] = c
        BY <1>0, <2>5, <3>2 DEF OnePointer
      <4>2. PICK e \in Edges(ns, n) : e[2] = c
        BY <4>1
      <4>3. e \in Edges(ns2, n)
        BY <1>2, <1>5, <3>2, <4>2
      <4> QED
        BY <4>2, <4>3
    <3> QED
      BY <2>5, <3>1, <3>2
  <2> HIDE DEF P2
  <2> QED
    BY <1>1, <2>1, <2>3, <2>4, <2>5 DEF OnePointer
<1>12. ASSUME NEW n \in DOMAIN ns
       PROVE  /\ ns2[n].prefix = ns[n].prefix /\ ns2[n].prefix_len = ns[n].prefix_len
              /\ Depth(ns2, word, n) = Depth(ns, word, n)
  BY <1>2, <1>4 DEF Depth
<1>13. ASSUME NEW n \in DOMAIN ns
       PROVE  /\ Distinct(ns2[n].edges) /\ PathOK(ns2, word, n)
              /\ \A e \in Edges(ns2, n) : Leads(ns2, word, n, e)
  <2>1. Distinct(ns2[n].edges)
    BY <1>2, <1>4 DEF Tree
  <2>2. PathOK(ns2, word, n)
    <3>1. PathOK(ns, word, n)
      BY DEF Tree
    <3> QED
      BY <3>1, <1>12 DEF PathOK
  <2>3. ASSUME NEW e \in Edges(ns2, n) PROVE Leads(ns2, word, n, e)
    <3>1. Leads(ns, word, n, e)
      BY <1>9 DEF Tree
    <3>2. ~IsLeaf(e[2]) => e[2] \in DOMAIN ns
      <4>1. e[2] \in Ptrs(ns2, lv2)
        BY <1>1, <1>8, EdgeFacts
      <4>2. ~IsLeaf(e[2]) => e[2] \in DOMAIN ns2
        <5>1. \A c \in Ptrs(ns2, lv2) : ~IsLeaf(c) <=> c \in DOMAIN ns2
          BY <1>8, ShapeFacts
        <5> DEFINE c == e[2]
        <5>2. c \in Ptrs(ns2, lv2)
          BY <4>1
        <5> HIDE DEF c
        <5>3. ~IsLeaf(c) => c \in DOMAIN ns2
          BY <5>1, <5>2, Zenon
        <5> QED
          BY <5>3 DEF c
      <4> QED
        BY <4>2, <1>1
    <3> QED
      BY <3>1, <3>2, <1>12 DEF Leads
  <2> QED
    BY <2>1, <2>2, <2>3
<1> QED
  BY <1>1, <1>8, <1>11, <1>12, <1>13 DEF Tree

(* The pointer to a block becomes a pointer to another.                    *)
Swap(old, new, c) == IF c = old THEN new ELSE c
Redirect(n, old, new) ==
  [n EXCEPT !.edges = [i \in DOMAIN @ |-> IF @[i][2] = old THEN <<@[i][1], new>> ELSE @[i]]]

LEMMA RedirectFacts ==
  ASSUME NEW P, NEW P2, NEW n \in Nodes(P), NEW old, NEW new \in P2, P \ {old} \subseteq P2
  PROVE  LET m == Redirect(n, old, new)
         IN  /\ m \in Nodes(P2) /\ m.prefix = n.prefix /\ m.prefix_len = n.prefix_len
             /\ DOMAIN m.edges = DOMAIN n.edges /\ Len(m.edges) = Len(n.edges)
             /\ \A i \in DOMAIN n.edges : /\ m.edges[i][1] = n.edges[i][1]
                                          /\ m.edges[i][2] = Swap(old, new, n.edges[i][2])
             /\ Distinct(n.edges) => Distinct(m.edges)
             /\ \A e \in Range(m.edges) :
                  \E f \in Range(n.edges) : e[1] = f[1] /\ e[2] = Swap(old, new, f[2])
             /\ \A f \in Range(n.edges) :
                  \E e \in Range(m.edges) : e[1] = f[1] /\ e[2] = Swap(old, new, f[2])
             /\ (\A f \in Range(n.edges) : f[2] # old) => m = n
<1> DEFINE s == n.edges
           t == [i \in DOMAIN s |-> IF s[i][2] = old THEN <<s[i][1], new>> ELSE s[i]]
           m == Redirect(n, old, new)
<1>1. n.prefix_len \in Nat /\ n.prefix \in Seq(Bytes) /\ s \in Seq(Bytes \X P)
  BY DEF Nodes
<1>2. /\ m = [n EXCEPT !.edges = t] /\ m.edges = t
      /\ m.prefix = n.prefix /\ m.prefix_len = n.prefix_len
  BY DEF Redirect, Nodes
<1>3. Len(s) \in Nat /\ DOMAIN s = 1 .. Len(s) /\ \A i \in DOMAIN s : s[i] \in Bytes \X P
  BY <1>1
<1>4. ASSUME NEW i \in DOMAIN s
      PROVE  t[i] \in Bytes \X P2 /\ t[i][1] = s[i][1] /\ t[i][2] = Swap(old, new, s[i][2])
  BY <1>3 DEF Swap
<1>5. DOMAIN t = DOMAIN s
  OBVIOUS
<1> HIDE DEF s, t
<1>6. t \in Seq(Bytes \X P2) /\ Len(t) = Len(s)
  <2>1. \A i \in 1 .. Len(s) : t[i] \in Bytes \X P2
    BY <1>3, <1>4
  <2>2. t = [i \in 1 .. Len(s) |-> t[i]]
    BY <1>3 DEF t
  <2> QED
    BY <1>3, <2>1, <2>2
<1>7. m \in Nodes(P2)
  BY <1>2, <1>6 DEF Nodes
<1>8. Distinct(s) => Distinct(t)
  BY <1>4, <1>5 DEF Distinct
<1>9. \A e \in Range(t) : \E f \in Range(s) : e[1] = f[1] /\ e[2] = Swap(old, new, f[2])
  BY <1>4, <1>5 DEF Range
<1>10. \A f \in Range(s) : \E e \in Range(t) : e[1] = f[1] /\ e[2] = Swap(old, new, f[2])
  BY <1>4, <1>5 DEF Range
<1>11. ASSUME \A f \in Range(s) : f[2] # old PROVE m = n
  <2>1. \A i \in DOMAIN s : s[i][2] # old
    BY <1>11 DEF Range
  <2>2. t = [i \in DOMAIN s |-> s[i]]
    BY <2>1 DEF t
  <2>3. t = s
    <3>1. s = [i \in 1 .. Len(s) |-> s[i]]
      BY <1>1
    <3> QED
      BY <1>3, <2>2, <3>1
  <2>4. m = [n EXCEPT !.edges = n.edges]
    BY <1>2, <2>3 DEF s
  <2> QED
    BY <2>4 DEF Nodes
<1> HIDE DEF m
<1> QED
  BY <1>2, <1>4, <1>5, <1>6, <1>7, <1>8, <1>9, <1>10, <1>11 DEF m, s

LEMMA RedirectEdges ==
  ASSUME NEW P, NEW n \in Nodes(P), NEW old, NEW new
  PROVE  /\ \A e \in Range(Redirect(n, old, new).edges) :
              \E f \in Range(n.edges) : e[1] = f[1] /\ e[2] = Swap(old, new, f[2])
         /\ \A f \in Range(n.edges) :
              \E e \in Range(Redirect(n, old, new).edges) :
                e[1] = f[1] /\ e[2] = Swap(old, new, f[2])
<1> DEFINE s == n.edges
           t == [i \in DOMAIN s |-> IF s[i][2] = old THEN <<s[i][1], new>> ELSE s[i]]
<1>1. Redirect(n, old, new).edges = t
  BY DEF Redirect, Nodes
<1>2. ASSUME NEW i \in DOMAIN s
      PROVE  t[i][1] = s[i][1] /\ t[i][2] = Swap(old, new, s[i][2])
  BY DEF Swap
<1>3. DOMAIN t = DOMAIN s
  OBVIOUS
<1> HIDE DEF t, s
<1>4. \A e \in Range(t) : \E f \in Range(s) : e[1] = f[1] /\ e[2] = Swap(old, new, f[2])
  BY <1>2, <1>3 DEF Range
<1>5. \A f \in Range(s) : \E e \in Range(t) : e[1] = f[1] /\ e[2] = Swap(old, new, f[2])
  BY <1>2, <1>3 DEF Range
<1> QED
  BY <1>1, <1>4, <1>5 DEF s

(* A node does not point to itself.                                        *)
LEMMA NoSelf ==
  ASSUME NEW ns, NEW lv, NEW rt, NEW word, Tree(ns, lv, rt, word), NEW p \in DOMAIN ns,
         NEW e \in Edges(ns, p)
  PROVE  e[2] # p
<1>1. Len(word[p]) \in Nat /\ (e[2] \in DOMAIN ns => Len(word[p]) < Len(word[e[2]]))
  BY TreeFacts
<1> QED
  BY <1>1

(* A node moves to another block.                                          *)
MovedWord(ns2, word, p, q) == [n \in DOMAIN ns2 |-> IF n = q THEN word[p] ELSE word[n]]

LEMMA MoveTree ==
  ASSUME NEW ns, NEW lv, NEW rt, NEW word, Tree(ns, lv, rt, word), NEW p \in DOMAIN ns,
         NEW q \in Addresses, q \notin DOMAIN ns,
         NEW ns2, DOMAIN ns2 = (DOMAIN ns \ {p}) \cup {q}, ns2[q] = ns[p],
         \A n \in DOMAIN ns \ {p} : ns2[n] = Redirect(ns[n], p, q)
  PROVE  Tree(ns2, lv, Swap(p, q, rt), MovedWord(ns2, word, p, q))
<1> DEFINE P == Ptrs(ns, lv)
           P2 == Ptrs(ns2, lv)
           B(c) == Swap(p, q, c)
           w2 == MovedWord(ns2, word, p, q)
<1>0. Shape(ns, lv) /\ OnePointer(ns, lv, rt)
  BY DEF Tree
<1>1. q \notin P /\ p \notin LeavesOf(lv) /\ q \notin LeavesOf(lv) /\ ~IsLeaf(q)
  BY <1>0, ShapeFacts, PtrFacts DEF Ptrs
<1>2. P2 = (P \ {p}) \cup {q}
  BY <1>1 DEF Ptrs
<1>3. ASSUME NEW n \in DOMAIN ns PROVE B(n) \in DOMAIN ns2 /\ ns2[B(n)] = Redirect(ns[n], p, q)
  <2>1. CASE n = p
    <3>1. \A f \in Range(ns[p].edges) : f[2] # p
      BY NoSelf DEF Edges
    <3>2. ns[p] \in Nodes(P)
      BY <1>0 DEF Shape
    <3>3. Redirect(ns[p], p, q) = ns[p]
      <4>1. q \in P2 /\ P \ {p} \subseteq P2
        BY <1>2
      <4> HIDE DEF P, P2
      <4> QED
        BY <3>1, <3>2, <4>1, RedirectFacts
    <3> QED
      BY <2>1, <3>3 DEF Swap
  <2>2. CASE n # p
    BY <2>2 DEF Swap
  <2> QED
    BY <2>1, <2>2
<1>4. ASSUME NEW m \in DOMAIN ns2 PROVE \E n \in DOMAIN ns : m = B(n)
  BY DEF Swap
<1>5. ASSUME NEW c \in P PROVE B(c) \in P2
  BY <1>2 DEF Swap
<1>6. \A c, d \in P : B(c) = B(d) => c = d
  BY <1>1 DEF Swap
<1>7. \A c \in P2 : \E d \in P : c = B(d)
  BY <1>1, <1>2 DEF Swap, Ptrs
<1>8. ASSUME NEW c \in P
      PROVE  Word(w2, B(c)) = Word(word, c) /\ (IsLeaf(B(c)) <=> IsLeaf(c))
  <2>1. CASE c = p
    <3>1. ~IsLeaf(p)
      BY <1>0, ShapeFacts
    <3> QED
      BY <2>1, <3>1, <1>1 DEF Swap, Word, MovedWord
  <2>2. CASE c # p /\ c \in DOMAIN ns
    BY <2>2, <1>1 DEF Swap, Word, MovedWord, Ptrs
  <2>3. CASE c \in LeavesOf(lv)
    <3>1. IsLeaf(c) /\ c # p
      BY <2>3, <1>0, <1>1, ShapeFacts
    <3> QED
      BY <3>1 DEF Swap, Word
  <2> QED
    BY <2>1, <2>2, <2>3 DEF Ptrs
<1>9. ASSUME NEW n \in DOMAIN ns
      PROVE  /\ ns2[B(n)] \in Nodes(P2) /\ w2[B(n)] = word[n]
             /\ ns2[B(n)].prefix = ns[n].prefix /\ ns2[B(n)].prefix_len = ns[n].prefix_len
             /\ Distinct(ns2[B(n)].edges)
             /\ \A e \in Edges(ns2, B(n)) : \E f \in Edges(ns, n) : e[1] = f[1] /\ e[2] = B(f[2])
             /\ \A f \in Edges(ns, n) : \E e \in Edges(ns2, B(n)) : e[1] = f[1] /\ e[2] = B(f[2])
  <2>1. ns[n] \in Nodes(P) /\ Distinct(ns[n].edges)
    BY <1>0 DEF Shape, Tree
  <2>2. w2[B(n)] = word[n]
    <3>1. B(n) \in DOMAIN ns2
      BY <1>3
    <3> QED
      BY <3>1 DEF MovedWord, Swap
  <2>3. ns2[B(n)] = Redirect(ns[n], p, q)
    BY <1>3
  <2>4. q \in P2 /\ P \ {p} \subseteq P2
    BY <1>2
  <2> HIDE DEF P, P2, w2
  <2> QED
    BY <2>1, <2>2, <2>3, <2>4, RedirectFacts DEF Edges
<1>10. Shape(ns2, lv)
  <2>1. \A m \in DOMAIN ns2 : ns2[m] \in Nodes(P2)
    BY <1>4, <1>9
  <2> QED
    BY <1>0, <2>1 DEF Shape
<1> HIDE DEF P, P2, B, w2
<1>11. ASSUME NEW n \in DOMAIN ns, NEW f \in Edges(ns, n) PROVE f[2] \in P
  BY <1>0, EdgeFacts DEF P
<1>12. OnePointer(ns2, lv, B(rt))
  <2>1. rt # NULL => rt \in P
    BY <1>0 DEF OnePointer, P
  <2>2. B(rt) # NULL => B(rt) \in P2
    <3>1. rt = NULL => B(rt) = NULL
      <4>1. p # NULL
        BY <1>0, ShapeFacts DEF Ptrs
      <4> QED
        BY <4>1 DEF B, Swap
    <3> QED
      BY <2>1, <3>1, <1>5
  <2>3. ASSUME NEW n \in DOMAIN ns, NEW e \in Edges(ns2, B(n)) PROVE e[2] # B(rt)
    <3>1. PICK f \in Edges(ns, n) : e[2] = B(f[2])
      BY <1>9
    <3>2. f[2] # rt /\ f[2] \in P
      BY <1>0, <1>11 DEF OnePointer
    <3>3. CASE rt \in P
      BY <3>1, <3>2, <3>3, <1>6
    <3>4. CASE rt = NULL
      <4>1. p # NULL /\ q # NULL /\ NULL \notin P
        BY <1>0, ShapeFacts, PtrFacts DEF Ptrs, P
      <4> QED
        BY <3>1, <3>2, <3>4, <4>1 DEF B, Swap
    <3> QED
      BY <2>1, <3>3, <3>4
  <2>4. ASSUME NEW a \in DOMAIN ns, NEW b \in DOMAIN ns, NEW e \in Edges(ns2, B(a)),
               NEW f \in Edges(ns2, B(b)), e[2] = f[2]
        PROVE  B(a) = B(b) /\ e = f
    <3>1. PICK e0 \in Edges(ns, a) : e[1] = e0[1] /\ e[2] = B(e0[2])
      BY <1>9
    <3>2. PICK f0 \in Edges(ns, b) : f[1] = f0[1] /\ f[2] = B(f0[2])
      BY <1>9
    <3>3. e0[2] = f0[2]
      BY <2>4, <3>1, <3>2, <1>6, <1>11
    <3>4. a = b /\ e0 = f0
      BY <1>0, <3>3 DEF OnePointer
    <3>5. e = <<e[1], e[2]>> /\ f = <<f[1], f[2]>>
      BY <1>3, <1>10, EdgeFacts
    <3> QED
      BY <2>4, <3>1, <3>2, <3>4, <3>5
  <2>5. ASSUME NEW c \in P2, c # B(rt)
        PROVE  \E m \in DOMAIN ns2 : \E e \in Edges(ns2, m) : e[2] = c
    <3>1. PICK d \in P : c = B(d)
      BY <1>7
    <3>2. d # rt
      BY <2>5, <3>1
    <3>3. PICK n \in DOMAIN ns : \E f \in Edges(ns, n) : f[2] = d
      BY <1>0, <3>2 DEF OnePointer, P
    <3>4. PICK e \in Edges(ns2, B(n)) : e[2] = B(d)
      BY <1>9, <3>3
    <3> QED
      BY <3>1, <3>4, <1>3
  <2>6. \A m \in DOMAIN ns2 : \A e \in Edges(ns2, m) : e[2] # B(rt)
    BY <1>4, <2>3
  <2>7. \A m, n \in DOMAIN ns2 : \A e \in Edges(ns2, m), f \in Edges(ns2, n) :
          e[2] = f[2] => m = n /\ e = f
    BY <1>4, <2>4
  <2> QED
    BY <2>2, <2>5, <2>6, <2>7 DEF OnePointer, P2
<1>13. ASSUME NEW c \in P, ~IsLeaf(c) PROVE c \in DOMAIN ns
  BY <1>0, <1>13, ShapeFacts DEF P
<1>14. ASSUME NEW n \in DOMAIN ns PROVE Depth(ns2, w2, B(n)) = Depth(ns, word, n)
  BY <1>9 DEF Depth
<1>15. ASSUME NEW n \in DOMAIN ns
       PROVE  /\ Distinct(ns2[B(n)].edges) /\ PathOK(ns2, w2, B(n))
              /\ \A e \in Edges(ns2, B(n)) : Leads(ns2, w2, B(n), e)
  <2>1. Distinct(ns2[B(n)].edges)
    BY <1>9
  <2>2. PathOK(ns2, w2, B(n))
    <3>1. PathOK(ns, word, n)
      BY DEF Tree
    <3> QED
      BY <3>1, <1>9, <1>14 DEF PathOK
  <2>3. ASSUME NEW e \in Edges(ns2, B(n)) PROVE Leads(ns2, w2, B(n), e)
    <3>1. PICK f \in Edges(ns, n) : e[1] = f[1] /\ e[2] = B(f[2])
      BY <1>9
    <3>2. Leads(ns, word, n, f) /\ f[2] \in P
      BY <1>11 DEF Tree
    <3>3. /\ Word(w2, e[2]) = Word(word, f[2]) /\ (IsLeaf(e[2]) <=> IsLeaf(f[2]))
          /\ w2[B(n)] = word[n]
      BY <3>1, <3>2, <1>8, <1>9
    <3>4. ~IsLeaf(f[2]) => Depth(ns2, w2, e[2]) = Depth(ns, word, f[2])
      BY <3>1, <3>2, <1>13, <1>14
    <3> QED
      BY <3>1, <3>2, <3>3, <3>4 DEF Leads
  <2> QED
    BY <2>1, <2>2, <2>3
<1>16. B(rt) \in DOMAIN ns2 => Depth(ns2, w2, B(rt)) = 0
  <2> SUFFICES ASSUME B(rt) \in DOMAIN ns2 PROVE Depth(ns2, w2, B(rt)) = 0
    OBVIOUS
  <2>1. rt \in DOMAIN ns
    <3>1. PICK n \in DOMAIN ns : B(rt) = B(n)
      BY <1>4
    <3>2. rt # q /\ n # q
      BY <1>0, <1>1, PtrFacts DEF OnePointer, P
    <3> QED
      BY <3>1, <3>2 DEF B, Swap
  <2> QED
    BY <2>1, <1>14 DEF Tree
<1>17. \A m \in DOMAIN ns2 : /\ Distinct(ns2[m].edges) /\ PathOK(ns2, w2, m)
                             /\ \A e \in Edges(ns2, m) : Leads(ns2, w2, m, e)
  BY <1>4, <1>15
<1> QED
  BY <1>10, <1>12, <1>16, <1>17 DEF Tree, B, w2

LEMMA FirstPart ==
  ASSUME NEW S, NEW q \in Seq(S), NEW m \in Nat, m <= Len(q)
  PROVE  LET t == SubSeq(q, 1, m)
         IN  t \in Seq(S) /\ Len(t) = m /\ \A i \in 1 .. m : t[i] = q[i]
  OBVIOUS

(* The bytes of w at d, as far as they are saved of a path of len bytes.   *)
SavedOf(w, d, len, a) ==
  /\ a \in Seq(Bytes) /\ Len(a) <= MaxPrefix /\ Len(a) <= len
  /\ Len(a) = MaxPrefix \/ Len(a) = len
  /\ \A i \in 0 .. Len(a) - 1 : a[i + 1] = Char(w, d + i)

(* A path, a byte and a path.                                              *)
LEMMA GluedPath ==
  ASSUME NEW w, NEW d \in Nat, NEW a, NEW c \in Bytes, NEW z, NEW la \in Nat, NEW lz \in Nat,
         SavedOf(w, d, la, a), SavedOf(w, d + la + 1, lz, z), Char(w, d + la) = c
  PROVE  SavedOf(w, d, la + 1 + lz,
                 SubSeq(a \o <<c>> \o z, 1, Min({la + 1 + lz, MaxPrefix})))
<1> DEFINE len == la + 1 + lz
           path == a \o <<c>> \o z
           m == Min({len, MaxPrefix})
           s == SubSeq(path, 1, m)
<1>0. a \in Seq(Bytes) /\ z \in Seq(Bytes)
  BY DEF SavedOf
<1>a. /\ Len(a) <= MaxPrefix /\ Len(a) <= la /\ (Len(a) = MaxPrefix \/ Len(a) = la)
      /\ Len(z) <= MaxPrefix /\ Len(z) <= lz /\ (Len(z) = MaxPrefix \/ Len(z) = lz)
      /\ \A i \in 0 .. Len(a) - 1 : a[i + 1] = Char(w, d + i)
      /\ \A i \in 0 .. Len(z) - 1 : z[i + 1] = Char(w, d + la + 1 + i)
  BY DEF SavedOf
<1>1. Len(a) \in Nat /\ Len(z) \in Nat /\ MaxPrefix \in Nat \ {0} /\ len \in Nat
  BY <1>0, Constants
<1>2. m \in {len, MaxPrefix} /\ m <= len /\ m <= MaxPrefix
  <2>1. {len, MaxPrefix} \in SUBSET Nat /\ {len, MaxPrefix} # {}
    BY <1>1
  <2> QED
    BY <2>1, MinFacts
<1> HIDE DEF m
<1>3. /\ path \in Seq(Bytes) /\ Len(path) = Len(a) + 1 + Len(z)
      /\ path[Len(a) + 1] = c
      /\ \A i \in 1 .. Len(a) : path[i] = a[i]
      /\ \A i \in 1 .. Len(z) : path[Len(a) + 1 + i] = z[i]
  BY <1>0
<1> HIDE DEF path
<1>4. m \in Nat /\ m <= Len(path)
  <2>1. m \in Nat
    BY <1>1, <1>2
  <2>2. CASE Len(a) = MaxPrefix
    BY <1>1, <1>2, <1>3, <2>1, <2>2
  <2>3. CASE Len(z) = MaxPrefix
    BY <1>1, <1>2, <1>3, <2>1, <2>3
  <2>4. CASE Len(a) = la /\ Len(z) = lz
    BY <1>1, <1>2, <1>3, <2>1, <2>4
  <2> QED
    BY <1>a, <2>1, <2>2, <2>3, <2>4
<1>5. ASSUME NEW i \in 0 .. m - 1 PROVE path[i + 1] = Char(w, d + i)
  <2>1. i \in Nat /\ i + 1 <= m /\ i < m
    BY <1>4
  <2>2. CASE i < Len(a)
    <3>1. i + 1 \in 1 .. Len(a) /\ i \in 0 .. Len(a) - 1
      BY <1>1, <2>1, <2>2
    <3> QED
      BY <3>1, <1>3, <1>a
  <2>3. CASE i >= Len(a)
    <3>1. Len(a) = la
      BY <1>a, <1>1, <1>2, <2>1, <2>3
    <3>2. CASE i = la
      BY <1>3, <3>1, <3>2
    <3>3. CASE i > la
      <4> DEFINE j == i - la - 1
      <4>1. /\ j \in 0 .. Len(z) - 1 /\ d + la + 1 + j = d + i
            /\ j + 1 \in 1 .. Len(z) /\ Len(a) + 1 + (j + 1) = i + 1
        BY <1>1, <1>3, <1>4, <2>1, <3>1, <3>3
      <4>2. z[j + 1] = Char(w, d + la + 1 + j)
        BY <4>1, <1>a
      <4>3. path[Len(a) + 1 + (j + 1)] = z[j + 1]
        BY <4>1, <1>3
      <4> HIDE DEF j
      <4> QED
        BY <4>1, <4>2, <4>3
    <3>4. i = la \/ i > la
      BY <2>1, <2>3, <3>1
    <3> QED
      BY <3>2, <3>3, <3>4
  <2>4. i < Len(a) \/ i >= Len(a)
    BY <1>1, <2>1
  <2> QED
    BY <2>2, <2>3, <2>4
<1>6. s \in Seq(Bytes) /\ Len(s) = m /\ \A i \in 1 .. m : s[i] = path[i]
  BY <1>3, <1>4, FirstPart
<1> HIDE DEF s
<1>7. ASSUME NEW i \in 0 .. Len(s) - 1 PROVE s[i + 1] = Char(w, d + i)
  <2>1. i \in 0 .. m - 1 /\ i + 1 \in 1 .. m
    BY <1>4, <1>6
  <2> QED
    BY <2>1, <1>5, <1>6
<1>8. Len(s) <= MaxPrefix /\ Len(s) <= len /\ (Len(s) = MaxPrefix \/ Len(s) = len)
  BY <1>2, <1>6
<1>9. SavedOf(w, d, len, s)
  BY <1>6, <1>7, <1>8 DEF SavedOf
<1> QED
  BY <1>9 DEF s, path, m

(* A node with a leaf that goes and one other child gives its place to     *)
(* that child.                                                             *)
Collapsed(ns, lv, p, k, b, c, s, lv2, ns2) ==
  /\ s # Leaf(k) /\ Edges(ns, p) = {<<b, Leaf(k)>>, <<c, s>>}
  /\ DOMAIN lv2 = DOMAIN lv \ {k} /\ DOMAIN ns2 = DOMAIN ns \ {p}
  /\ \A n \in DOMAIN ns2 : n # s => ns2[n] = Redirect(ns[n], p, s)
  /\ s \in DOMAIN ns =>
       LET len == ns[p].prefix_len + 1 + ns[s].prefix_len
       IN  ns2[s] = [ns[s] EXCEPT !.prefix_len = len,
                       !.prefix = SubSeq(ns[p].prefix \o <<c>> \o ns[s].prefix, 1,
                                         Min({len, MaxPrefix}))]

LEMMA CollapseTree ==
  ASSUME NEW ns, NEW lv, NEW rt, NEW word, Tree(ns, lv, rt, word), NEW p \in DOMAIN ns,
         NEW k \in DOMAIN lv, NEW b, NEW c, NEW s, NEW lv2, NEW ns2,
         Collapsed(ns, lv, p, k, b, c, s, lv2, ns2)
  PROVE  Tree(ns2, lv2, Swap(p, s, rt), word)
<1>given.
        /\ s # Leaf(k) /\ Edges(ns, p) = {<<b, Leaf(k)>>, <<c, s>>}
        /\ DOMAIN lv2 = DOMAIN lv \ {k} /\ DOMAIN ns2 = DOMAIN ns \ {p}
        /\ \A n \in DOMAIN ns2 : n # s => ns2[n] = Redirect(ns[n], p, s)
        /\ s \in DOMAIN ns =>
             LET len == ns[p].prefix_len + 1 + ns[s].prefix_len
             IN  ns2[s] = [ns[s] EXCEPT !.prefix_len = len,
                             !.prefix = SubSeq(ns[p].prefix \o <<c>> \o ns[s].prefix, 1,
                                               Min({len, MaxPrefix}))]
  BY DEF Collapsed
<1> USE <1>given
<1> DEFINE P == Ptrs(ns, lv)
           P2 == Ptrs(ns2, lv2)
           B(x) == Swap(p, s, x)
<1>0. Shape(ns, lv) /\ OnePointer(ns, lv, rt)
  BY DEF Tree
<1>1. /\ <<c, s>> \in Edges(ns, p) /\ <<b, Leaf(k)>> \in Edges(ns, p)
      /\ s \in P /\ c \in Bytes /\ s # p /\ p \notin LeavesOf(lv)
  <2>1. <<c, s>> \in Edges(ns, p) /\ <<b, Leaf(k)>> \in Edges(ns, p)
    OBVIOUS
  <2>2. <<c, s>>[1] = c /\ <<c, s>>[2] = s
    OBVIOUS
  <2>3. s \in P /\ c \in Bytes
    <3>1. \A e \in Edges(ns, p) : e[1] \in Bytes /\ e[2] \in P
      BY <1>0, EdgeFacts
    <3> HIDE DEF P
    <3> QED
      BY <2>1, <2>2, <3>1
  <2>4. s # p
    BY <2>1, <2>2, NoSelf
  <2>5. p \notin LeavesOf(lv)
    BY <1>0, ShapeFacts
  <2> QED
    BY <2>1, <2>3, <2>4, <2>5
<1>2. P2 = P \ {p, Leaf(k)}
  <2>1. LeavesOf(lv2) = LeavesOf(lv) \ {Leaf(k)}
    BY PtrFacts DEF LeavesOf
  <2>2. Leaf(k) \notin DOMAIN ns
    BY <1>0, ShapeFacts, PtrFacts
  <2> QED
    BY <1>1, <2>1, <2>2 DEF Ptrs
<1>3. s \in P2 /\ \A n \in DOMAIN ns2 : n \in DOMAIN ns /\ n # p
  BY <1>1, <1>2
<1>4. ASSUME NEW n \in DOMAIN ns2, NEW e \in Edges(ns, n) PROVE e[2] \in P /\ e[2] # Leaf(k)
  <2>1. e[2] \in P /\ n # p /\ n \in DOMAIN ns
    BY <1>0, <1>3, EdgeFacts
  <2>2. <<b, Leaf(k)>>[2] = Leaf(k)
    OBVIOUS
  <2> QED
    BY <1>0, <1>1, <2>1, <2>2 DEF OnePointer
<1>5. ASSUME NEW n \in DOMAIN ns2, NEW e \in Edges(ns, n), e[2] = s PROVE FALSE
  <2>1. n # p /\ n \in DOMAIN ns
    BY <1>3
  <2>2. <<c, s>>[2] = s
    OBVIOUS
  <2> QED
    BY <1>0, <1>1, <1>5, <2>1, <2>2 DEF OnePointer
<1>6. ASSUME NEW n \in DOMAIN ns2 PROVE ns[n] \in Nodes(P \ {Leaf(k)})
  <2>1. ns[n] \in Nodes(P)
    BY <1>0, <1>3 DEF Shape
  <2>2. \A i \in DOMAIN ns[n].edges : ns[n].edges[i] \in Bytes \X (P \ {Leaf(k)})
    <3> TAKE i \in DOMAIN ns[n].edges
    <3> DEFINE e == ns[n].edges[i]
    <3>1. e \in Edges(ns, n)
      BY DEF Edges, Range
    <3>2. e[2] \in P \ {Leaf(k)} /\ e[1] \in Bytes /\ e = <<e[1], e[2]>>
      BY <1>0, <1>3, <1>4, <3>1, EdgeFacts
    <3> HIDE DEF e, P
    <3>3. <<e[1], e[2]>> \in Bytes \X (P \ {Leaf(k)})
      BY <3>2
    <3> QED
      BY <3>2, <3>3 DEF e
  <2>3. ns[n].edges \in Seq(Bytes \X (P \ {Leaf(k)}))
    <3>1. ns[n].edges \in Seq(Bytes \X P)
      BY <2>1 DEF Nodes
    <3> HIDE DEF P
    <3> QED
      BY <2>2, <3>1, SeqInto
  <2> HIDE DEF P
  <2> QED
    BY <2>1, <2>3 DEF Nodes
<1>7. ASSUME NEW n \in DOMAIN ns2
      PROVE  LET m == Redirect(ns[n], p, s)
             IN  /\ m \in Nodes(P2) /\ (n = s => m = ns[n])
                 /\ m.prefix = ns[n].prefix /\ m.prefix_len = ns[n].prefix_len
                 /\ Distinct(m.edges)
                 /\ \A e \in Range(m.edges) :
                      \E f \in Edges(ns, n) : e[1] = f[1] /\ e[2] = B(f[2])
                 /\ \A f \in Edges(ns, n) :
                      \E e \in Range(m.edges) : e[1] = f[1] /\ e[2] = B(f[2])
  <2>1. ns[n] \in Nodes(P \ {Leaf(k)}) /\ Distinct(ns[n].edges)
    BY <1>3, <1>6 DEF Tree
  <2>2. s \in P2 /\ (P \ {Leaf(k)}) \ {p} \subseteq P2
    BY <1>2, <1>3
  <2>3. n = s => \A f \in Range(ns[n].edges) : f[2] # p
    <3> SUFFICES ASSUME n = s, NEW f \in Edges(ns, n), f[2] = p PROVE FALSE
      BY DEF Edges
    <3>1. p \in DOMAIN ns /\ n \in DOMAIN ns
      BY <1>3
    <3>2. Len(word[n]) < Len(word[p]) /\ Len(word[n]) \in Nat /\ Len(word[p]) \in Nat
      BY <3>1, TreeFacts
    <3>3. <<c, s>>[2] = s
      OBVIOUS
    <3>4. Len(word[p]) < Len(word[s])
      <4>1. \A e \in Edges(ns, p) : e[2] \in DOMAIN ns => Len(word[p]) < Len(word[e[2]])
        BY TreeFacts
      <4> QED
        BY <3>1, <3>3, <4>1, <1>1
    <3> QED
      BY <3>2, <3>4
  <2> HIDE DEF P, P2
  <2> QED
    BY <2>1, <2>2, <2>3, RedirectFacts DEF Edges
<1>8. ASSUME NEW n \in DOMAIN ns2, n # s
      PROVE  ns2[n] = Redirect(ns[n], p, s)
  BY <1>8
<1>9. ASSUME s \in DOMAIN ns
      PROVE  /\ s \in DOMAIN ns2 /\ ns2[s] \in Nodes(P2) /\ ns2[s].edges = ns[s].edges
             /\ Depth(ns2, word, s) = Depth(ns, word, p)
             /\ PathOK(ns2, word, s)
  <2> DEFINE len == ns[p].prefix_len + 1 + ns[s].prefix_len
             pre == SubSeq(ns[p].prefix \o <<c>> \o ns[s].prefix, 1, Min({len, MaxPrefix}))
  <2>1. s \in DOMAIN ns2
    BY <1>1, <1>9
  <2>2. ns2[s] = [ns[s] EXCEPT !.prefix_len = len, !.prefix = pre]
    BY <1>9
  <2>3. ns[s] \in Nodes(P2)
    BY <1>7, <2>1
  <2>4. ns[p] \in Nodes(P)
    BY <1>0 DEF Shape
  <2>5. PathOK(ns, word, p) /\ PathOK(ns, word, s)
    BY <1>9 DEF Tree
  <2>6. /\ Leads(ns, word, p, <<c, s>>) /\ ~IsLeaf(s)
        /\ word[s] \in Words /\ word[p] \in Words
        /\ Len(word[s]) \in Nat /\ Len(word[p]) \in Nat
        /\ Depth(ns, word, p) \in Nat /\ Depth(ns, word, s) \in Nat
    BY <1>0, <1>1, <1>9, ShapeFacts, TreeFacts DEF Tree
  <2>7. /\ Agree(word[p], word[s]) /\ Char(word[s], Len(word[p])) = c
        /\ Depth(ns, word, s) = Len(word[p]) + 1
    BY <2>6 DEF Leads, Word
  <2> DEFINE d == Depth(ns, word, p)
             la == ns[p].prefix_len
             lz == ns[s].prefix_len
             a == ns[p].prefix
             z == ns[s].prefix
  <2>8. la \in Nat /\ lz \in Nat /\ a \in Seq(Bytes) /\ z \in Seq(Bytes)
        /\ Len(a) \in Nat /\ Len(z) \in Nat
    BY <2>3, <2>4 DEF Nodes
  <2>9. d + la = Len(word[p])
    BY <2>6, <2>8 DEF Depth
  <2>10. \A i \in 0 .. Len(a) - 1 : a[i + 1] = Char(word[s], d + i)
    <3> TAKE i \in 0 .. Len(a) - 1
    <3>1. a[i + 1] = Char(word[p], d + i)
      BY <2>5 DEF PathOK
    <3>2. d + i \in 0 .. Len(word[p]) - 1
      <4>1. Len(a) <= la
        BY <2>5 DEF PathOK
      <4> HIDE DEF a, d, la
      <4> QED
        BY <2>6, <2>8, <2>9, <4>1 DEF d
    <3> QED
      BY <3>1, <3>2, <2>7 DEF Agree
  <2>11. \A i \in 0 .. Len(z) - 1 : z[i + 1] = Char(word[s], d + la + 1 + i)
    BY <2>5, <2>7, <2>9 DEF PathOK
  <2>12. SavedOf(word[s], d, len, pre)
    <3> DEFINE w == word[s]
    <3>1. d \in Nat /\ Char(w, d + la) = c
      BY <2>6, <2>7, <2>9
    <3>2. SavedOf(w, d, la, a)
      <4>1. Len(a) <= MaxPrefix /\ Len(a) <= la /\ (Len(a) = MaxPrefix \/ Len(a) = la)
        BY <2>5 DEF PathOK
      <4> QED
        BY <2>8, <2>10, <4>1 DEF SavedOf
    <3>3. SavedOf(w, d + la + 1, lz, z)
      <4>1. Len(z) <= MaxPrefix /\ Len(z) <= lz /\ (Len(z) = MaxPrefix \/ Len(z) = lz)
        BY <2>5 DEF PathOK
      <4> QED
        BY <2>8, <2>11, <4>1 DEF SavedOf
    <3>4. len = la + 1 + lz /\ pre = SubSeq(a \o <<c>> \o z, 1, Min({la + 1 + lz, MaxPrefix}))
      OBVIOUS
    <3> HIDE DEF a, z, la, lz, d, len, pre, w
    <3>5. SavedOf(w, d, len, pre)
      BY <1>1, <2>8, <3>1, <3>2, <3>3, <3>4, GluedPath
    <3> QED
      BY <3>5 DEF w
  <2>13. len \in Nat
    BY <2>8
  <2> HIDE DEF pre
  <2>14. /\ ns2[s].edges = ns[s].edges /\ ns2[s].prefix_len = len /\ ns2[s].prefix = pre
         /\ ns2[s] \in Nodes(P2)
    <3> HIDE DEF P2, len
    <3> QED
      BY <2>2, <2>3, <2>12, <2>13 DEF Nodes, SavedOf
  <2>15. Depth(ns2, word, s) = d
    <3> DEFINE ds == Depth(ns, word, s)
               x == Len(word[s])
               y == Len(word[p])
    <3>1. ds = x - lz /\ ds = y + 1 /\ d + la = y
      BY <2>7, <2>9 DEF Depth
    <3>2. x \in Nat /\ y \in Nat /\ ds \in Nat /\ d \in Nat /\ la \in Nat /\ lz \in Nat
      BY <2>6, <2>8
    <3>3. len = la + 1 + lz
      OBVIOUS
    <3>4. Depth(ns2, word, s) = x - len
      BY <2>14 DEF Depth
    <3> HIDE DEF ds, x, y, d, la, lz, len
    <3> QED
      BY <3>1, <3>2, <3>3, <3>4
  <2>16. PathOK(ns2, word, s)
    <3>1. len <= Len(word[s])
      <4> DEFINE x == Len(word[s])
      <4>1. x - len = d /\ x \in Nat /\ len \in Nat /\ d \in Nat
        <5>1. Depth(ns2, word, s) = x - len
          BY <2>14 DEF Depth
        <5> QED
          BY <5>1, <2>6, <2>13, <2>15
      <4> HIDE DEF x, d, len
      <4>2. len <= x
        BY <4>1
      <4> QED
        BY <4>2 DEF x
    <3> HIDE DEF d, len
    <3> QED
      BY <2>6, <2>12, <2>14, <2>15, <3>1 DEF PathOK, SavedOf
  <2> QED
    BY <2>1, <2>14, <2>15, <2>16
<1>10. ASSUME NEW n \in DOMAIN ns2
       PROVE  /\ ns2[n] \in Nodes(P2) /\ Distinct(ns2[n].edges)
              /\ \A e \in Edges(ns2, n) : \E f \in Edges(ns, n) : e[1] = f[1] /\ e[2] = B(f[2])
              /\ \A f \in Edges(ns, n) : \E e \in Edges(ns2, n) : e[1] = f[1] /\ e[2] = B(f[2])
  <2>1. CASE n = s
    <3>1. s \in DOMAIN ns /\ Redirect(ns[n], p, s) = ns[n]
      BY <1>3, <1>7, <2>1
    <3>2. ns2[n] \in Nodes(P2) /\ ns2[n].edges = ns[n].edges
      BY <1>9, <2>1, <3>1
    <3> HIDE DEF P2, B
    <3> QED
      BY <1>7, <3>1, <3>2 DEF Edges
  <2>2. CASE n # s
    <3>1. ns2[n] = Redirect(ns[n], p, s)
      BY <1>8, <2>2
    <3> HIDE DEF P2, B
    <3> QED
      BY <1>7, <3>1 DEF Edges
  <2> QED
    BY <2>1, <2>2
<1>11. Shape(ns2, lv2)
  <2>1. DOMAIN lv2 \subseteq Keys /\ IsFiniteSet(DOMAIN lv2)
    BY <1>0, FS_Subset DEF Shape
  <2>2. DOMAIN ns2 \subseteq Addresses
    BY <1>0 DEF Shape
  <2> QED
    BY <1>10, <2>1, <2>2 DEF Shape
<1> HIDE DEF P, P2, B
<1>12. NULL \notin P
  BY <1>0, ShapeFacts DEF P
<1>13. OnePointer(ns2, lv2, B(rt))
  <2>1. rt # NULL => rt \in P
    BY <1>0 DEF OnePointer, P
  <2>2. rt # Leaf(k)
    <3>1. <<b, Leaf(k)>>[2] = Leaf(k)
      OBVIOUS
    <3> QED
      BY <1>0, <1>1, <3>1 DEF OnePointer
  <2>3. B(rt) # NULL => B(rt) \in P2
    BY <1>2, <1>3, <2>1, <2>2 DEF B, Swap
  <2>4. ASSUME NEW n \in DOMAIN ns2, NEW e \in Edges(ns2, n) PROVE e[2] # B(rt)
    <3>1. PICK f \in Edges(ns, n) : e[2] = B(f[2])
      BY <1>10
    <3>2. f[2] # rt /\ f[2] # s
      BY <1>0, <1>3, <1>5 DEF OnePointer
    <3>3. rt # s
      <4>1. <<c, s>>[2] = s
        OBVIOUS
      <4> QED
        BY <1>0, <1>1, <4>1 DEF OnePointer
    <3> QED
      BY <3>1, <3>2, <3>3 DEF B, Swap
  <2>5. ASSUME NEW m \in DOMAIN ns2, NEW n \in DOMAIN ns2, NEW e \in Edges(ns2, m),
               NEW f \in Edges(ns2, n), e[2] = f[2]
        PROVE  m = n /\ e = f
    <3>1. PICK e0 \in Edges(ns, m) : e[1] = e0[1] /\ e[2] = B(e0[2])
      BY <1>10
    <3>2. PICK f0 \in Edges(ns, n) : f[1] = f0[1] /\ f[2] = B(f0[2])
      BY <1>10
    <3>3. e0[2] # s /\ f0[2] # s
      BY <1>5
    <3>4. e0[2] = f0[2]
      BY <2>5, <3>1, <3>2, <3>3 DEF B, Swap
    <3>5. m = n /\ e0 = f0
      BY <1>0, <1>3, <3>4 DEF OnePointer
    <3>6. e = <<e[1], e[2]>> /\ f = <<f[1], f[2]>>
      BY <1>11, EdgeFacts
    <3> QED
      BY <2>5, <3>1, <3>2, <3>5, <3>6
  <2>6. ASSUME NEW x \in P2, x # B(rt)
        PROVE  \E m \in DOMAIN ns2 : \E e \in Edges(ns2, m) : e[2] = x
    <3> DEFINE y == IF x = s THEN p ELSE x
    <3>1. y \in P /\ y # Leaf(k) /\ x = B(y)
      BY <1>2, <1>1, <1>0, PtrFacts, ShapeFacts DEF B, Swap, P, Ptrs
    <3>2. y # rt
      BY <2>6, <3>1
    <3> HIDE DEF y
    <3>3. PICK n \in DOMAIN ns : \E f \in Edges(ns, n) : f[2] = y
      BY <1>0, <3>1, <3>2 DEF OnePointer, P
    <3>4. PICK f \in Edges(ns, n) : f[2] = y
      BY <3>3
    <3>5. n # p
      <4> SUFFICES ASSUME n = p PROVE FALSE
        OBVIOUS
      <4>1. y \in {Leaf(k), s}
        BY <3>4
      <4>2. y = s
        BY <3>1, <4>1
      <4> QED
        BY <1>1, <3>1, <4>2, <1>3 DEF y
    <3>6. n \in DOMAIN ns2
      BY <3>5
    <3>7. PICK e \in Edges(ns2, n) : e[2] = B(f[2])
      BY <1>10, <3>6
    <3> QED
      BY <3>1, <3>4, <3>6, <3>7
  <2> QED
    BY <2>3, <2>4, <2>5, <2>6 DEF OnePointer, P2
<1>14. ASSUME NEW n \in DOMAIN ns2, n # s
       PROVE  Depth(ns2, word, n) = Depth(ns, word, n) /\ PathOK(ns2, word, n)
  <2>1. ns2[n].prefix = ns[n].prefix /\ ns2[n].prefix_len = ns[n].prefix_len
    BY <1>7, <1>8, <1>14
  <2>2. PathOK(ns, word, n)
    BY <1>3 DEF Tree
  <2> QED
    BY <2>1, <2>2 DEF Depth, PathOK
<1>15. ASSUME NEW n \in DOMAIN ns2, NEW e \in Edges(ns2, n) PROVE Leads(ns2, word, n, e)
  <2>1. PICK f \in Edges(ns, n) : e[1] = f[1] /\ e[2] = B(f[2])
    BY <1>10
  <2>2. Leads(ns, word, n, f) /\ f[2] \in P /\ f[2] # s
    BY <1>3, <1>4, <1>5 DEF Tree
  <2>3. CASE f[2] = p
    <3>1. e[2] = s
      BY <2>1, <2>3 DEF B, Swap
    <3>2. /\ Agree(word[n], word[p]) /\ Char(word[p], Len(word[n])) = e[1]
          /\ Depth(ns, word, p) = Len(word[n]) + 1 /\ Len(word[n]) < Len(word[p])
      <4>1. ~IsLeaf(p) /\ n \in DOMAIN ns
        BY <1>0, <1>3, ShapeFacts
      <4> QED
        BY <4>1, <2>1, <2>2, <2>3, TreeFacts DEF Leads, Word
    <3>3. /\ Agree(word[p], Word(word, s))
          /\ word[n] \in Words /\ word[p] \in Words /\ Word(word, s) \in Words
          /\ Len(word[n]) \in Nat /\ Len(word[p]) \in Nat
      <4>1. <<c, s>>[2] = s
        OBVIOUS
      <4>2. \A edge \in Edges(ns, p) : Agree(word[p], Word(word, edge[2]))
        BY TreeFacts
      <4>3. Agree(word[p], Word(word, s))
        BY <4>1, <4>2, <1>1
      <4>4. Word(word, s) \in Words
        BY <1>1, TreeFacts DEF P
      <4> QED
        BY <4>3, <4>4, <1>3, TreeFacts
    <3>4. Agree(word[n], Word(word, s))
      BY <3>2, <3>3, AgreeTrans
    <3>5. Char(Word(word, s), Len(word[n])) = e[1]
      <4>1. Len(word[n]) \in 0 .. Len(word[p]) - 1
        BY <3>2, <3>3
      <4> QED
        BY <4>1, <3>2, <3>3 DEF Agree
    <3>6. ~IsLeaf(s) => Depth(ns2, word, s) = Len(word[n]) + 1
      <4> SUFFICES ASSUME ~IsLeaf(s) PROVE Depth(ns2, word, s) = Len(word[n]) + 1
        OBVIOUS
      <4>1. s \in DOMAIN ns
        BY <1>0, <1>1, ShapeFacts DEF P
      <4> QED
        BY <1>9, <3>2, <4>1
    <3> QED
      BY <3>1, <3>4, <3>5, <3>6 DEF Leads
  <2>4. CASE f[2] # p
    <3>1. e[2] = f[2]
      BY <2>1, <2>4 DEF B, Swap
    <3>2. ~IsLeaf(f[2]) => Depth(ns2, word, f[2]) = Depth(ns, word, f[2])
      <4> SUFFICES ASSUME ~IsLeaf(f[2])
                   PROVE  Depth(ns2, word, f[2]) = Depth(ns, word, f[2])
        OBVIOUS
      <4>1. f[2] \in DOMAIN ns
        BY <1>0, <2>2, ShapeFacts DEF P
      <4>2. f[2] \in DOMAIN ns2
        BY <2>4, <4>1
      <4> QED
        BY <1>14, <2>2, <4>2
    <3> QED
      BY <2>1, <2>2, <3>1, <3>2 DEF Leads
  <2> QED
    BY <2>3, <2>4
<1>16. B(rt) \in DOMAIN ns2 => Depth(ns2, word, B(rt)) = 0
  <2> SUFFICES ASSUME B(rt) \in DOMAIN ns2 PROVE Depth(ns2, word, B(rt)) = 0
    OBVIOUS
  <2>1. CASE rt = p
    <3>1. B(rt) = s /\ s \in DOMAIN ns
      BY <1>3, <2>1 DEF B, Swap
    <3> QED
      BY <1>9, <2>1, <3>1 DEF Tree
  <2>2. CASE rt # p
    <3>1. B(rt) = rt /\ rt \in DOMAIN ns
      BY <1>3, <2>2 DEF B, Swap
    <3>2. rt # s
      <4>1. <<c, s>>[2] = s
        OBVIOUS
      <4> QED
        BY <1>0, <1>1, <4>1 DEF OnePointer
    <3> QED
      BY <1>14, <3>1, <3>2 DEF Tree
  <2> QED
    BY <2>1, <2>2
<1>17. ASSUME NEW n \in DOMAIN ns2 PROVE PathOK(ns2, word, n)
  BY <1>3, <1>9, <1>14
<1> QED
  BY <1>10, <1>11, <1>13, <1>15, <1>16, <1>17 DEF Tree, B

(* A new node comes between a block x and the pointer to it, and a new     *)
(* leaf below the new node, to whose end u leads.                          *)
ForkWord(ns2, word, q, u) == [n \in DOMAIN ns2 |-> IF n = q THEN u ELSE word[n]]

(* Where the words of x and k part.                                        *)
Forks(ns, rt, word, x, k, u, pl) ==
  /\ u \in Words /\ Agree(u, k) /\ Agree(u, Word(word, x))
  /\ Char(k, Len(u)) # Char(Word(word, x), Len(u))
  /\ pl \in Nat /\ pl <= Len(u)
  /\ x = rt => Len(u) - pl = 0
  /\ \A n \in DOMAIN ns : \A e \in Edges(ns, n) :
       e[2] = x => Len(u) - pl = Len(word[n]) + 1
  /\ x \in DOMAIN ns => Len(u) < Len(word[x])

Forked(ns, word, x, k, u, pl, q, ns2) ==
  /\ DOMAIN ns2 = DOMAIN ns \cup {q}
  /\ \E pre : /\ SavedOf(u, Len(u) - pl, pl, pre)
              /\ ns2[q] = [prefix_len |-> pl, prefix |-> pre,
                           edges |-> << <<Char(Word(word, x), Len(u)), x>>,
                                        <<Char(k, Len(u)), Leaf(k)>> >>]
  /\ \A n \in DOMAIN ns : n # x => ns2[n] = Redirect(ns[n], x, q)
  /\ x \in DOMAIN ns =>
       \E s : LET len == Len(word[x]) - (Len(u) + 1)
              IN  /\ SavedOf(word[x], Len(u) + 1, len, s)
                  /\ ns2[x] = [ns[x] EXCEPT !.prefix_len = len, !.prefix = s]

LEMMA ForkTree ==
  ASSUME NEW ns, NEW lv, NEW rt, NEW word, Tree(ns, lv, rt, word), NEW x \in Ptrs(ns, lv),
         NEW q \in Addresses, q \notin DOMAIN ns, NEW k \in Keys, k \notin DOMAIN lv,
         NEW lv2, DOMAIN lv2 = DOMAIN lv \cup {k}, NEW u, NEW pl, NEW ns2,
         Forks(ns, rt, word, x, k, u, pl), Forked(ns, word, x, k, u, pl, q, ns2)
  PROVE  Tree(ns2, lv2, Swap(x, q, rt), ForkWord(ns2, word, q, u))
<1> DEFINE P == Ptrs(ns, lv)
           P2 == Ptrs(ns2, lv2)
           B(y) == Swap(x, q, y)
           w2 == ForkWord(ns2, word, q, u)
           l == Leaf(k)
           b == Char(k, Len(u))
           c == Char(Word(word, x), Len(u))
           d == Len(u) - pl
<1>0. Shape(ns, lv) /\ OnePointer(ns, lv, rt) /\ DOMAIN ns2 = DOMAIN ns \cup {q}
  BY DEF Tree, Forked
<1>1. /\ q \notin P /\ ~IsLeaf(q) /\ q # l /\ l \notin P /\ l # NULL /\ q # NULL
      /\ q # x /\ x # l /\ NULL \notin P /\ IsLeaf(l) /\ l[2] = k
  <2>1. ~IsLeaf(q) /\ IsLeaf(l) /\ l # NULL /\ q # NULL /\ l[2] = k
    BY PtrFacts
  <2>2. l \notin P /\ NULL \notin P
    BY <1>0, ShapeFacts
  <2>3. q \notin P
    BY <1>0, <2>1, ShapeFacts DEF Ptrs
  <2> QED
    BY <2>1, <2>2, <2>3
<1>2. P2 = P \cup {q, l}
  BY <1>0 DEF Ptrs, LeavesOf
<1>3. /\ k \in Words /\ Len(u) \in Nat /\ b \in Bytes /\ c \in Bytes /\ b # c
      /\ Word(word, x) \in Words /\ pl \in Nat /\ u \in Words /\ pl <= Len(u)
  <2>1. /\ k \in Words /\ Word(word, x) \in Words /\ u \in Words /\ pl \in Nat
        /\ pl <= Len(u) /\ b # c
    BY Constants, TreeFacts DEF Forks
  <2> HIDE DEF b, c
  <2> QED
    BY <2>1, CharFacts DEF b, c
<1>4. ASSUME NEW n \in DOMAIN ns
      PROVE  LET m == Redirect(ns[n], x, q)
             IN  /\ m \in Nodes(P2) /\ (n = x => m = ns[n])
                 /\ m.prefix = ns[n].prefix /\ m.prefix_len = ns[n].prefix_len
                 /\ Distinct(m.edges)
                 /\ \A e \in Range(m.edges) :
                      \E f \in Edges(ns, n) : e[1] = f[1] /\ e[2] = B(f[2])
                 /\ \A f \in Edges(ns, n) :
                      \E e \in Range(m.edges) : e[1] = f[1] /\ e[2] = B(f[2])
  <2>1. ns[n] \in Nodes(P) /\ Distinct(ns[n].edges)
    BY <1>0 DEF Tree, Shape
  <2>2. q \in P2 /\ P \ {x} \subseteq P2
    BY <1>2
  <2>3. n = x => \A f \in Range(ns[n].edges) : f[2] # x
    BY NoSelf DEF Edges
  <2> HIDE DEF P, P2
  <2>4. LET m == Redirect(ns[n], x, q)
        IN  /\ m \in Nodes(P2) /\ (n = x => m = ns[n])
            /\ m.prefix = ns[n].prefix /\ m.prefix_len = ns[n].prefix_len
            /\ Distinct(m.edges)
    BY <2>1, <2>2, <2>3, RedirectFacts
  <2>5. /\ \A e \in Range(Redirect(ns[n], x, q).edges) :
             \E f \in Range(ns[n].edges) : e[1] = f[1] /\ e[2] = Swap(x, q, f[2])
        /\ \A f \in Range(ns[n].edges) :
             \E e \in Range(Redirect(ns[n], x, q).edges) :
               e[1] = f[1] /\ e[2] = Swap(x, q, f[2])
    BY <2>1, RedirectEdges
  <2> QED
    BY <2>4, <2>5 DEF Edges
<1>5. ASSUME x \in DOMAIN ns
      PROVE  /\ ns2[x] \in Nodes(P2) /\ ns2[x].edges = ns[x].edges
             /\ Depth(ns2, word, x) = Len(u) + 1
             /\ PathOK(ns2, word, x)
  <2> DEFINE len == Len(word[x]) - (Len(u) + 1)
  <2>1. PICK s : /\ SavedOf(word[x], Len(u) + 1, len, s)
                 /\ ns2[x] = [ns[x] EXCEPT !.prefix_len = len, !.prefix = s]
    BY <1>5 DEF Forked
  <2>2. /\ word[x] \in Words /\ Len(word[x]) \in Nat /\ Len(u) < Len(word[x])
    BY <1>5, TreeFacts DEF Forks
  <2>3. len \in Nat /\ len <= Len(word[x]) /\ Len(word[x]) - len = Len(u) + 1
    <3> DEFINE y == Len(word[x])
               z == Len(u)
    <3>1. y \in Nat /\ z \in Nat /\ z < y /\ len = y - (z + 1)
      BY <1>3, <2>2
    <3> HIDE DEF y, z, len
    <3>2. len \in Nat /\ len <= y /\ y - len = z + 1
      <4>1. \A m, n \in Nat : m < n => /\ n - (m + 1) \in Nat /\ n - (m + 1) <= n
                                      /\ n - (n - (m + 1)) = m + 1
        OBVIOUS
      <4> QED
        BY <3>1, <4>1
    <3> QED
      BY <3>2 DEF y, z
  <2>4. ns[x] \in Nodes(P2)
    BY <1>4, <1>5
  <2> HIDE DEF len
  <2>5. /\ ns2[x] \in Nodes(P2) /\ ns2[x].edges = ns[x].edges
        /\ ns2[x].prefix = s /\ ns2[x].prefix_len = len
    <3> HIDE DEF P2
    <3> QED
      BY <2>1, <2>3, <2>4 DEF Nodes, SavedOf
  <2>6. Depth(ns2, word, x) = Len(u) + 1
    BY <2>3, <2>5 DEF Depth
  <2>7. PathOK(ns2, word, x)
    BY <2>1, <2>2, <2>3, <2>5, <2>6 DEF PathOK, SavedOf
  <2> QED
    BY <2>5, <2>6, <2>7
<1>6. ASSUME NEW n \in DOMAIN ns
      PROVE  /\ n \in DOMAIN ns2 /\ n # q
             /\ ns2[n] \in Nodes(P2) /\ Distinct(ns2[n].edges)
             /\ \A e \in Edges(ns2, n) : \E f \in Edges(ns, n) : e[1] = f[1] /\ e[2] = B(f[2])
             /\ \A f \in Edges(ns, n) : \E e \in Edges(ns2, n) : e[1] = f[1] /\ e[2] = B(f[2])
  <2>1. CASE n = x
    <3>1. Redirect(ns[n], x, q) = ns[n]
      BY <1>4, <2>1
    <3>2. ns2[n] \in Nodes(P2) /\ ns2[n].edges = ns[n].edges
      BY <1>5, <2>1
    <3>3. n \in DOMAIN ns2 /\ n # q /\ Edges(ns2, n) = Range(Redirect(ns[n], x, q).edges)
      BY <1>0, <3>1, <3>2 DEF Edges
    <3>4. Distinct(ns2[n].edges)
      BY <1>4, <3>1, <3>2
    <3> HIDE DEF P2, B
    <3> QED
      BY <1>4, <3>2, <3>3, <3>4
  <2>2. CASE n # x
    <3>1. ns2[n] = Redirect(ns[n], x, q)
      BY <2>2 DEF Forked
    <3>2. n \in DOMAIN ns2 /\ n # q /\ Edges(ns2, n) = Range(Redirect(ns[n], x, q).edges)
      BY <1>0, <3>1 DEF Edges
    <3> HIDE DEF P2, B
    <3> QED
      BY <1>4, <3>1, <3>2
  <2> QED
    BY <2>1, <2>2
<1> HIDE DEF b, c
<1>7. /\ ns2[q] \in Nodes(P2) /\ Edges(ns2, q) = {<<c, x>>, <<b, l>>}
      /\ Distinct(ns2[q].edges) /\ ns2[q].prefix_len = pl
      /\ SavedOf(u, d, pl, ns2[q].prefix)
  <2> DEFINE es == << <<c, x>>, <<b, l>> >>
  <2>1. PICK pre : /\ SavedOf(u, d, pl, pre)
                   /\ ns2[q] = [prefix_len |-> pl, prefix |-> pre, edges |-> es]
    BY DEF Forked, b, c
  <2>2. x \in P2 /\ l \in P2
    BY <1>2
  <2> HIDE DEF P2, l, d
  <2>3. es \in Seq(Bytes \X P2) /\ DOMAIN es = {1, 2} /\ es[1] = <<c, x>> /\ es[2] = <<b, l>>
    <3>1. <<c, x>> \in Bytes \X P2 /\ <<b, l>> \in Bytes \X P2
      BY <1>3, <2>2
    <3>2. \A S : \A m, n \in S : /\ <<m, n>> \in Seq(S) /\ DOMAIN <<m, n>> = {1, 2}
                                /\ <<m, n>>[1] = m /\ <<m, n>>[2] = n
      OBVIOUS
    <3> QED
      BY <3>1, <3>2
  <2>4. <<c, x>>[1] = c /\ <<b, l>>[1] = b
    OBVIOUS
  <2> HIDE DEF es
  <2>5. Range(es) = {es[1], es[2]}
    BY <2>3 DEF Range
  <2>6. Distinct(es)
    BY <1>3, <2>3, <2>4 DEF Distinct
  <2>7. ns2[q] \in Nodes(P2)
    BY <1>3, <2>1, <2>3 DEF Nodes, SavedOf
  <2>8. ns2[q].edges = es /\ ns2[q].prefix_len = pl /\ ns2[q].prefix = pre
    BY <2>1
  <2> QED
    BY <2>1, <2>3, <2>5, <2>6, <2>7, <2>8 DEF Edges
<1> HIDE DEF d
<1>8. Shape(ns2, lv2)
  <2>1. DOMAIN lv2 \subseteq Keys /\ IsFiniteSet(DOMAIN lv2)
    <3>1. DOMAIN lv \subseteq Keys /\ IsFiniteSet(DOMAIN lv)
      BY <1>0 DEF Shape
    <3>2. IsFiniteSet(DOMAIN lv \cup {k})
      BY <3>1, FS_AddElement
    <3> QED
      BY <3>1, <3>2
  <2>2. DOMAIN ns2 \subseteq Addresses
    BY <1>0 DEF Shape
  <2> QED
    BY <1>0, <1>6, <1>7, <2>1, <2>2 DEF Shape
<1>9. /\ w2[q] = u /\ \A n \in DOMAIN ns : w2[n] = word[n]
      /\ \A y \in P : Word(w2, y) = Word(word, y)
      /\ Word(w2, q) = u /\ Word(w2, l) = k
  <2>1. w2[q] = u /\ \A n \in DOMAIN ns : w2[n] = word[n]
    BY <1>0 DEF ForkWord
  <2>2. ASSUME NEW y \in P PROVE Word(w2, y) = Word(word, y)
    <3>1. ~IsLeaf(y) => y \in DOMAIN ns
      BY <1>0, ShapeFacts
    <3> HIDE DEF w2
    <3> QED
      BY <2>1, <3>1 DEF Word
  <2> HIDE DEF w2
  <2> QED
    BY <1>1, <2>1, <2>2 DEF Word
<1> HIDE DEF P, P2, B, w2, l
<1>10. ASSUME NEW n \in DOMAIN ns, NEW f \in Edges(ns, n) PROVE f[2] \in P /\ f[2] # rt
  BY <1>0, EdgeFacts DEF OnePointer, P
<1>11. rt \in P
  BY UpRoot, UpClosed DEF P
<1>12. /\ B(x) = q /\ \A y \in P : y # x => B(y) = y
       /\ \A y, z \in P : B(y) = B(z) => y = z
       /\ \A y \in P : B(y) # x /\ B(y) # l /\ B(y) \in P2
  BY <1>1, <1>2 DEF B, Swap
<1>13. /\ \A e \in Edges(ns2, q) : e = <<c, x>> \/ e = <<b, l>>
       /\ \A e \in Edges(ns2, q) : e[2] = x \/ e[2] = l
       /\ <<c, x>> \in Edges(ns2, q) /\ <<c, x>>[2] = x
       /\ <<b, l>> \in Edges(ns2, q) /\ <<b, l>>[2] = l
  <2>1. /\ <<c, x>>[2] = x /\ <<b, l>>[2] = l
    OBVIOUS
  <2>2. Edges(ns2, q) = {<<c, x>>, <<b, l>>}
    BY <1>7
  <2> QED
    BY <2>1, <2>2
<1>14. \A m \in DOMAIN ns2 : m \in DOMAIN ns \/ m = q
  BY <1>0
<1>15. OnePointer(ns2, lv2, B(rt))
  <2>1. B(rt) \in P2
    BY <1>11, <1>12
  <2>2. ASSUME NEW m \in DOMAIN ns2, NEW e \in Edges(ns2, m) PROVE e[2] # B(rt)
    <3>1. CASE m \in DOMAIN ns
      <4>1. PICK f \in Edges(ns, m) : e[2] = B(f[2])
        BY <1>6, <3>1
      <4> QED
        BY <3>1, <4>1, <1>10, <1>11, <1>12
    <3>2. CASE m = q
      <4>1. e[2] = x \/ e[2] = l
        BY <3>2, <1>13
      <4> QED
        BY <4>1, <1>11, <1>12
    <3> QED
      BY <1>14, <3>1, <3>2
  <2>3. ASSUME NEW m \in DOMAIN ns, NEW e \in Edges(ns2, m)
        PROVE  e[2] # x /\ e[2] # l
    <3>1. PICK f \in Edges(ns, m) : e[2] = B(f[2])
      BY <1>6
    <3> QED
      BY <3>1, <1>10, <1>12
  <2>4. ASSUME NEW m \in DOMAIN ns2, NEW n \in DOMAIN ns2, NEW e \in Edges(ns2, m),
               NEW f \in Edges(ns2, n), e[2] = f[2]
        PROVE  m = n /\ e = f
    <3>1. CASE m \in DOMAIN ns /\ n \in DOMAIN ns
      <4>1. PICK e0 \in Edges(ns, m) : e[1] = e0[1] /\ e[2] = B(e0[2])
        BY <1>6, <3>1
      <4>2. PICK f0 \in Edges(ns, n) : f[1] = f0[1] /\ f[2] = B(f0[2])
        BY <1>6, <3>1
      <4>3. e0[2] = f0[2]
        <5>1. e0[2] \in P /\ f0[2] \in P
          BY <3>1, <1>10
        <5>2. B(e0[2]) = B(f0[2])
          BY <2>4, <4>1, <4>2
        <5> QED
          BY <5>1, <5>2, <1>12
      <4>4. m = n /\ e0 = f0
        BY <1>0, <3>1, <4>3 DEF OnePointer
      <4>5. e = <<e[1], e[2]>> /\ f = <<f[1], f[2]>>
        <5>1. \A y \in DOMAIN ns2 : \A g \in Edges(ns2, y) : g = <<g[1], g[2]>>
          BY <1>8, EdgeFacts
        <5> QED
          BY <5>1, Zenon
      <4> QED
        BY <2>4, <4>1, <4>2, <4>4, <4>5
    <3>2. CASE m = q /\ n = q
      BY <2>4, <3>2, <1>1, <1>13
    <3>3. CASE m = q /\ n \in DOMAIN ns
      BY <2>3, <2>4, <3>3, <1>13
    <3>4. CASE m \in DOMAIN ns /\ n = q
      BY <2>3, <2>4, <3>4, <1>13
    <3> QED
      BY <1>14, <3>1, <3>2, <3>3, <3>4
  <2>5. ASSUME NEW y \in P2, y # B(rt)
        PROVE  \E m \in DOMAIN ns2 : \E e \in Edges(ns2, m) : e[2] = y
    <3>1. CASE y = x \/ y = l
      <4>1. q \in DOMAIN ns2
        BY <1>0
      <4> QED
        BY <3>1, <4>1, <1>13
    <3>2. CASE \E z \in P : z # rt /\ y = B(z)
      <4>1. PICK z \in P : z # rt /\ y = B(z)
        BY <3>2
      <4>2. PICK n \in DOMAIN ns : \E f \in Edges(ns, n) : f[2] = z
        BY <1>0, <4>1 DEF OnePointer, P
      <4>3. PICK f \in Edges(ns, n) : f[2] = z
        BY <4>2
      <4>4. PICK e \in Edges(ns2, n) : e[2] = B(f[2])
        BY <1>6
      <4> QED
        BY <4>1, <4>3, <4>4, <1>6
    <3>3. y = x \/ y = l \/ \E z \in P : y = B(z)
      <4>1. x \in P
        BY DEF P
      <4> QED
        BY <1>2, <1>12, <4>1
    <3> QED
      BY <2>5, <3>1, <3>2, <3>3
  <2> QED
    BY <2>1, <2>2, <2>4, <2>5 DEF OnePointer, P2
<1>16. Depth(ns2, w2, q) = d /\ PathOK(ns2, w2, q)
  <2>1. Depth(ns2, w2, q) = d
    BY <1>7, <1>9 DEF Depth, d
  <2> QED
    BY <2>1, <1>3, <1>7, <1>9 DEF PathOK, SavedOf
<1>17. ASSUME NEW n \in DOMAIN ns, n # x
       PROVE  Depth(ns2, w2, n) = Depth(ns, word, n) /\ PathOK(ns2, w2, n)
  <2>1. ns2[n].prefix = ns[n].prefix /\ ns2[n].prefix_len = ns[n].prefix_len
    <3>1. ns2[n] = Redirect(ns[n], x, q)
      BY <1>17 DEF Forked
    <3> QED
      BY <3>1, <1>4
  <2>2. w2[n] = word[n] /\ PathOK(ns, word, n)
    BY <1>9 DEF Tree
  <2> QED
    BY <2>1, <2>2 DEF Depth, PathOK
<1>18. ASSUME x \in DOMAIN ns PROVE Depth(ns2, w2, x) = Len(u) + 1 /\ PathOK(ns2, w2, x)
  <2>1. w2[x] = word[x]
    BY <1>9, <1>18
  <2> QED
    BY <2>1, <1>5, <1>18 DEF Depth, PathOK
<1>19. ASSUME NEW n \in DOMAIN ns, NEW e \in Edges(ns2, n) PROVE Leads(ns2, w2, n, e)
  <2>1. PICK f \in Edges(ns, n) : e[1] = f[1] /\ e[2] = B(f[2])
    BY <1>6
  <2>2. Leads(ns, word, n, f) /\ f[2] \in P /\ w2[n] = word[n]
    BY <1>9, <1>10 DEF Tree
  <2>3. CASE f[2] = x
    <3>1. e[2] = q
      BY <2>1, <2>3, <1>12
    <3>2. d = Len(word[n]) + 1
      BY <2>3 DEF Forks, d
    <3>3. word[n] \in Words /\ Len(word[n]) \in Nat /\ Len(word[n]) < Len(u)
      <4>1. word[n] \in Words /\ Len(word[n]) \in Nat
        BY TreeFacts
      <4>2. \A h, i, j \in Nat : h - i = j + 1 => j < h
        OBVIOUS
      <4>3. Len(u) - pl = Len(word[n]) + 1
        BY <3>2 DEF d
      <4> QED
        BY <4>1, <4>2, <4>3, <1>3
    <3>4. Agree(word[n], Word(word, x)) /\ Char(Word(word, x), Len(word[n])) = e[1]
      BY <2>1, <2>2, <2>3 DEF Leads
    <3>5. \A i \in 0 .. Len(u) - 1 : Char(u, i) = Char(Word(word, x), i)
      BY DEF Agree, Forks
    <3>6. Agree(word[n], u) /\ Char(u, Len(word[n])) = e[1]
      <4>0. \A h, j \in Nat : j < h => /\ \A i \in 0 .. j - 1 : i \in 0 .. h - 1
                                      /\ j \in 0 .. h - 1
        OBVIOUS
      <4>1. \A i \in 0 .. Len(word[n]) - 1 : i \in 0 .. Len(u) - 1
        BY <4>0, <3>3, <1>3
      <4>2. Len(word[n]) \in 0 .. Len(u) - 1
        BY <4>0, <3>3, <1>3
      <4> QED
        BY <3>4, <3>5, <4>1, <4>2 DEF Agree
    <3> QED
      BY <2>2, <3>1, <3>2, <3>6, <1>9, <1>16 DEF Leads
  <2>4. CASE f[2] # x
    <3>1. e[2] = f[2]
      BY <2>1, <2>2, <2>4, <1>12
    <3>2. ~IsLeaf(f[2]) => Depth(ns2, w2, f[2]) = Depth(ns, word, f[2])
      <4> SUFFICES ASSUME ~IsLeaf(f[2])
                   PROVE  Depth(ns2, w2, f[2]) = Depth(ns, word, f[2])
        OBVIOUS
      <4>0. \A y \in P : ~IsLeaf(y) => y \in DOMAIN ns
        BY <1>0, ShapeFacts DEF P
      <4>1. f[2] \in DOMAIN ns
        BY <2>2, <4>0
      <4> QED
        BY <1>17, <2>4, <4>1
    <3>3. Word(w2, f[2]) = Word(word, f[2])
      BY <1>9, <2>2
    <3> QED
      BY <2>1, <2>2, <3>1, <3>2, <3>3 DEF Leads
  <2> QED
    BY <2>3, <2>4
<1>20. ASSUME NEW e \in Edges(ns2, q) PROVE Leads(ns2, w2, q, e)
  <2>1. CASE e = <<c, x>>
    <3>1. e[1] = c /\ e[2] = x /\ Word(w2, x) = Word(word, x)
      BY <2>1, <1>9 DEF P
    <3>2. ~IsLeaf(x) => Depth(ns2, w2, x) = Len(u) + 1
      BY <1>0, <1>18, ShapeFacts
    <3> QED
      BY <3>1, <3>2, <1>9 DEF Leads, Forks, c
  <2>2. CASE e = <<b, l>>
    <3>1. e[1] = b /\ e[2] = l
      BY <2>2
    <3> QED
      BY <3>1, <1>1, <1>9 DEF Leads, Forks, b
  <2> QED
    BY <1>13, <2>1, <2>2
<1>21. B(rt) \in DOMAIN ns2 => Depth(ns2, w2, B(rt)) = 0
  <2>1. CASE rt = x
    BY <2>1, <1>12, <1>16 DEF Forks, d
  <2>2. CASE rt # x
    <3>1. B(rt) = rt /\ rt # q
      BY <2>2, <1>11, <1>12, <1>1 DEF P
    <3> QED
      BY <2>2, <3>1, <1>14, <1>17 DEF Tree
  <2> QED
    BY <2>1, <2>2
<1>22. \A n \in DOMAIN ns2 : /\ Distinct(ns2[n].edges) /\ PathOK(ns2, w2, n)
                             /\ \A e \in Edges(ns2, n) : Leads(ns2, w2, n, e)
  BY <1>6, <1>7, <1>14, <1>16, <1>17, <1>18, <1>19, <1>20
<1> QED
  BY <1>8, <1>15, <1>21, <1>22 DEF Tree, B, w2

-----------------------------------------------------------------------------
(* Edges by byte                                                           *)

Sorted(s) == \A i, j \in DOMAIN s : i < j => s[i][1] < s[j][1]

LEMMA RangeFinite ==
  ASSUME NEW S, NEW s \in Seq(S)
  PROVE  IsFiniteSet(Range(s)) /\ Cardinality(Range(s)) <= Len(s)
<1>1. Len(s) \in Nat /\ DOMAIN s = 1 .. Len(s)
  OBVIOUS
<1>2. s \in Surjection(1 .. Len(s), Range(s))
  <2>1. s \in [1 .. Len(s) -> Range(s)]
    BY <1>1 DEF Range
  <2> QED
    BY <1>1, <2>1 DEF Surjection, Range
<1>3. IsFiniteSet(1 .. Len(s)) /\ Cardinality(1 .. Len(s)) = Len(s)
  BY <1>1, FS_Interval
<1> QED
  BY <1>2, <1>3, FS_Surjection

LEMMA RangeCount ==
  ASSUME NEW S, NEW s \in Seq(S), Distinct(s)
  PROVE  /\ IsFiniteSet(Range(s)) /\ Cardinality(Range(s)) = Len(s)
         /\ \A e, f \in Range(s) : e[1] = f[1] => e = f
<1>1. Len(s) \in Nat /\ DOMAIN s = 1 .. Len(s)
  OBVIOUS
<1>2. \A i, j \in 1 .. Len(s) : s[i] = s[j] => i = j
  BY <1>1 DEF Distinct
<1>3. s \in [1 .. Len(s) -> Range(s)]
  BY <1>1 DEF Range
<1>4. \A e \in Range(s) : \E i \in 1 .. Len(s) : s[i] = e
  BY <1>1 DEF Range
<1>5. ExistsBijection(1 .. Len(s), Range(s))
  <2>1. s \in Injection(1 .. Len(s), Range(s))
    BY <1>2, <1>3 DEF Injection, IsInjective
  <2>2. s \in Surjection(1 .. Len(s), Range(s))
    BY <1>3, <1>4 DEF Surjection
  <2> QED
    BY <2>1, <2>2 DEF ExistsBijection, Bijection
<1>6. IsFiniteSet(1 .. Len(s)) /\ Cardinality(1 .. Len(s)) = Len(s)
  BY <1>1, FS_Interval
<1>7. IsFiniteSet(Range(s)) /\ Cardinality(Range(s)) = Len(s)
  BY <1>5, <1>6, FS_Bijection
<1>8. ASSUME NEW e \in Range(s), NEW f \in Range(s), e[1] = f[1] PROVE e = f
  <2>1. PICK i \in 1 .. Len(s) : s[i] = e
    BY <1>4
  <2>2. PICK j \in 1 .. Len(s) : s[j] = f
    BY <1>4
  <2>3. i = j
    BY <1>1, <1>8, <2>1, <2>2 DEF Distinct
  <2> QED
    BY <2>1, <2>2, <2>3
<1> QED
  BY <1>7, <1>8

(* The edges as they are kept: the same ones, sorted or not.               *)
LEMMA ByByteFacts ==
  ASSUME NEW P, NEW s \in Seq(Bytes \X P), Distinct(s)
  PROVE  LET t == ByByte(s)
         IN  /\ t \in Seq(Bytes \X P) /\ Len(t) = Len(s) /\ Range(t) = Range(s)
             /\ Distinct(t) /\ Sorted(t)
<1> DEFINE R == Range(s)
           n == Len(s)
           Lower(e) == {f \in R : f[1] < e[1]}
           rank == [e \in R |-> Cardinality(Lower(e))]
           t == ByByte(s)
<1>1. n \in Nat /\ DOMAIN s = 1 .. n
  OBVIOUS
<1>2. IsFiniteSet(R) /\ Cardinality(R) = n /\ \A e, f \in R : e[1] = f[1] => e = f
  BY RangeCount
<1>3. ASSUME NEW e \in R PROVE e \in Bytes \X P /\ e[1] \in Nat
  <2>1. PICK i \in 1 .. n : s[i] = e
    BY <1>1 DEF Range
  <2>2. e \in Bytes \X P
    BY <2>1
  <2> QED
    BY <2>2, Constants DEF Bytes
<1> HIDE DEF R, n
<1>4. ASSUME NEW e \in R PROVE IsFiniteSet(Lower(e)) /\ rank[e] \in 0 .. n - 1
  <2>1. Lower(e) \in SUBSET (R \ {e})
    BY <1>3
  <2>2. IsFiniteSet(R \ {e}) /\ Cardinality(R \ {e}) = n - 1
    BY <1>2, FS_RemoveElement
  <2>3. IsFiniteSet(Lower(e)) /\ Cardinality(Lower(e)) <= n - 1
    BY <2>1, <2>2, FS_Subset
  <2>4. Cardinality(Lower(e)) \in Nat
    BY <2>3, FS_CardinalityType
  <2>5. rank[e] = Cardinality(Lower(e))
    OBVIOUS
  <2> HIDE DEF Lower, rank
  <2> QED
    BY <1>1, <2>3, <2>4, <2>5
<1>5. ASSUME NEW e \in R, NEW f \in R, e[1] < f[1] PROVE rank[e] < rank[f]
  <2>1. Lower(e) \cup {e} \in SUBSET Lower(f)
    BY <1>3, <1>5
  <2>2. IsFiniteSet(Lower(e) \cup {e}) /\ Cardinality(Lower(e) \cup {e}) = Cardinality(Lower(e)) + 1
    <3>1. e \notin Lower(e) /\ IsFiniteSet(Lower(e))
      BY <1>3, <1>4
    <3> HIDE DEF Lower
    <3> QED
      BY <3>1, FS_AddElement
  <2>3. Cardinality(Lower(e)) + 1 <= Cardinality(Lower(f))
    <3>1. IsFiniteSet(Lower(f))
      BY <1>4
    <3> HIDE DEF Lower
    <3> QED
      BY <2>1, <2>2, <3>1, FS_Subset
  <2>4. rank[e] = Cardinality(Lower(e)) /\ rank[f] = Cardinality(Lower(f))
    OBVIOUS
  <2>5. rank[e] \in Nat /\ rank[f] \in Nat
    <3> HIDE DEF rank, Lower
    <3> QED
      BY <1>1, <1>4
  <2> HIDE DEF Lower, rank
  <2> QED
    BY <2>3, <2>4, <2>5
<1>6. ASSUME NEW e \in R, NEW f \in R, rank[e] = rank[f] PROVE e = f
  <2>1. e[1] \in Nat /\ f[1] \in Nat /\ rank[e] \in Nat /\ rank[f] \in Nat
    <3> HIDE DEF rank, Lower
    <3> QED
      BY <1>1, <1>3, <1>4
  <2>2. ~(e[1] < f[1]) /\ ~(f[1] < e[1])
    <3> HIDE DEF rank
    <3> QED
      BY <2>1, <1>5, <1>6
  <2>3. e[1] = f[1]
    BY <2>1, <2>2
  <2> QED
    BY <2>3, <1>2
<1>7. rank \in Injection(R, 0 .. n - 1)
  <2>1. rank \in [R -> 0 .. n - 1]
    <3>1. rank = [e \in R |-> rank[e]]
      OBVIOUS
    <3> HIDE DEF rank
    <3> QED
      BY <3>1, <1>4
  <2> HIDE DEF rank
  <2> QED
    BY <2>1, <1>6 DEF Injection, IsInjective
<1>8. \A i \in 0 .. n - 1 : \E e \in R : rank[e] = i
  <2>1. IsFiniteSet(0 .. n - 1) /\ Cardinality(0 .. n - 1) = n
    <3>1. CASE n = 0
      <4>1. 0 .. n - 1 = {}
        BY <3>1
      <4> QED
        BY <4>1, <3>1, FS_EmptySet
    <3>2. CASE n > 0
      <4>1. n - 1 \in Int /\ ~(0 > n - 1) /\ (n - 1) - 0 + 1 = n
        BY <1>1, <3>2
      <4> QED
        BY <4>1, FS_Interval
    <3> QED
      BY <1>1, <3>1, <3>2
  <2>2. rank \in Surjection(R, 0 .. n - 1)
    <3> HIDE DEF rank
    <3> QED
      BY <1>2, <1>7, <2>1, FS_Injection
  <2> HIDE DEF rank
  <2> QED
    BY <2>2 DEF Surjection
<1>9. t = [i \in 1 .. n |-> CHOOSE e \in R : rank[e] = i - 1]
  <2>1. t = [i \in 1 .. n |-> CHOOSE e \in R : Cardinality(Lower(e)) = i - 1]
    BY <1>1 DEF ByByte, R
  <2>2. ASSUME NEW i \in 1 .. n
        PROVE  (CHOOSE e \in R : Cardinality(Lower(e)) = i - 1) =
               (CHOOSE e \in R : rank[e] = i - 1)
    OBVIOUS
  <2> DEFINE c(i) == CHOOSE e \in R : Cardinality(Lower(e)) = i - 1
             d(i) == CHOOSE e \in R : rank[e] = i - 1
  <2>3. \A i \in 1 .. n : c(i) = d(i)
    BY <2>2
  <2> HIDE DEF c, d, t
  <2>4. [i \in 1 .. n |-> c(i)] = [i \in 1 .. n |-> d(i)]
    BY <2>3
  <2> QED
    BY <2>1, <2>4 DEF c, d
<1> HIDE DEF t, rank, Lower
<1>10. ASSUME NEW i \in 1 .. n PROVE t[i] \in R /\ rank[t[i]] = i - 1
  <2>1. i - 1 \in 0 .. n - 1
    BY <1>1
  <2>2. \E e \in R : rank[e] = i - 1
    BY <1>8, <2>1
  <2>3. t[i] = CHOOSE e \in R : rank[e] = i - 1
    BY <1>9
  <2> QED
    BY <2>2, <2>3
<1>11. DOMAIN t = 1 .. n
  BY <1>9
<1>12. t \in Seq(Bytes \X P) /\ Len(t) = n
  <2>1. \A i \in 1 .. n : t[i] \in Bytes \X P
    BY <1>3, <1>10
  <2>2. t = [i \in 1 .. n |-> t[i]]
    BY <1>9
  <2> QED
    BY <1>1, <2>1, <2>2
<1>13. Range(t) = R
  <2>1. ASSUME NEW e \in R PROVE \E i \in 1 .. n : t[i] = e
    <3>1. rank[e] \in 0 .. n - 1
      BY <1>4
    <3>2. rank[e] + 1 \in 1 .. n /\ (rank[e] + 1) - 1 = rank[e]
      BY <3>1, <1>1
    <3>3. t[rank[e] + 1] = e
      BY <3>2, <1>6, <1>10
    <3> QED
      BY <3>2, <3>3
  <2> QED
    BY <2>1, <1>10, <1>11 DEF Range
<1>14. Distinct(t)
  <2> SUFFICES ASSUME NEW i \in 1 .. n, NEW j \in 1 .. n, t[i][1] = t[j][1] PROVE i = j
    BY <1>11 DEF Distinct
  <2>1. t[i] = t[j]
    BY <1>2, <1>10
  <2>2. i - 1 = j - 1
    BY <1>10, <2>1
  <2> QED
    BY <2>2
<1>15. Sorted(t)
  <2> SUFFICES ASSUME NEW i \in 1 .. n, NEW j \in 1 .. n, i < j, ~(t[i][1] < t[j][1])
               PROVE  FALSE
    BY <1>11 DEF Sorted
  <2>1. /\ t[i] \in R /\ t[j] \in R /\ rank[t[i]] = i - 1 /\ rank[t[j]] = j - 1
        /\ t[i][1] \in Nat /\ t[j][1] \in Nat
    BY <1>3, <1>10
  <2>2. t[j][1] < t[i][1] \/ t[i][1] = t[j][1]
    BY <2>1
  <2>3. CASE t[j][1] < t[i][1]
    <3>1. j - 1 < i - 1
      BY <1>5, <2>1, <2>3
    <3> QED
      BY <3>1
  <2>4. CASE t[i][1] = t[j][1]
    BY <1>14, <1>11, <2>4 DEF Distinct
  <2> QED
    BY <2>2, <2>3, <2>4
<1> QED
  BY <1>12, <1>13, <1>14, <1>15 DEF t, R, n

LEMMA OrderedFacts ==
  ASSUME NEW P, NEW s \in Seq(Bytes \X P), Distinct(s), NEW t \in 1 .. 4
  PROVE  LET r == Ordered(t, s)
         IN  /\ r \in Seq(Bytes \X P) /\ Len(r) = Len(s) /\ Range(r) = Range(s)
             /\ Distinct(r) /\ (t >= 3 => Sorted(r))
<1>1. CASE t >= 3
  BY <1>1, ByByteFacts DEF Ordered
<1>2. CASE ~(t >= 3)
  BY <1>2 DEF Ordered
<1> QED
  BY <1>1, <1>2

-----------------------------------------------------------------------------
(* The edges that an operation gives a node                                *)

LEMMA RemoveAtFacts ==
  ASSUME NEW S, NEW s \in Seq(S), NEW i \in 1 .. Len(s)
  PROVE  LET r == RemoveAt(s, i)
         IN  /\ r \in Seq(S) /\ Len(r) = Len(s) - 1
             /\ \A j \in 1 .. Len(r) : r[j] = IF j < i THEN s[j] ELSE s[j + 1]
<1> DEFINE r == RemoveAt(s, i)
           n == Len(s)
           a == SubSeq(s, 1, i - 1)
           b == SubSeq(s, i + 1, n)
<1>1. n \in Nat /\ i \in Nat /\ 1 <= i /\ i <= n
  OBVIOUS
<1>2. a \in Seq(S) /\ Len(a) = i - 1 /\ \A j \in 1 .. i - 1 : a[j] = s[j]
  <2>1. i - 1 \in Nat /\ i - 1 <= Len(s)
    BY <1>1
  <2> QED
    BY <2>1, FirstPart
<1>3. b \in Seq(S) /\ Len(b) = n - i /\ \A j \in 1 .. n - i : b[j] = s[i + j]
  <2>1. \A j \in i + 1 .. n : s[j] \in S
    BY <1>1
  <2>2. i + 1 \in Int /\ n \in Int
    BY <1>1
  <2>3. b \in Seq(S) /\ Len(b) = IF i + 1 <= n THEN n - (i + 1) + 1 ELSE 0
    BY <2>1, <2>2, SubSeqProperties
  <2>4. \A j \in 1 .. n - i : b[j] = s[i + j]
    BY <1>1
  <2> QED
    BY <1>1, <2>3, <2>4
<1>4. r = a \o b
  BY DEF RemoveAt
<1> HIDE DEF a, b, n, r
<1>5. r \in Seq(S) /\ Len(r) = n - 1
  <2>1. r \in Seq(S) /\ Len(r) = Len(a) + Len(b)
    <3>1. a \in Seq(S) /\ b \in Seq(S)
      BY <1>2, <1>3
    <3> QED
      BY <3>1, <1>4, ConcatProperties
  <2>2. (i - 1) + (n - i) = n - 1
    BY <1>1
  <2> QED
    BY <1>2, <1>3, <2>1, <2>2
<1>6. ASSUME NEW j \in 1 .. n - 1 PROVE r[j] = IF j < i THEN s[j] ELSE s[j + 1]
  <2>1. CASE j < i
    <3>1. j \in 1 .. i - 1
      BY <1>1, <2>1
    <3> QED
      BY <1>2, <1>3, <1>4, <2>1, <3>1
  <2>2. CASE j >= i
    <3> DEFINE m == j - (i - 1)
    <3>1. m \in 1 .. n - i /\ i + m = j + 1 /\ j = Len(a) + m
      BY <1>1, <1>2, <2>2
    <3>2. r[j] = b[m]
      BY <1>1, <1>2, <1>3, <1>4, <3>1
    <3>3. b[m] = s[i + m]
      BY <1>3, <3>1
    <3> HIDE DEF m
    <3>4. ~(j < i)
      BY <1>1, <2>2
    <3> QED
      BY <3>1, <3>2, <3>3, <3>4
  <2> QED
    BY <1>1, <2>1, <2>2
<1> QED
  BY <1>5, <1>6 DEF r, n

LEMMA RemovedFacts ==
  ASSUME NEW S, NEW s \in Seq(S), Distinct(s), NEW i \in 1 .. Len(s)
  PROVE  LET r == RemoveAt(s, i)
         IN  /\ Distinct(r) /\ Range(r) = Range(s) \ {s[i]} /\ (Sorted(s) => Sorted(r))
<1> DEFINE r == RemoveAt(s, i)
           n == Len(s)
           to(j) == IF j < i THEN j ELSE j + 1
<1>1. n \in Nat /\ i \in Nat /\ 1 <= i /\ i <= n /\ DOMAIN s = 1 .. n
  OBVIOUS
<1>2. r \in Seq(S) /\ Len(r) = n - 1 /\ \A j \in 1 .. n - 1 : r[j] = s[to(j)]
  BY RemoveAtFacts
<1>3. DOMAIN r = 1 .. n - 1
  BY <1>1, <1>2
<1>4. /\ \A j \in 1 .. n - 1 : to(j) \in 1 .. n /\ to(j) # i
      /\ \A j, m \in 1 .. n - 1 : (j < m => to(j) < to(m)) /\ (to(j) = to(m) => j = m)
      /\ \A m \in 1 .. n : m # i => \E j \in 1 .. n - 1 : to(j) = m
  <2>1. \A j \in 1 .. n - 1 : to(j) \in 1 .. n /\ to(j) # i
    BY <1>1
  <2>2. \A j, m \in 1 .. n - 1 : (j < m => to(j) < to(m)) /\ (to(j) = to(m) => j = m)
    BY <1>1
  <2>3. ASSUME NEW m \in 1 .. n, m # i PROVE \E j \in 1 .. n - 1 : to(j) = m
    <3>1. CASE m < i
      <4>1. m \in 1 .. n - 1 /\ to(m) = m
        BY <1>1, <3>1
      <4> QED
        BY <4>1
    <3>2. CASE m > i
      <4>1. m - 1 \in 1 .. n - 1 /\ to(m - 1) = m
        BY <1>1, <3>2
      <4> QED
        BY <4>1
    <3> QED
      BY <1>1, <2>3, <3>1, <3>2
  <2> QED
    BY <2>1, <2>2, <2>3
<1> HIDE DEF to, r, n
<1>5. Distinct(r)
  <2> SUFFICES ASSUME NEW j \in 1 .. n - 1, NEW m \in 1 .. n - 1, r[j][1] = r[m][1]
               PROVE  j = m
    BY <1>3 DEF Distinct
  <2>1. s[to(j)][1] = s[to(m)][1] /\ to(j) \in 1 .. n /\ to(m) \in 1 .. n
    BY <1>2, <1>4
  <2>2. to(j) = to(m)
    BY <1>1, <2>1 DEF Distinct
  <2> QED
    BY <1>4, <2>2
<1>6. ASSUME NEW e \in Range(r) PROVE e \in Range(s) \ {s[i]}
  <2>1. PICK j \in 1 .. n - 1 : e = s[to(j)]
    BY <1>2, <1>3 DEF Range
  <2>2. to(j) \in 1 .. n /\ i \in 1 .. n /\ to(j) # i
    BY <1>1, <1>4
  <2>3. s[to(j)] # s[i]
    BY <1>1, <2>2 DEF Distinct
  <2> QED
    BY <1>1, <2>1, <2>2, <2>3 DEF Range
<1>7. ASSUME NEW e \in Range(s), e # s[i] PROVE e \in Range(r)
  <2>1. PICK m \in 1 .. n : e = s[m]
    BY <1>1 DEF Range
  <2>2. m # i
    BY <1>7, <2>1
  <2>3. PICK j \in 1 .. n - 1 : to(j) = m
    BY <1>4, <2>2
  <2> QED
    BY <1>2, <1>3, <2>1, <2>3 DEF Range
<1>8. Sorted(s) => Sorted(r)
  BY <1>1, <1>2, <1>3, <1>4 DEF Sorted
<1> QED
  BY <1>5, <1>6, <1>7, <1>8 DEF r

LEMMA AppendFacts ==
  ASSUME NEW S, NEW s \in Seq(S), Distinct(s), NEW e \in S, \A f \in Range(s) : f[1] # e[1]
  PROVE  LET r == Append(s, e)
         IN  /\ r \in Seq(S) /\ Len(r) = Len(s) + 1
             /\ Distinct(r) /\ Range(r) = Range(s) \cup {e}
<1> DEFINE r == Append(s, e)
           n == Len(s)
<1>1. n \in Nat /\ DOMAIN s = 1 .. n
  OBVIOUS
<1>2. /\ r \in Seq(S) /\ Len(r) = n + 1 /\ DOMAIN r = 1 .. n + 1
      /\ \A i \in 1 .. n : r[i] = s[i]
      /\ r[n + 1] = e
  OBVIOUS
<1> HIDE DEF r, n
<1>3. \A i \in 1 .. n + 1 : i \in 1 .. n \/ i = n + 1
  BY <1>1
<1>4. \A i \in 1 .. n : i \in 1 .. n + 1 /\ s[i] \in Range(s)
  BY <1>1 DEF Range
<1>5. n + 1 \in 1 .. n + 1
  BY <1>1
<1>6. Distinct(r)
  <2> SUFFICES ASSUME NEW i \in 1 .. n + 1, NEW j \in 1 .. n + 1, r[i][1] = r[j][1]
               PROVE  i = j
    BY <1>2 DEF Distinct
  <2>1. CASE i \in 1 .. n /\ j \in 1 .. n
    BY <1>1, <1>2, <2>1 DEF Distinct
  <2>2. CASE i = n + 1 /\ j \in 1 .. n
    BY <1>2, <1>4, <2>2
  <2>3. CASE i \in 1 .. n /\ j = n + 1
    BY <1>2, <1>4, <2>3
  <2> QED
    BY <1>3, <2>1, <2>2, <2>3
<1>7. Range(r) = Range(s) \cup {e}
  <2>1. ASSUME NEW f \in Range(r) PROVE f \in Range(s) \cup {e}
    <3>1. PICK i \in 1 .. n + 1 : f = r[i]
      BY <1>2 DEF Range
    <3> QED
      BY <3>1, <1>2, <1>3, <1>4
  <2>2. ASSUME NEW f \in Range(s) PROVE f \in Range(r)
    <3>1. PICK i \in 1 .. n : f = s[i]
      BY <1>1 DEF Range
    <3> QED
      BY <3>1, <1>2, <1>4 DEF Range
  <2>3. e \in Range(r)
    BY <1>2, <1>5 DEF Range
  <2> QED
    BY <2>1, <2>2, <2>3
<1> QED
  BY <1>2, <1>6, <1>7 DEF r, n

(* The edges es suit a node of a tree with the leaves lv2.                 *)
EdgesFit(ns, lv, word, p, es, lv2) ==
  /\ DOMAIN lv2 \subseteq Keys /\ IsFiniteSet(DOMAIN lv2)
  /\ es \in Seq(Bytes \X Ptrs(ns, lv2)) /\ Distinct(es)
  /\ \A e \in NewEdges(ns, p, es) : e[2] \notin Ptrs(ns, lv) /\ Leads(ns, word, p, e)
  /\ \A e, f \in NewEdges(ns, p, es) : e = f
  /\ Ptrs(ns, lv2) = (Ptrs(ns, lv) \ {e[2] : e \in Edges(ns, p) \ Range(es)})
                     \cup {e[2] : e \in NewEdges(ns, p, es)}

LEMMA FitTree ==
  ASSUME NEW ns, NEW lv, NEW rt, NEW word, Tree(ns, lv, rt, word), NEW p \in DOMAIN ns,
         NEW es, NEW lv2, EdgesFit(ns, lv, word, p, es, lv2),
         NEW ns2, DOMAIN ns2 = DOMAIN ns,
         \A n \in DOMAIN ns : ns2[n] = IF n = p THEN [ns[p] EXCEPT !.edges = es] ELSE ns[n]
  PROVE  Tree(ns2, lv2, rt, word)
  BY TreeEdges DEF EdgesFit

LEMMA OrderedFit ==
  ASSUME NEW ns, NEW lv, NEW word, NEW p, NEW es, NEW lv2,
         EdgesFit(ns, lv, word, p, es, lv2), NEW t \in 1 .. 4
  PROVE  EdgesFit(ns, lv, word, p, Ordered(t, es), lv2)
<1> DEFINE r == Ordered(t, es)
<1>1. es \in Seq(Bytes \X Ptrs(ns, lv2)) /\ Distinct(es)
  BY DEF EdgesFit
<1>2. r \in Seq(Bytes \X Ptrs(ns, lv2)) /\ Range(r) = Range(es) /\ Distinct(r)
  BY <1>1, OrderedFacts
<1> HIDE DEF r
<1>3. NewEdges(ns, p, r) = NewEdges(ns, p, es)
  BY <1>2 DEF NewEdges
<1>4. EdgesFit(ns, lv, word, p, r, lv2)
  BY <1>2, <1>3 DEF EdgesFit
<1> QED
  BY <1>4 DEF r

LEMMA SameFit ==
  ASSUME NEW ns, NEW lv, NEW rt, NEW word, Tree(ns, lv, rt, word), NEW p \in DOMAIN ns
  PROVE  EdgesFit(ns, lv, word, p, ns[p].edges, lv)
<1>1. ns[p] \in Nodes(Ptrs(ns, lv)) /\ Distinct(ns[p].edges)
      /\ DOMAIN lv \subseteq Keys /\ IsFiniteSet(DOMAIN lv)
  BY DEF Tree, Shape
<1>2. ns[p].edges \in Seq(Bytes \X Ptrs(ns, lv))
  BY <1>1 DEF Nodes
<1>3. Edges(ns, p) \ Range(ns[p].edges) = {} /\ NewEdges(ns, p, ns[p].edges) = {}
  BY DEF Edges, NewEdges
<1>4. {e[2] : e \in Edges(ns, p) \ Range(ns[p].edges)} = {}
      /\ {e[2] : e \in NewEdges(ns, p, ns[p].edges)} = {}
  BY <1>3
<1> QED
  BY <1>1, <1>2, <1>3, <1>4 DEF EdgesFit

LEMMA AddFit ==
  ASSUME NEW ns, NEW lv, NEW rt, NEW word, Tree(ns, lv, rt, word), NEW p \in DOMAIN ns,
         NEW k \in Keys, k \notin DOMAIN lv, Agree(word[p], k),
         \A e \in Edges(ns, p) : e[1] # Char(k, Len(word[p])),
         NEW lv2, DOMAIN lv2 = DOMAIN lv \cup {k}
  PROVE  LET es == Append(ns[p].edges, <<Char(k, Len(word[p])), Leaf(k)>>)
         IN  /\ EdgesFit(ns, lv, word, p, es, lv2)
             /\ Len(es) = Len(ns[p].edges) + 1
<1> DEFINE b == Char(k, Len(word[p]))
           new == <<b, Leaf(k)>>
           P == Ptrs(ns, lv)
           P2 == Ptrs(ns, lv2)
           es == Append(ns[p].edges, new)
<1>0. Shape(ns, lv) /\ new[1] = b /\ new[2] = Leaf(k)
  BY DEF Tree
<1>1. /\ ns[p] \in Nodes(P) /\ Distinct(ns[p].edges)
      /\ DOMAIN lv \subseteq Keys /\ IsFiniteSet(DOMAIN lv)
  BY <1>0 DEF Tree, Shape
<1>2. DOMAIN lv2 \subseteq Keys /\ IsFiniteSet(DOMAIN lv2)
  <2>1. IsFiniteSet(DOMAIN lv \cup {k})
    BY <1>1, FS_AddElement
  <2> QED
    BY <1>1, <2>1
<1>3. P2 = P \cup {Leaf(k)} /\ Leaf(k) \notin P
  <2>1. Leaf(k) \notin P
    BY <1>0, ShapeFacts
  <2>2. LeavesOf(lv2) = LeavesOf(lv) \cup {Leaf(k)}
    BY DEF LeavesOf
  <2> QED
    BY <2>1, <2>2 DEF Ptrs
<1>4. b \in Bytes
  <2>1. k \in Words /\ Len(word[p]) \in Nat
    BY Constants, TreeFacts
  <2> QED
    BY <2>1, CharFacts
<1>5. ns[p].edges \in Seq(Bytes \X P2) /\ new \in Bytes \X P2
  <2>1. ns[p].edges \in Seq(Bytes \X P)
    BY <1>1 DEF Nodes
  <2>2. P \subseteq P2 /\ Leaf(k) \in P2
    BY <1>3
  <2> HIDE DEF P, P2, b
  <2>3. \A i \in DOMAIN ns[p].edges : ns[p].edges[i] \in Bytes \X P2
    <3>1. \A i \in DOMAIN ns[p].edges : ns[p].edges[i] \in Bytes \X P
      BY <2>1
    <3> QED
      BY <2>2, <3>1
  <2>4. ns[p].edges \in Seq(Bytes \X P2)
    BY <2>1, <2>3, SeqInto
  <2> QED
    BY <1>4, <2>2, <2>4
<1>6. \A f \in Range(ns[p].edges) : f[1] # new[1]
  BY <1>0 DEF Edges
<1> HIDE DEF new, es, P, P2, b
<1>7. /\ es \in Seq(Bytes \X P2) /\ Len(es) = Len(ns[p].edges) + 1
      /\ Distinct(es) /\ Range(es) = Range(ns[p].edges) \cup {new}
  BY <1>1, <1>5, <1>6, AppendFacts DEF es
<1>8. NewEdges(ns, p, es) = {new} /\ Edges(ns, p) \ Range(es) = {}
  <2>1. new \notin Edges(ns, p)
    BY <1>6 DEF Edges
  <2> QED
    BY <1>7, <2>1 DEF Edges, NewEdges
<1>9. Leads(ns, word, p, new)
  <2>1. Word(word, Leaf(k)) = k /\ IsLeaf(Leaf(k))
    BY PtrFacts DEF Word
  <2> QED
    BY <1>0, <2>1 DEF Leads, b
<1>10. {e[2] : e \in Edges(ns, p) \ Range(es)} = {} /\ {e[2] : e \in NewEdges(ns, p, es)} = {Leaf(k)}
  BY <1>0, <1>8
<1>11. EdgesFit(ns, lv, word, p, es, lv2)
  BY <1>0, <1>2, <1>3, <1>7, <1>8, <1>9, <1>10 DEF EdgesFit, P, P2
<1> QED
  BY <1>7, <1>11 DEF es, new, b

LEMMA CutFit ==
  ASSUME NEW word, Tree(nodes, leaves, root, word), NEW p \in DOMAIN nodes,
         NEW k \in DOMAIN leaves, NEW b, <<b, Leaf(k)>> \in Edges(nodes, p),
         NEW lv2, DOMAIN lv2 = DOMAIN leaves \ {k}
  PROVE  LET es == Remaining(p, k)
         IN  /\ EdgesFit(nodes, leaves, word, p, es, lv2)
             /\ Len(es) = Len(nodes[p].edges) - 1
             /\ Range(es) = Edges(nodes, p) \ {<<b, Leaf(k)>>}
             /\ Sorted(nodes[p].edges) => Sorted(es)
             /\ Distinct(es)
<1> DEFINE old == <<b, Leaf(k)>>
           P == Ptrs(nodes, leaves)
           P2 == Ptrs(nodes, lv2)
           s == nodes[p].edges
           i == CHOOSE j \in DOMAIN s : s[j][2] = Leaf(k)
           es == Remaining(p, k)
<1>0. Shape(nodes, leaves) /\ OnePointer(nodes, leaves, root) /\ old[1] = b /\ old[2] = Leaf(k)
  BY DEF Tree
<1>1. /\ nodes[p] \in Nodes(P) /\ Distinct(s)
      /\ DOMAIN leaves \subseteq Keys /\ IsFiniteSet(DOMAIN leaves)
  BY <1>0 DEF Tree, Shape
<1>2. s \in Seq(Bytes \X P)
  BY <1>1 DEF Nodes
<1>3. i \in DOMAIN s /\ s[i] = old
  <2>1. \E j \in DOMAIN s : s[j][2] = Leaf(k)
    <3>1. PICK j \in DOMAIN s : s[j] = old
      BY DEF Edges, Range
    <3> QED
      BY <1>0, <3>1
  <2>2. i \in DOMAIN s /\ s[i][2] = Leaf(k)
    BY <2>1
  <2> HIDE DEF i
  <2>3. s[i] \in Edges(nodes, p)
    BY <2>2 DEF Edges, Range
  <2>4. s[i] = old
    BY <1>0, <2>2, <2>3 DEF OnePointer
  <2> QED
    BY <2>2, <2>4
<1>4. es = RemoveAt(s, i)
  BY DEF Remaining
<1> HIDE DEF i, es, P, P2, old
<1>5. i \in 1 .. Len(s)
  BY <1>2, <1>3
<1>6. /\ es \in Seq(Bytes \X P) /\ Len(es) = Len(s) - 1
      /\ Distinct(es) /\ Range(es) = Range(s) \ {old} /\ (Sorted(s) => Sorted(es))
  <2> HIDE DEF s
  <2> QED
    BY <1>1, <1>2, <1>3, <1>4, <1>5, RemoveAtFacts, RemovedFacts
<1>7. P2 = P \ {Leaf(k)}
  <2>1. LeavesOf(lv2) = LeavesOf(leaves) \ {Leaf(k)}
    BY PtrFacts DEF LeavesOf
  <2>2. Leaf(k) \notin DOMAIN nodes
    BY <1>0, ShapeFacts, PtrFacts
  <2> QED
    BY <2>1, <2>2 DEF Ptrs, P, P2
<1>8. es \in Seq(Bytes \X P2)
  <2>1. \A j \in DOMAIN es : es[j] \in Bytes \X P2
    <3> TAKE j \in DOMAIN es
    <3>1. es[j] \in Range(es)
      BY DEF Range
    <3>2. es[j] \in Edges(nodes, p) /\ es[j] # old
      BY <1>6, <3>1 DEF Edges
    <3>3. es[j][2] # Leaf(k)
      BY <1>0, <3>2 DEF OnePointer, old
    <3>4. es[j] \in Bytes \X P
      BY <1>6
    <3> QED
      BY <1>7, <3>3, <3>4
  <2> QED
    BY <1>6, <2>1, SeqInto
<1>9. NewEdges(nodes, p, es) = {} /\ Edges(nodes, p) \ Range(es) = {old}
  <2>1. old \in Edges(nodes, p)
    BY DEF old
  <2> QED
    BY <1>6, <2>1 DEF Edges, NewEdges
<1>10. /\ {e[2] : e \in Edges(nodes, p) \ Range(es)} = {Leaf(k)}
       /\ {e[2] : e \in NewEdges(nodes, p, es)} = {}
  BY <1>0, <1>9
<1>11. DOMAIN lv2 \subseteq Keys /\ IsFiniteSet(DOMAIN lv2)
  BY <1>1, FS_Subset
<1>12. EdgesFit(nodes, leaves, word, p, es, lv2)
  BY <1>6, <1>7, <1>8, <1>9, <1>10, <1>11 DEF EdgesFit, P, P2
<1> QED
  BY <1>6, <1>12 DEF es, old, Edges

-----------------------------------------------------------------------------
(* Blocks and pointers to them                                             *)

LEMMA AllocFacts ==
  ASSUME Shape(nodes, leaves), NEW t \in 1 .. 4, CanAlloc(t)
  PROVE  Alloc(t) \in Addresses /\ Alloc(t) \notin DOMAIN nodes /\ Tier(Alloc(t)) = t
<1> DEFINE N == {n \in 1 .. NodesPerTier : <<t, n>> \notin DOMAIN nodes}
           all == {<<t, n>> : n \in 1 .. NodesPerTier}
<1>1. N # {}
  <2> SUFFICES ASSUME N = {} PROVE FALSE
    OBVIOUS
  <2>1. \A n \in 1 .. NodesPerTier : <<t, n>> \in Blocks(t)
    BY DEF Blocks, Tier
  <2>2. IsFiniteSet(Blocks(t))
    <3>1. IsFiniteSet(DOMAIN nodes)
      BY FiniteNodes
    <3> QED
      BY <3>1, FS_Subset DEF Blocks
  <2>3. [n \in 1 .. NodesPerTier |-> <<t, n>>] \in Injection(1 .. NodesPerTier, Blocks(t))
    BY <2>1 DEF Injection, IsInjective
  <2>4. Cardinality(1 .. NodesPerTier) = NodesPerTier
    BY Constants, FS_Interval
  <2>5. NodesPerTier <= Cardinality(Blocks(t))
    BY <2>2, <2>3, <2>4, FS_Injection
  <2>6. Cardinality(Blocks(t)) \in Nat
    BY <2>2, FS_CardinalityType
  <2> QED
    BY <2>5, <2>6, Constants DEF CanAlloc
<1>2. N \in SUBSET Nat
  BY Constants
<1>3. Min(N) \in N
  BY <1>1, <1>2, MinFacts
<1>4. Alloc(t) = <<t, Min(N)>>
  BY DEF Alloc
<1> QED
  BY <1>3, <1>4 DEF Addresses, Tiers, Tier

LEMMA AboveFacts ==
  ASSUME Shape(nodes, leaves), NEW up, NEW p, Above(up, p)
  PROVE  /\ up = NULL <=> root = p
         /\ up # NULL => up \in DOMAIN nodes /\ \E b : <<b, p>> \in Edges(nodes, up)
<1>1. \A n \in DOMAIN nodes : n # NULL
  BY ShapeFacts DEF Ptrs
<1> QED
  BY <1>1 DEF Above

LEMMA RedirectNone ==
  ASSUME NEW P, NEW n \in Nodes(P), NEW old, NEW new, \A f \in Range(n.edges) : f[2] # old
  PROVE  Redirect(n, old, new) = n
<1> DEFINE s == n.edges
           t == [i \in DOMAIN s |-> IF s[i][2] = old THEN <<s[i][1], new>> ELSE s[i]]
<1>1. s \in Seq(Bytes \X P)
  BY DEF Nodes
<1>2. \A i \in DOMAIN s : s[i][2] # old
  BY DEF Range
<1>3. t = s
  <2>1. t = [i \in DOMAIN s |-> s[i]]
    BY <1>2
  <2>2. s = [i \in DOMAIN s |-> s[i]]
    <3> HIDE DEF s
    <3> QED
      BY <1>1
  <2> QED
    BY <2>1, <2>2
<1>4. Redirect(n, old, new) = [n EXCEPT !.edges = t]
  BY DEF Redirect
<1> HIDE DEF t
<1> QED
  BY <1>3, <1>4 DEF Nodes

(* Every pointer to p becomes one to new.                                  *)
LEMMA RepointedFacts ==
  ASSUME NEW word, Tree(nodes, leaves, root, word), NEW up, NEW p, Above(up, p), NEW new
  PROVE  /\ DOMAIN Repointed(up, p, new) = DOMAIN nodes
         /\ \A n \in DOMAIN nodes : Repointed(up, p, new)[n] = Redirect(nodes[n], p, new)
         /\ RootAfter(up, new) = Swap(p, new, root)
<1>0. Shape(nodes, leaves) /\ OnePointer(nodes, leaves, root)
  BY DEF Tree
<1>1. RootAfter(up, new) = Swap(p, new, root)
  BY <1>0, AboveFacts DEF RootAfter, Swap
<1>2. ASSUME NEW n \in DOMAIN nodes, \A f \in Edges(nodes, n) : f[2] # p
      PROVE  Redirect(nodes[n], p, new) = nodes[n]
  <2>1. nodes[n] \in Nodes(Ptrs(nodes, leaves))
    BY <1>0 DEF Shape
  <2>2. \A f \in Range(nodes[n].edges) : f[2] # p
    BY <1>2 DEF Edges
  <2> QED
    BY <2>1, <2>2, RedirectNone
<1>3. CASE up = NULL
  <2>1. root = p /\ Repointed(up, p, new) = nodes
    BY <1>0, <1>3, AboveFacts DEF Repointed
  <2>2. \A n \in DOMAIN nodes : \A f \in Edges(nodes, n) : f[2] # p
    BY <1>0, <2>1 DEF OnePointer
  <2> QED
    BY <1>1, <1>2, <2>1, <2>2
<1>4. CASE up # NULL
  <2>1. up \in DOMAIN nodes
    BY <1>0, <1>4, AboveFacts
  <2>2. PICK b : <<b, p>> \in Edges(nodes, up)
    BY <1>0, <1>4, AboveFacts
  <2>3. Repointed(up, p, new) =
          [nodes EXCEPT ![up] = Redirect(nodes[up], p, new)]
    <3>1. nodes[up] \in Nodes(Ptrs(nodes, leaves))
      BY <1>0, <2>1 DEF Shape
    <3> QED
      BY <1>4, <2>1, <3>1 DEF Repointed, Redirect
  <2>4. ASSUME NEW n \in DOMAIN nodes, n # up PROVE \A f \in Edges(nodes, n) : f[2] # p
    <3>1. <<b, p>>[2] = p
      OBVIOUS
    <3> QED
      BY <1>0, <2>1, <2>2, <2>4, <3>1 DEF OnePointer
  <2>5. ASSUME NEW n \in DOMAIN nodes
        PROVE  Repointed(up, p, new)[n] = Redirect(nodes[n], p, new)
    <3>1. CASE n = up
      BY <2>1, <2>3, <3>1
    <3>2. CASE n # up
      BY <1>2, <2>1, <2>3, <2>4, <3>2
    <3> QED
      BY <3>1, <3>2
  <2> QED
    BY <1>1, <2>1, <2>3, <2>5
<1> QED
  BY <1>3, <1>4

(* A node that gets edges and moves to a block of another kind.            *)
LEMMA MorphTree ==
  ASSUME NEW word, Tree(nodes, leaves, root, word), NEW p \in DOMAIN nodes, NEW up,
         Above(up, p), NEW t \in 1 .. 4, CanAlloc(t), NEW es, NEW count, NEW lv2,
         EdgesFit(nodes, leaves, word, p, es, lv2), Morph(p, up, t, es, count)
  PROVE  \E w : Tree(nodes', lv2, root', w)
<1> DEFINE r == Ordered(t, es)
           q == Alloc(t)
           ns1 == [n \in DOMAIN nodes |->
                     IF n = p THEN [nodes[p] EXCEPT !.edges = r] ELSE nodes[n]]
<1>0. Shape(nodes, leaves)
  BY DEF Tree
<1>1. q \in Addresses /\ q \notin DOMAIN nodes
  BY <1>0, AllocFacts
<1>2. EdgesFit(nodes, leaves, word, p, r, lv2)
  BY OrderedFit
<1>3. DOMAIN ns1 = DOMAIN nodes /\
      \A n \in DOMAIN nodes : ns1[n] = IF n = p THEN [nodes[p] EXCEPT !.edges = r] ELSE nodes[n]
  OBVIOUS
<1>4. /\ DOMAIN nodes' = (DOMAIN nodes \ {p}) \cup {q}
      /\ nodes'[q] = [nodes[p] EXCEPT !.edges = r]
      /\ \A n \in DOMAIN nodes \ {p} : nodes'[n] = Repointed(up, p, q)[n]
      /\ root' = RootAfter(up, q)
  BY <1>1 DEF Morph
<1> HIDE DEF r, q, ns1
<1>5. Tree(ns1, lv2, root, word)
  BY <1>2, <1>3, FitTree
<1>6. /\ DOMAIN nodes' = (DOMAIN ns1 \ {p}) \cup {q} /\ nodes'[q] = ns1[p]
      /\ \A n \in DOMAIN ns1 \ {p} : nodes'[n] = Redirect(ns1[n], p, q)
      /\ root' = Swap(p, q, root)
  <2>1. /\ \A n \in DOMAIN nodes : Repointed(up, p, q)[n] = Redirect(nodes[n], p, q)
        /\ RootAfter(up, q) = Swap(p, q, root)
    BY RepointedFacts
  <2> QED
    BY <1>3, <1>4, <2>1
<1>7. Tree(nodes', lv2, Swap(p, q, root), MovedWord(nodes', word, p, q))
  <2>1. p \in DOMAIN ns1 /\ q \notin DOMAIN ns1
    BY <1>1, <1>3
  <2> QED
    BY <1>1, <1>5, <1>6, <2>1, MoveTree
<1> QED
  BY <1>6, <1>7
-----------------------------------------------------------------------------
(* The walk of an insertion                                                *)
DescEnds(k) == {at \in Places : \/ at[1] = NULL \/ IsLeaf(at[1])
                                \/ Parts(at[1], k, at[2])
                                \/ Onward(k, at)[1] = NULL}

(* The bytes of a node's path that match are those that k has.             *)
LEMMA MatchedFacts ==
  ASSUME NEW word, Tree(nodes, leaves, root, word), NEW p \in DOMAIN nodes,
         NEW k \in Words, NEW d, d = Depth(nodes, word, p), ~NoLeafToRead(p, k, d)
  PROVE  LET m == Matched(p, k, d)
         IN  /\ m \in Nat /\ m <= nodes[p].prefix_len
             /\ \A i \in 0 .. m - 1 : Char(k, d + i) = Char(word[p], d + i)
             /\ m < nodes[p].prefix_len => Char(k, d + m) # Char(word[p], d + m)
<1> DEFINE saved == check_prefix(p, k, d)
           pre == nodes[p].prefix
           len == nodes[p].prefix_len
           l == find_minimum_leaf(p)[2]
           m == Matched(p, k, d)
<1>1. /\ Shape(nodes, leaves) /\ PathOK(nodes, word, p)
      /\ len \in Nat /\ Len(pre) \in Nat /\ d \in Nat /\ Len(word[p]) \in Nat
      /\ word[p] \in Words /\ d + len = Len(word[p])
  <2>1. Shape(nodes, leaves) /\ PathOK(nodes, word, p)
    BY DEF Tree
  <2>2. len \in Nat /\ Len(pre) \in Nat
    BY <2>1, EdgeFacts
  <2>3. d \in Nat /\ Len(word[p]) \in Nat /\ word[p] \in Words
    BY TreeFacts
  <2> QED
    BY <2>1, <2>2, <2>3 DEF Depth
<1>2. /\ saved \in 0 .. Len(pre)
      /\ \A i \in 0 .. saved - 1 : pre[i + 1] = Char(k, d + i)
      /\ saved < Len(pre) => pre[saved + 1] # Char(k, d + saved)
  BY <1>1, PrefixFacts
<1>3. /\ Len(pre) <= MaxPrefix /\ Len(pre) <= len
      /\ Len(pre) = MaxPrefix \/ Len(pre) = len
      /\ \A i \in 0 .. Len(pre) - 1 : pre[i + 1] = Char(word[p], d + i)
  BY <1>1 DEF PathOK
<1>4. /\ \A i \in 0 .. saved - 1 : Char(k, d + i) = Char(word[p], d + i)
      /\ saved < Len(pre) => Char(k, d + saved) # Char(word[p], d + saved)
  <2>1. \A i \in 0 .. saved - 1 : i \in 0 .. Len(pre) - 1
    BY <1>1, <1>2
  <2>2. saved < Len(pre) => saved \in 0 .. Len(pre) - 1
    BY <1>1, <1>2
  <2> HIDE DEF saved, pre
  <2> QED
    BY <1>2, <1>3, <2>1, <2>2
<1>5. MaxPrefix \in Nat
  BY Constants
<1>6. CASE saved < Len(pre) \/ len <= MaxPrefix
  <2>1. m = saved
    BY <1>6 DEF Matched
  <2>2. m \in Nat /\ m <= len /\ (m < len => m < Len(pre))
    <3>1. saved \in Nat /\ saved <= Len(pre)
      BY <1>1, <1>2
    <3> HIDE DEF saved, pre, len, m
    <3> QED
      BY <1>1, <1>3, <1>5, <1>6, <2>1, <3>1
  <2> HIDE DEF saved, pre, len, m
  <2> QED
    BY <1>4, <2>1, <2>2 DEF len, m
<1>7. CASE ~(saved < Len(pre) \/ len <= MaxPrefix)
  <2>1. /\ find_minimum_leaf(p) \in LeavesOf(leaves)
        /\ p \in Up(nodes, leaves, find_minimum_leaf(p))
    <3>1. ~Differs(p, k, d) /\ nodes[p].prefix_len > MaxPrefix
      BY <1>1, <1>2, <1>5, <1>7 DEF Differs
    <3>2. find_minimum_leaf(p) # NULL
      BY <3>1 DEF NoLeafToRead
    <3>3. p \in Pointers
      BY PointersAre DEF Ptrs
    <3> QED
      BY <3>2, <3>3, FirstFacts
  <2>2. l \in Words /\ Agree(word[p], l)
    <3>1. l \in Words /\ IsLeaf(find_minimum_leaf(p))
      BY <1>1, <2>1, ShapeFacts
    <3>2. find_minimum_leaf(p) \in Ptrs(nodes, leaves)
      BY <2>1 DEF Ptrs
    <3>3. Agree(word[p], Word(word, find_minimum_leaf(p)))
      BY <2>1, <3>2, UpAgree
    <3> QED
      BY <3>1, <3>3 DEF Word
  <2> DEFINE S == {i \in saved .. len : Char(k, d + i) \in {0} \cup
                                   ((0 .. LastByte) \ {Char(l, d + i)})}
  <2>3. m = Min({len} \cup S)
    BY <1>7 DEF Matched
  <2>4. saved = Len(pre) /\ saved \in Nat /\ saved <= len
    <3> HIDE DEF saved, pre, len
    <3> QED
      BY <1>1, <1>2, <1>3, <1>7
  <2> HIDE DEF saved, pre, len, m, l
  <2>5. S \in SUBSET Nat /\ \A i \in S : i <= len
    BY <1>1, <2>4
  <2>6. m \in {len} \cup S /\ \A y \in {len} \cup S : m <= y
    <3> HIDE DEF S
    <3>1. {len} \cup S \in SUBSET Nat /\ {len} \cup S # {}
      BY <1>1, <2>5
    <3> QED
      BY <2>3, <3>1, MinFacts
  <2>7. m \in Nat /\ m <= len
    BY <1>1, <2>5, <2>6
  <2>8. \A i \in 0 .. len - 1 : /\ Char(l, d + i) = Char(word[p], d + i)
                                /\ Char(word[p], d + i) # 0
                                /\ Char(k, d + i) \in 0 .. LastByte
    <3> SUFFICES ASSUME NEW i \in 0 .. len - 1
                 PROVE  /\ Char(l, d + i) = Char(word[p], d + i)
                        /\ Char(word[p], d + i) # 0
                        /\ Char(k, d + i) \in 0 .. LastByte
      OBVIOUS
    <3>1. d + i \in Nat /\ d + i \in 0 .. Len(word[p]) - 1 /\ ~(d + i >= Len(word[p]))
      BY <1>1
    <3> DEFINE n == d + i
    <3> HIDE DEF n
    <3>2. n \in Nat /\ n \in 0 .. Len(word[p]) - 1 /\ ~(n >= Len(word[p]))
      BY <3>1 DEF n
    <3>3. /\ Char(l, n) = Char(word[p], n)
          /\ Char(word[p], n) # 0
          /\ Char(k, n) \in 0 .. LastByte
      BY <1>1, <2>2, <3>2, CharFacts DEF Agree, Bytes
    <3> QED
      BY <3>3 DEF n
  <2>9. ASSUME NEW i \in 0 .. m - 1 PROVE Char(k, d + i) = Char(word[p], d + i)
    <3>1. i \in Nat /\ i \in 0 .. len - 1 /\ ~(m <= i)
      BY <1>1, <2>7
    <3>2. CASE i < saved
      <4>1. i \in 0 .. saved - 1
        BY <2>4, <3>1, <3>2
      <4> QED
        BY <1>4, <4>1
    <3>3. CASE ~(i < saved)
      <4>1. i \notin S
        BY <2>6, <3>1
      <4>2. i \in saved .. len
        BY <1>1, <2>4, <3>1, <3>3
      <4>3. Char(k, d + i) \notin (0 .. LastByte) \ {Char(l, d + i)}
        BY <4>1, <4>2
      <4> QED
        BY <2>8, <3>1, <4>3
    <3> QED
      BY <3>2, <3>3
  <2>10. ASSUME m < len PROVE Char(k, d + m) # Char(word[p], d + m)
    <3>1. m \in S
      BY <1>1, <2>6, <2>7, <2>10
    <3>2. m \in 0 .. len - 1
      BY <1>1, <2>7, <2>10
    <3>3. Char(k, d + m) = 0 \/ Char(k, d + m) # Char(l, d + m)
      BY <3>1
    <3> HIDE DEF S
    <3> QED
      BY <2>8, <3>2, <3>3
  <2> QED
    BY <2>7, <2>9, <2>10 DEF len, m
<1> QED
  BY <1>6, <1>7

LEMMA MatchedBelow ==
  ASSUME NEW word, Tree(nodes, leaves, root, word), NEW p \in DOMAIN nodes,
         NEW k \in Words, NEW d, d = Depth(nodes, word, p), Agree(word[p], k),
         ~NoLeafToRead(p, k, d)
  PROVE  Matched(p, k, d) = nodes[p].prefix_len
<1> DEFINE m == Matched(p, k, d)
           len == nodes[p].prefix_len
<1>1. /\ m \in Nat /\ m <= len
      /\ m < len => Char(k, d + m) # Char(word[p], d + m)
  BY MatchedFacts
<1>2. len \in Nat /\ d \in Nat /\ d + len = Len(word[p]) /\ Len(word[p]) \in Nat
  <2>1. len \in Nat
    BY EdgeFacts DEF Tree
  <2>2. d \in Nat /\ Len(word[p]) \in Nat
    BY TreeFacts
  <2> QED
    BY <2>1, <2>2 DEF Depth
<1> HIDE DEF m, len
<1>3. m < len => d + m \in 0 .. Len(word[p]) - 1
  BY <1>1, <1>2
<1>4. ~(m < len)
  BY <1>1, <1>3 DEF Agree
<1> QED
  BY <1>1, <1>2, <1>4 DEF m, len

LEMMA DescendIs ==
  ASSUME NEW word, Tree(nodes, leaves, root, word), NEW k \in Words
  PROVE  LET path == Follow(k, DescEnds(k))
             x == Last(path)[1]
             d == Last(path)[2]
             at == Descend(k)
         IN  /\ Halts(DescEnds(k)) /\ Trail(k, DescEnds(k), path)
             /\ path \in Paths /\ Last(path) \in DescEnds(k)
             /\ at.node = x /\ at.up = Behind(path, 1)
             /\ at.why = IF x = NULL THEN "first"
                         ELSE IF IsLeaf(x) THEN IF x[2] = k THEN "same" ELSE "fork"
                         ELSE IF NoLeafToRead(x, k, d) THEN "no leaf"
                         ELSE IF Parts(x, k, d) THEN "fork" ELSE "add"
             /\ at.why = "fork" =>
                  at.depth = d /\ at.match = IF IsLeaf(x) THEN Agreement(k, x[2]) - d
                                             ELSE Matched(x, k, d)
             /\ at.why = "add" => at.depth = d + nodes[x].prefix_len
<1> DEFINE path == Follow(k, DescEnds(k))
           x == Last(path)[1]
           d == Last(path)[2]
           Stop(why, depth, match) ==
             [node |-> x, up |-> Behind(path, 1), depth |-> depth, match |-> match,
              why |-> why]
<1>1. Halts(DescEnds(k))
  BY DEF Halts, DescEnds
<1>2. Trail(k, DescEnds(k), path) /\ Last(path) \in DescEnds(k)
  BY <1>1, FollowFacts
<1>3. path \in Paths
  BY <1>2 DEF Trail
<1>4. Descend(k) = IF x = NULL THEN Stop("first", d, 0)
                   ELSE IF IsLeaf(x)
                   THEN Stop(IF x[2] = k THEN "same" ELSE "fork", d, Agreement(k, x[2]) - d)
                   ELSE IF NoLeafToRead(x, k, d) THEN Stop("no leaf", d, 0)
                   ELSE IF Parts(x, k, d) THEN Stop("fork", d, Matched(x, k, d))
                   ELSE Stop("add", d + nodes[x].prefix_len, 0)
  BY DEF Descend, DescEnds
<1>5. \A why, depth, match : LET r == Stop(why, depth, match)
                             IN  /\ r.node = x /\ r.up = Behind(path, 1) /\ r.depth = depth
                                 /\ r.match = match /\ r.why = why
  OBVIOUS
<1>6. PICK why, depth, match :
        /\ Descend(k) = Stop(why, depth, match)
        /\ why = IF x = NULL THEN "first"
                 ELSE IF IsLeaf(x) THEN IF x[2] = k THEN "same" ELSE "fork"
                 ELSE IF NoLeafToRead(x, k, d) THEN "no leaf"
                 ELSE IF Parts(x, k, d) THEN "fork" ELSE "add"
        /\ why = "fork" => depth = d /\ match = IF IsLeaf(x) THEN Agreement(k, x[2]) - d
                                                ELSE Matched(x, k, d)
        /\ why = "add" => depth = d + nodes[x].prefix_len
  <2> HIDE DEF path, x, d, Stop
  <2>1. CASE x = NULL
    BY <1>4, <2>1
  <2>2. CASE x # NULL /\ IsLeaf(x)
    <3>1. CASE x[2] = k
      BY <1>4, <2>2, <3>1
    <3>2. CASE x[2] # k
      BY <1>4, <2>2, <3>2
    <3> QED
      BY <3>1, <3>2
  <2>3. CASE x # NULL /\ ~IsLeaf(x)
    <3>1. CASE NoLeafToRead(x, k, d)
      <4>1. Descend(k) = Stop("no leaf", d, 0)
        BY <1>4, <2>3, <3>1
      <4>2. "no leaf" # "fork" /\ "no leaf" # "add"
        OBVIOUS
      <4> QED
        BY <2>3, <3>1, <4>1, <4>2, Zenon
    <3>2. CASE ~NoLeafToRead(x, k, d) /\ Parts(x, k, d)
      BY <1>4, <2>3, <3>2
    <3>3. CASE ~NoLeafToRead(x, k, d) /\ ~Parts(x, k, d)
      BY <1>4, <2>3, <3>3
    <3> QED
      BY <3>1, <3>2, <3>3
  <2> QED
    BY <2>1, <2>2, <2>3
<1>7. LET at == Descend(k)
      IN  at.node = x /\ at.up = Behind(path, 1) /\ at.depth = depth /\ at.match = match
          /\ at.why = why
  <2>1. LET r == Stop(why, depth, match)
        IN  /\ r.node = x /\ r.up = Behind(path, 1) /\ r.depth = depth
            /\ r.match = match /\ r.why = why
    BY <1>5
  <2> HIDE DEF path, x, Stop
  <2> QED
    BY <2>1, <1>6
<1> HIDE DEF path, x, d, Stop
<1> QED
  BY <1>1, <1>2, <1>3, <1>6, <1>7 DEF path, x, d

(* The nodes that an insertion passes begin its key, and so do the bytes   *)
(* before the place where it ends.                                         *)
LEMMA DescendAgrees ==
  ASSUME NEW word, Tree(nodes, leaves, root, word), NEW k \in Words,
         NEW path, Trail(k, DescEnds(k), path), NEW i \in 1 .. Len(path)
  PROVE  /\ path[i][1] # NULL =>
              \A j \in Nat : j < path[i][2] => Char(k, j) = Char(Word(word, path[i][1]), j)
         /\ path[i][1] \in DOMAIN nodes /\ ~Parts(path[i][1], k, path[i][2]) =>
              Agree(word[path[i][1]], k)
<1> DEFINE begins(n) == path[n][1] # NULL =>
              \A j \in Nat : j < path[n][2] => Char(k, j) = Char(Word(word, path[n][1]), j)
<1>0. /\ Shape(nodes, leaves) /\ path \in Paths /\ Len(path) \in Nat \ {0}
      /\ Halts(DescEnds(k))
  <2>1. Shape(nodes, leaves) /\ path \in Paths
    BY DEF Tree, Trail
  <2> QED
    BY <2>1, LastPlace DEF Halts, DescEnds
<1>1. begins(1)
  <2>1. path[1][2] = 0
    BY DEF Trail
  <2>2. \A j \in Nat : ~(j < 0)
    OBVIOUS
  <2> QED
    BY <2>1, <2>2
<1>2. ASSUME NEW n \in 1 .. Len(path), begins(n),
             path[n][1] \in DOMAIN nodes, ~Parts(path[n][1], k, path[n][2])
      PROVE  Agree(word[path[n][1]], k)
  <2> DEFINE q == path[n][1]
             d == path[n][2]
             m == Matched(q, k, d)
  <2>1. q # NULL /\ ~IsLeaf(q)
    BY <1>0, <1>2, ShapeFacts DEF Ptrs
  <2>2. d = Depth(nodes, word, q)
    BY <1>0, <1>2, OnTrail
  <2>3. ~NoLeafToRead(q, k, d) /\ ~(m < nodes[q].prefix_len)
    BY <1>2 DEF Parts
  <2>4. /\ m \in Nat /\ m <= nodes[q].prefix_len
        /\ \A i2 \in 0 .. m - 1 : Char(k, d + i2) = Char(word[q], d + i2)
    BY <1>2, <2>2, <2>3, MatchedFacts
  <2>5. d \in Nat /\ nodes[q].prefix_len \in Nat /\ d + nodes[q].prefix_len = Len(word[q])
        /\ Len(word[q]) \in Nat
    <3>1. nodes[q].prefix_len \in Nat
      BY <1>0, <1>2, EdgeFacts
    <3>2. d \in Nat /\ Len(word[q]) \in Nat
      BY <1>2, <2>2, TreeFacts
    <3> QED
      BY <2>2, <3>1, <3>2 DEF Depth
  <2>6. Word(word, q) = word[q]
    BY <1>2, TreeFacts
  <2>7. \A j \in Nat : j < d => Char(k, j) = Char(word[q], j)
    BY <1>2, <2>1, <2>6
  <2> HIDE DEF q, d, m
  <2>8. ASSUME NEW j \in 0 .. Len(word[q]) - 1 PROVE Char(k, j) = Char(word[q], j)
    <3>1. CASE j < d
      BY <2>7, <3>1
    <3>2. CASE ~(j < d)
      <4>0. \A a, b, c, len, all \in Nat :
              ~(a < b) /\ a <= all - 1 /\ b + len = all /\ ~(c < len)
                => a - b \in 0 .. c - 1 /\ b + (a - b) = a
        OBVIOUS
      <4>1. j - d \in 0 .. m - 1 /\ d + (j - d) = j
        <5>1. j \in Nat /\ j <= Len(word[q]) - 1
          BY <2>5
        <5> QED
          BY <2>3, <2>4, <2>5, <3>2, <4>0, <5>1
      <4>2. Char(k, d + (j - d)) = Char(word[q], d + (j - d))
        BY <2>4, <4>1
      <4> QED
        BY <4>1, <4>2
    <3> QED
      BY <3>1, <3>2
  <2> QED
    BY <2>8 DEF Agree, q
<1>3. ASSUME NEW n \in 1 .. Len(path), n > 1, begins(n - 1) PROVE begins(n)
  <2> SUFFICES ASSUME path[n][1] # NULL, NEW j \in Nat, j < path[n][2]
               PROVE  Char(k, j) = Char(Word(word, path[n][1]), j)
    OBVIOUS
  <2> DEFINE q == path[n - 1][1]
             c == path[n][1]
             b == Char(k, Len(word[q]))
  <2>1. q \in DOMAIN nodes /\ path[n][2] = Len(word[q]) + 1 /\ path[n - 1] \notin DescEnds(k)
        /\ c = Child(q, b)
    BY <1>0, <1>3, OnTrail
  <2>2. n - 1 \in 1 .. Len(path)
    BY <1>0, <1>3
  <2>3. path[n - 1] \in Places
    BY <1>0, <2>2, OnTrail
  <2>4. ~Parts(q, k, path[n - 1][2])
    BY <2>1, <2>3 DEF DescEnds
  <2>5. Agree(word[q], k)
    BY <1>2, <1>3, <2>1, <2>2, <2>4
  <2> HIDE DEF q, c
  <2>6. <<b, c>> \in Edges(nodes, q)
    <3> HIDE DEF b
    <3> QED
      BY <2>1, ChildFacts DEF c
  <2>7. Agree(word[q], Word(word, c)) /\ Char(Word(word, c), Len(word[q])) = b
    <3>1. <<b, c>>[1] = b /\ <<b, c>>[2] = c
      OBVIOUS
    <3> HIDE DEF b
    <3> QED
      BY <2>1, <2>6, <3>1, TreeFacts
  <2>8. Len(word[q]) \in Nat
    BY <2>1, TreeFacts
  <2>9. CASE j = Len(word[q])
    BY <2>7, <2>9 DEF c
  <2>10. CASE j # Len(word[q])
    <3>1. j \in 0 .. Len(word[q]) - 1
      BY <2>1, <2>8, <2>10
    <3> QED
      BY <2>5, <2>7, <3>1 DEF Agree, c
  <2> QED
    BY <2>9, <2>10
<1> HIDE DEF begins
<1>4. \A n \in Nat : n \in 1 .. Len(path) => begins(n)
  <2> SUFFICES ASSUME NEW m \in 1 .. Len(path), ~begins(m) PROVE FALSE
    OBVIOUS
  <2> DEFINE D == {n \in Nat : n \in 1 .. Len(path) /\ ~begins(n)}
  <2>1. D \in SUBSET Nat /\ m \in D
    OBVIOUS
  <2>2. PICK n \in D : \A x \in D : n <= x
    <3> HIDE DEF D
    <3> QED
      BY <2>1, LeastNumber
  <2>3. n # 1
    BY <1>1, <2>2
  <2>4. n - 1 \in 1 .. Len(path) /\ n - 1 \in Nat /\ ~(n <= n - 1)
    BY <2>2, <2>3, <1>0
  <2>5. begins(n - 1)
    BY <2>2, <2>4
  <2>6. begins(n)
    BY <2>2, <2>3, <2>5, <1>3
  <2> QED
    BY <2>2, <2>6
<1>5. begins(i)
  BY <1>0, <1>4
<1>6. path[i][1] \in DOMAIN nodes /\ ~Parts(path[i][1], k, path[i][2]) =>
              Agree(word[path[i][1]], k)
  BY <1>2, <1>5
<1> QED
  BY <1>5, <1>6 DEF begins

LEMMA AgreementFacts ==
  ASSUME NEW k \in Words, NEW l \in Words, k # l
  PROVE  LET a == Agreement(k, l)
         IN  /\ a \in Nat /\ a <= Len(l)
             /\ \A j \in Nat : j < a => Char(k, j) = Char(l, j)
             /\ Char(k, a) # Char(l, a)
<1> DEFINE S == {i \in 0 .. Len(k) : Char(k, i) = 0 \/ Char(k, i) # Char(l, i)}
           a == Agreement(k, l)
<1>1. Len(k) \in Nat /\ Len(l) \in Nat
  BY DEF Words
<1>2. Len(k) \in S
  <2>1. Char(k, Len(k)) = 0
    BY <1>1, CharFacts
  <2> QED
    BY <1>1, <2>1
<1>3. a \in S /\ \A y \in S : a <= y
  <2>1. S \in SUBSET Nat /\ S # {}
    BY <1>1, <1>2
  <2>2. a = Min(S)
    BY DEF Agreement
  <2> HIDE DEF S, a
  <2> QED
    BY <2>1, <2>2, MinFacts
<1>4. a \in Nat /\ a <= Len(k) /\ (Char(k, a) = 0 \/ Char(k, a) # Char(l, a))
  BY <1>1, <1>3
<1>5. ASSUME NEW j \in Nat, j < a PROVE Char(k, j) = Char(l, j) /\ Char(k, j) # 0
  <2>1. j \in 0 .. Len(k) /\ ~(a <= j)
    <3> HIDE DEF a
    <3> QED
      BY <1>1, <1>4, <1>5
  <2> QED
    BY <1>3, <2>1
<1> HIDE DEF a, S
<1>6. a <= Len(l)
  <2> SUFFICES ASSUME ~(a <= Len(l)) PROVE FALSE
    OBVIOUS
  <2>1. Len(l) < a
    BY <1>1, <1>4
  <2>2. Char(l, Len(l)) # 0
    BY <1>1, <1>5, <2>1
  <2> QED
    BY <1>1, <2>2, CharFacts
<1>7. Char(k, a) # Char(l, a)
  <2> SUFFICES ASSUME Char(k, a) = Char(l, a) PROVE FALSE
    OBVIOUS
  <2>1. Char(k, a) = 0 /\ Char(l, a) = 0
    BY <1>4
  <2>2. a = Len(k)
    <3>1. a >= Len(k)
      BY <1>4, <2>1, CharFacts
    <3> QED
      BY <1>1, <1>4, <3>1
  <2>3. Agree(k, l)
    <3>1. \A j \in 0 .. Len(k) - 1 : j \in Nat /\ j < a
      BY <1>1, <2>2
    <3> QED
      BY <1>5, <3>1 DEF Agree
  <2> QED
    BY <2>1, <2>2, <2>3, AgreeEnds
<1> QED
  BY <1>4, <1>5, <1>6, <1>7 DEF a

LEMMA FirstBytes ==
  ASSUME NEW w \in Words, NEW n \in Nat, n <= Len(w)
  PROVE  \E u \in Words : Len(u) = n /\ \A j \in 0 .. n - 1 : Char(u, j) = Char(w, j)
<1> DEFINE u == SubSeq(w, 1, n)
<1>1. w \in Seq(1 .. LastByte) /\ Len(w) \in Nat
  BY DEF Words
<1>2. u \in Seq(1 .. LastByte) /\ Len(u) = n /\ \A i \in 1 .. n : u[i] = w[i]
  BY <1>1, FirstPart
<1> HIDE DEF u
<1>3. ASSUME NEW j \in 0 .. n - 1 PROVE Char(u, j) = Char(w, j)
  <2>1. j + 1 \in 1 .. n /\ j < n /\ j < Len(w)
    BY <1>1
  <2> QED
    BY <1>2, <2>1 DEF Char
<1> QED
  BY <1>2, <1>3 DEF Words

(* The words of x and k part after a bytes, the last pl of them in x's path. *)
PartAt(ns, rt, word, x, k, a, pl) ==
  /\ Word(word, x) \in Words /\ a \in Nat /\ a <= Len(Word(word, x))
  /\ \A j \in Nat : j < a => Char(k, j) = Char(Word(word, x), j)
  /\ Char(k, a) # Char(Word(word, x), a)
  /\ pl \in Nat /\ pl <= a
  /\ x = rt => a - pl = 0
  /\ \A n \in DOMAIN ns : \A e \in Edges(ns, n) : e[2] = x => a - pl = Len(word[n]) + 1
  /\ x \in DOMAIN ns => a < Len(word[x])

LEMMA ForkAt ==
  ASSUME NEW ns, NEW rt, NEW word, NEW x, NEW k \in Words, NEW a, NEW pl,
         PartAt(ns, rt, word, x, k, a, pl)
  PROVE  \E u : Forks(ns, rt, word, x, k, u, pl) /\ Len(u) = a
<1>0. a \in Nat /\ Word(word, x) \in Words /\ a <= Len(Word(word, x))
  BY DEF PartAt
<1>1. PICK u \in Words : Len(u) = a /\ \A j \in 0 .. a - 1 : Char(u, j) = Char(Word(word, x), j)
  BY <1>0, FirstBytes
<1>2. \A j \in 0 .. a - 1 : j \in Nat /\ j < a
  BY <1>0
<1>3. Agree(u, Word(word, x)) /\ Agree(u, k)
  BY <1>1, <1>2 DEF Agree, PartAt
<1>4. Forks(ns, rt, word, x, k, u, pl)
  BY <1>1, <1>3 DEF Forks, PartAt
<1> QED
  BY <1>1, <1>4

(* The depth of a place on a walk is where the pointer to it leads.        *)
LEMMA PlaceDepth ==
  ASSUME NEW word, Tree(nodes, leaves, root, word), NEW k \in Words, NEW ends, Halts(ends),
         NEW path, Trail(k, ends, path), Last(path)[1] # NULL
  PROVE  LET x == Last(path)[1]
             d == Last(path)[2]
         IN  /\ x \in Ptrs(nodes, leaves) /\ d \in Nat
             /\ x = root => d = 0
             /\ \A n \in DOMAIN nodes : \A e \in Edges(nodes, n) :
                  e[2] = x => d = Len(word[n]) + 1
<1> DEFINE x == Last(path)[1]
           d == Last(path)[2]
           q == Behind(path, 1)
<1>1. /\ q # NULL => /\ q \in DOMAIN nodes
                     /\ <<Char(k, Len(word[q])), x>> \in Edges(nodes, q)
                     /\ d = Len(word[q]) + 1
      /\ q = NULL => d = 0 /\ x = root
  BY BehindFacts
<1>2. x \in Ptrs(nodes, leaves) /\ d \in Nat
  BY LastPlace, PointersAre DEF Trail
<1>3. OnePointer(nodes, leaves, root)
  BY DEF Tree
<1>4. CASE q = NULL
  <2> HIDE DEF q, x, d
  <2> QED
    BY <1>1, <1>2, <1>3, <1>4 DEF OnePointer, x, d
<1>5. CASE q # NULL
  <2> DEFINE f == <<Char(k, Len(word[q])), x>>
  <2>1. q \in DOMAIN nodes /\ f \in Edges(nodes, q) /\ f[2] = x /\ d = Len(word[q]) + 1
    BY <1>1, <1>5
  <2> HIDE DEF q, x, d, f
  <2>2. x # root
    BY <1>3, <2>1 DEF OnePointer
  <2>3. ASSUME NEW n \in DOMAIN nodes, NEW e \in Edges(nodes, n), e[2] = x PROVE n = q
    BY <1>3, <2>1, <2>3 DEF OnePointer
  <2> QED
    BY <1>2, <2>1, <2>2, <2>3 DEF x, d
<1> QED
  BY <1>4, <1>5

(* Where an insertion ends, and what is so there.                          *)
LEMMA DescendFork ==
  ASSUME NEW word, Tree(nodes, leaves, root, word), NEW k \in Words, Descend(k).why = "fork"
  PROVE  LET at == Descend(k)
         IN  /\ at.node \in Ptrs(nodes, leaves) /\ Above(at.up, at.node)
             /\ at.depth \in Nat /\ at.match \in Nat
             /\ \E u : Forks(nodes, root, word, at.node, k, u, at.match)
                       /\ Len(u) = at.depth + at.match
<1> DEFINE path == Follow(k, DescEnds(k))
           x == Last(path)[1]
           d == Last(path)[2]
           m == Descend(k).match
           w == Word(word, x)
<1>0. Shape(nodes, leaves)
  BY DEF Tree
<1>1. /\ Halts(DescEnds(k)) /\ Trail(k, DescEnds(k), path) /\ path \in Paths
      /\ Descend(k).node = x /\ Descend(k).up = Behind(path, 1) /\ Descend(k).depth = d
      /\ x # NULL
      /\ IF IsLeaf(x) THEN x[2] # k /\ m = Agreement(k, x[2]) - d
         ELSE ~NoLeafToRead(x, k, d) /\ Parts(x, k, d) /\ m = Matched(x, k, d)
  <2>1. /\ Halts(DescEnds(k)) /\ Trail(k, DescEnds(k), path) /\ path \in Paths
        /\ Descend(k).node = x /\ Descend(k).up = Behind(path, 1) /\ Descend(k).depth = d
        /\ m = IF IsLeaf(x) THEN Agreement(k, x[2]) - d ELSE Matched(x, k, d)
    BY DescendIs
  <2>2. Descend(k).why = IF x = NULL THEN "first"
                         ELSE IF IsLeaf(x) THEN IF x[2] = k THEN "same" ELSE "fork"
                         ELSE IF NoLeafToRead(x, k, d) THEN "no leaf"
                         ELSE IF Parts(x, k, d) THEN "fork" ELSE "add"
    BY DescendIs
  <2> HIDE DEF path, x, d, m
  <2> QED
    BY <2>1, <2>2
<1>2. Above(Behind(path, 1), x)
  BY <1>1, BehindFacts
<1>3. /\ x \in Ptrs(nodes, leaves) /\ d \in Nat
      /\ x = root => d = 0
      /\ \A n \in DOMAIN nodes : \A e \in Edges(nodes, n) : e[2] = x => d = Len(word[n]) + 1
  BY <1>1, PlaceDepth
<1>4. w \in Words /\ Len(w) \in Nat
  BY <1>3, TreeFacts
<1>5. \A j \in Nat : j < d => Char(k, j) = Char(w, j)
  <2>1. Len(path) \in 1 .. Len(path) /\ Last(path) = path[Len(path)]
    BY <1>1, LastPlace
  <2> QED
    BY <1>1, <2>1, DescendAgrees
<1> HIDE DEF path, x, d, m
<1>6. CASE IsLeaf(x)
  <2> DEFINE a == Agreement(k, x[2])
  <2>1. x[2] \in Words /\ x[2] # k /\ w = x[2] /\ x \notin DOMAIN nodes
    BY <1>0, <1>1, <1>3, <1>6, ShapeFacts DEF Word
  <2>2. /\ a \in Nat /\ a <= Len(w) /\ Char(k, a) # Char(w, a)
        /\ \A j \in Nat : j < a => Char(k, j) = Char(w, j)
    BY <2>1, AgreementFacts
  <2> HIDE DEF a, w
  <2>3. d <= a
    <3> SUFFICES ASSUME ~(d <= a) PROVE FALSE
      OBVIOUS
    <3>1. a < d
      BY <1>3, <2>2
    <3> QED
      BY <1>5, <2>2, <3>1
  <2>4. m = a - d
    BY <1>1, <1>6 DEF a
  <2>5. m \in Nat /\ m <= a /\ a - m = d /\ d + m = a
    BY <1>3, <2>2, <2>3, <2>4
  <2>6. \E u : Forks(nodes, root, word, x, k, u, m) /\ Len(u) = a
    <3>1. x = root => a - m = 0
      BY <1>3, <2>5
    <3>2. \A n \in DOMAIN nodes : \A e \in Edges(nodes, n) :
            e[2] = x => a - m = Len(word[n]) + 1
      BY <1>3, <2>5
    <3>3. x \in DOMAIN nodes => a < Len(word[x])
      BY <2>1
    <3>4. PartAt(nodes, root, word, x, k, a, m)
      BY <1>4, <2>2, <2>5, <3>1, <3>2, <3>3 DEF w, PartAt
    <3> QED
      BY <3>4, ForkAt
  <2> QED
    BY <1>1, <1>2, <1>3, <2>5, <2>6 DEF m
<1>7. CASE ~IsLeaf(x)
  <2> DEFINE a == d + m
  <2>1. x \in DOMAIN nodes /\ w = word[x]
    BY <1>0, <1>3, <1>7, ShapeFacts DEF Word
  <2>2. ~NoLeafToRead(x, k, d) /\ m = Matched(x, k, d) /\ m < nodes[x].prefix_len
    BY <1>1, <1>7 DEF Parts
  <2>3. d = Depth(nodes, word, x)
    <3>1. Len(path) \in 1 .. Len(path) /\ Last(path) = path[Len(path)]
      BY <1>1, LastPlace
    <3> QED
      BY <1>1, <2>1, <3>1, OnTrail DEF x, d
  <2>4. /\ m \in Nat /\ \A i \in 0 .. m - 1 : Char(k, d + i) = Char(word[x], d + i)
        /\ Char(k, d + m) # Char(word[x], d + m)
    BY <2>1, <2>2, <2>3, MatchedFacts
  <2>5. a \in Nat /\ a < Len(w) /\ a <= Len(w) /\ m <= a /\ a - m = d
    <3>1. nodes[x].prefix_len \in Nat
      BY <1>0, <2>1, EdgeFacts
    <3>2. d + nodes[x].prefix_len = Len(w)
      BY <1>4, <2>1, <2>3, <3>1 DEF Depth
    <3> HIDE DEF w
    <3> QED
      BY <1>3, <1>4, <2>2, <2>4, <3>1, <3>2
  <2>6. ASSUME NEW j \in Nat, j < a PROVE Char(k, j) = Char(w, j)
    <3>1. CASE j < d
      BY <1>5, <3>1
    <3>2. CASE ~(j < d)
      <4>1. j - d \in 0 .. m - 1 /\ d + (j - d) = j
        BY <1>3, <2>4, <2>6, <3>2
      <4>2. Char(k, d + (j - d)) = Char(word[x], d + (j - d))
        BY <2>4, <4>1
      <4> QED
        BY <2>1, <4>1, <4>2
    <3> QED
      BY <3>1, <3>2
  <2>7. Char(k, a) # Char(w, a)
    BY <2>1, <2>4
  <2>8. \E u : Forks(nodes, root, word, x, k, u, m) /\ Len(u) = a
    <3>1. x \in DOMAIN nodes => a < Len(word[x])
      BY <2>1, <2>5
    <3> HIDE DEF a
    <3> QED
      <4>1. x = root => a - m = 0
        BY <1>3, <2>5
      <4>2. \A n \in DOMAIN nodes : \A e \in Edges(nodes, n) :
              e[2] = x => a - m = Len(word[n]) + 1
        BY <1>3, <2>5
      <4>3. PartAt(nodes, root, word, x, k, a, m)
        BY <1>4, <2>4, <2>5, <2>6, <2>7, <3>1, <4>1, <4>2 DEF w, PartAt
      <4> QED
        BY <4>3, ForkAt
  <2> QED
    BY <1>1, <1>2, <1>3, <2>4, <2>8 DEF m
<1> QED
  BY <1>6, <1>7

LEMMA DescendAdd ==
  ASSUME NEW word, Tree(nodes, leaves, root, word), NEW k \in Words, Descend(k).why = "add"
  PROVE  LET at == Descend(k)
         IN  /\ at.node \in DOMAIN nodes /\ Above(at.up, at.node)
             /\ at.depth = Len(word[at.node]) /\ Agree(word[at.node], k)
             /\ \A e \in Edges(nodes, at.node) : e[1] # Char(k, at.depth)
<1> DEFINE path == Follow(k, DescEnds(k))
           x == Last(path)[1]
           d == Last(path)[2]
<1>0. Shape(nodes, leaves)
  BY DEF Tree
<1>1. /\ Halts(DescEnds(k)) /\ Trail(k, DescEnds(k), path) /\ path \in Paths
      /\ Last(path) \in DescEnds(k)
      /\ Descend(k).node = x /\ Descend(k).up = Behind(path, 1)
      /\ Descend(k).depth = d + nodes[x].prefix_len
      /\ x # NULL /\ ~IsLeaf(x) /\ ~Parts(x, k, d)
  <2>1. /\ Halts(DescEnds(k)) /\ Trail(k, DescEnds(k), path) /\ path \in Paths
        /\ Last(path) \in DescEnds(k)
        /\ Descend(k).node = x /\ Descend(k).up = Behind(path, 1)
        /\ Descend(k).depth = d + nodes[x].prefix_len
    BY DescendIs
  <2>2. Descend(k).why = IF x = NULL THEN "first"
                         ELSE IF IsLeaf(x) THEN IF x[2] = k THEN "same" ELSE "fork"
                         ELSE IF NoLeafToRead(x, k, d) THEN "no leaf"
                         ELSE IF Parts(x, k, d) THEN "fork" ELSE "add"
    BY DescendIs
  <2> HIDE DEF path, x, d
  <2> QED
    BY <2>1, <2>2
<1>2. Above(Behind(path, 1), x)
  BY <1>1, BehindFacts
<1>3. x \in DOMAIN nodes
  <2>1. x \in Ptrs(nodes, leaves)
    BY <1>1, PlaceDepth
  <2> QED
    BY <1>0, <1>1, <2>1, ShapeFacts
<1>4. Len(path) \in 1 .. Len(path) /\ Last(path) = path[Len(path)]
  BY <1>1, LastPlace
<1>5. Agree(word[x], k)
  BY <1>1, <1>3, <1>4, DescendAgrees
<1>6. d = Depth(nodes, word, x)
  BY <1>1, <1>3, <1>4, OnTrail
<1>7. d + nodes[x].prefix_len = Len(word[x])
  <2>1. nodes[x].prefix_len \in Nat /\ Len(word[x]) \in Nat
    BY <1>0, <1>3, EdgeFacts, TreeFacts
  <2> HIDE DEF x, d
  <2> QED
    BY <1>6, <2>1 DEF Depth
<1>8. Child(x, Char(k, Len(word[x]))) = NULL
  <2>1. Onward(k, Last(path))[1] = NULL
    BY <1>1 DEF DescEnds
  <2>2. Onward(k, Last(path))[1] = Child(x, Char(k, d + nodes[x].prefix_len))
    BY DEF Onward
  <2> QED
    BY <1>7, <2>1, <2>2
<1>9. \A e \in Edges(nodes, x) : e[1] # Char(k, Len(word[x]))
  <2> DEFINE b == Char(k, Len(word[x]))
  <2> HIDE DEF b, x
  <2>1. Child(x, b) = NULL => \A e \in Edges(nodes, x) : e[1] # b
    BY <1>3, ChildFacts
  <2> QED
    BY <1>8, <2>1 DEF b
<1> QED
  BY <1>1, <1>2, <1>3, <1>5, <1>7, <1>9

LEMMA DescendEnds ==
  ASSUME NEW word, Tree(nodes, leaves, root, word), NEW k \in Words
  PROVE  LET at == Descend(k)
         IN  /\ at.why \in {"first", "same", "fork", "no leaf", "add"}
             /\ at.why = "first" => root = NULL
             /\ at.why = "same" => k \in DOMAIN leaves
             /\ at.why = "no leaf" => /\ at.node \in DOMAIN nodes
                                      /\ find_minimum_leaf(at.node) = NULL
<1> DEFINE path == Follow(k, DescEnds(k))
           x == Last(path)[1]
           d == Last(path)[2]
<1>0. Shape(nodes, leaves)
  BY DEF Tree
<1>1. /\ Halts(DescEnds(k)) /\ Trail(k, DescEnds(k), path) /\ path \in Paths
      /\ Descend(k).why = IF x = NULL THEN "first"
                          ELSE IF IsLeaf(x) THEN IF x[2] = k THEN "same" ELSE "fork"
                          ELSE IF NoLeafToRead(x, k, d) THEN "no leaf"
                          ELSE IF Parts(x, k, d) THEN "fork" ELSE "add"
      /\ Descend(k).node = x
  BY DescendIs
<1>2. Len(path) \in Nat \ {0} /\ Last(path) = path[Len(path)]
  BY <1>1, LastPlace
<1>3. ASSUME x = NULL PROVE root = NULL
  <2>1. CASE Len(path) = 1
    <3>1. path[1] = <<root, 0>>
      BY <1>1 DEF Trail
    <3> QED
      BY <1>2, <1>3, <2>1, <3>1
  <2>2. CASE Len(path) # 1
    <3> DEFINE n == Len(path) - 1
    <3>1. n \in 1 .. Len(path) - 1 /\ n \in 1 .. Len(path) /\ n + 1 = Len(path)
      <4>1. \A i \in Nat \ {0} : i # 1 => /\ i - 1 \in 1 .. i - 1 /\ i - 1 \in 1 .. i
                                          /\ (i - 1) + 1 = i
        OBVIOUS
      <4> HIDE DEF path
      <4> QED
        BY <1>2, <2>2, <4>1
    <3> HIDE DEF n
    <3>2. path[n] \notin DescEnds(k) /\ path[n + 1] = Onward(k, path[n])
      BY <1>1, <3>1 DEF Trail
    <3>3. path[n] \in Places
      BY <1>1, <3>1, OnTrail
    <3>4. Onward(k, path[n])[1] # NULL
      BY <3>2, <3>3 DEF DescEnds
    <3> QED
      BY <1>2, <1>3, <3>1, <3>2, <3>4
  <2> QED
    BY <2>1, <2>2
<1>4. ASSUME x # NULL
      PROVE  /\ x \in Ptrs(nodes, leaves)
             /\ IsLeaf(x) /\ x[2] = k => k \in DOMAIN leaves
             /\ ~IsLeaf(x) => x \in DOMAIN nodes
  <2>1. x \in Ptrs(nodes, leaves)
    BY <1>1, <1>4, PlaceDepth
  <2> QED
    BY <1>0, <2>1, ShapeFacts
<1> QED
  BY <1>1, <1>3, <1>4 DEF NoLeafToRead

(* An insertion of a key of the tree ends at its leaf, if it finds one to  *)
(* read on its way.                                                        *)
LEMMA DescendKnown ==
  ASSUME NEW word, Tree(nodes, leaves, root, word), NEW k \in DOMAIN leaves
  PROVE  Descend(k).why \in {"same", "no leaf"}
<1> DEFINE path == Follow(k, DescEnds(k))
           x == Last(path)[1]
           d == Last(path)[2]
<1>0. /\ Shape(nodes, leaves) /\ k \in Words /\ Leaf(k) \in Ptrs(nodes, leaves)
      /\ Word(word, Leaf(k)) = k
  <2>1. Shape(nodes, leaves)
    BY DEF Tree
  <2> QED
    BY <2>1, Constants, ShapeFacts, PtrFacts DEF Shape, Word
<1>1. /\ Halts(DescEnds(k)) /\ Trail(k, DescEnds(k), path) /\ path \in Paths
      /\ Last(path) \in DescEnds(k)
      /\ Descend(k).why = IF x = NULL THEN "first"
                          ELSE IF IsLeaf(x) THEN IF x[2] = k THEN "same" ELSE "fork"
                          ELSE IF NoLeafToRead(x, k, d) THEN "no leaf"
                          ELSE IF Parts(x, k, d) THEN "fork" ELSE "add"
  BY <1>0, DescendIs
<1>2. Len(path) \in 1 .. Len(path) /\ Last(path) = path[Len(path)]
  <2>1. Len(path) \in Nat \ {0} /\ Last(path) = path[Len(path)]
    BY <1>1, LastPlace
  <2>2. \A n \in Nat \ {0} : n \in 1 .. n
    OBVIOUS
  <2> HIDE DEF path
  <2> QED
    BY <2>1, <2>2
<1>3. x \in Up(nodes, leaves, Leaf(k))
  BY <1>1, <1>2, TrailUp
<1>4. x \in Ptrs(nodes, leaves) /\ x # NULL
  BY <1>0, <1>3, UpClosed, ShapeFacts
<1>5. CASE IsLeaf(x)
  <2>1. x \notin DOMAIN nodes
    BY <1>0, <1>4, <1>5, ShapeFacts
  <2>2. x = Leaf(k)
    BY <1>0, <1>3, <2>1, UpChild
  <2> QED
    BY <1>1, <1>4, <1>5, <2>2, PtrFacts
<1>6. CASE ~IsLeaf(x)
  <2>1. x \in DOMAIN nodes
    BY <1>0, <1>4, <1>6, ShapeFacts
  <2>2. Agree(word[x], k)
    BY <1>0, <1>3, <2>1, UpAgree
  <2>3. d = Depth(nodes, word, x)
    <3>1. path[Len(path)][1] \in DOMAIN nodes =>
            path[Len(path)][2] = Depth(nodes, word, path[Len(path)][1])
      <4> DEFINE n == Len(path)
                 ends == DescEnds(k)
      <4>1. k \in Words /\ Halts(ends) /\ Trail(k, ends, path) /\ n \in 1 .. Len(path)
        BY <1>0, <1>1, <1>2
      <4> HIDE DEF path, n, ends
      <4>2. path[n][1] \in DOMAIN nodes => path[n][2] = Depth(nodes, word, path[n][1])
        BY <4>1, OnTrail
      <4> QED
        BY <4>2 DEF n
    <3> QED
      BY <1>2, <2>1, <3>1
  <2> SUFFICES ASSUME ~NoLeafToRead(x, k, d) PROVE FALSE
    BY <1>1, <1>4, <1>6
  <2>4. Matched(x, k, d) = nodes[x].prefix_len
    BY <1>0, <2>1, <2>2, <2>3, MatchedBelow
  <2>5. nodes[x].prefix_len \in Nat /\ Len(word[x]) \in Nat
    BY <1>0, <2>1, EdgeFacts, TreeFacts
  <2>6. ~Parts(x, k, d)
    BY <2>4, <2>5 DEF Parts
  <2>7. d + nodes[x].prefix_len = Len(word[x])
    <3> HIDE DEF x, d
    <3> QED
      BY <2>3, <2>5 DEF Depth
  <2>8. x # Leaf(k)
    BY <1>0, <2>1, ShapeFacts, PtrFacts
  <2>9. PICK e \in Edges(nodes, x) : e[2] \in Up(nodes, leaves, Leaf(k))
    BY <1>0, <1>3, <2>8, UpChild
  <2>10. Char(k, Len(word[x])) = e[1]
    BY <1>0, <1>3, <2>1, <2>9, UpAgree
  <2> DEFINE b == Char(k, Len(word[x]))
  <2>11. Child(x, b) = e[2]
    <3>1. e[1] = b
      BY <2>10
    <3> HIDE DEF b, x
    <3> QED
      BY <2>1, <2>9, <3>1, ChildFacts
  <2>12. e[2] # NULL
    BY <1>0, <2>1, <2>9, EdgeFacts, ShapeFacts
  <2>13. Onward(k, Last(path))[1] = Child(x, Char(k, d + nodes[x].prefix_len))
    BY DEF Onward
  <2>14. Onward(k, Last(path))[1] = NULL
    BY <1>1, <1>4, <1>6, <2>6 DEF DescEnds
  <2> QED
    BY <2>7, <2>11, <2>12, <2>13, <2>14
<1> QED
  BY <1>5, <1>6
-----------------------------------------------------------------------------
(* What an operation makes of the tree                                     *)
LEMMA EmptyTree ==
  ASSUME NEW ns, NEW lv, DOMAIN ns = {}, DOMAIN lv = {}, NEW word
  PROVE  Tree(ns, lv, NULL, word)
<1>1. Ptrs(ns, lv) = {}
  BY DEF Ptrs, LeavesOf
<1>2. NULL \notin DOMAIN ns
  OBVIOUS
<1>3. IsFiniteSet(DOMAIN lv)
  BY FS_EmptySet
<1>4. Shape(ns, lv) /\ OnePointer(ns, lv, NULL)
  BY <1>1, <1>3 DEF Shape, OnePointer
<1> QED
  BY <1>2, <1>4 DEF Tree

LEMMA NoPointers ==
  ASSUME NEW ns, NEW lv, NEW word, Tree(ns, lv, NULL, word)
  PROVE  DOMAIN ns = {} /\ DOMAIN lv = {}
<1>1. Shape(ns, lv)
  BY DEF Tree
<1>2. Ptrs(ns, lv) = {}
  <2> SUFFICES ASSUME NEW x \in Ptrs(ns, lv) PROVE FALSE
    OBVIOUS
  <2>1. NULL \in Up(ns, lv, x)
    BY UpRoot
  <2>2. NULL \in Ptrs(ns, lv)
    BY <2>1, UpClosed
  <2> QED
    BY <1>1, <2>2, ShapeFacts
<1> QED
  BY <1>2 DEF Ptrs, LeavesOf

LEMMA OneLeaf ==
  ASSUME NEW ns, NEW lv, NEW k \in DOMAIN lv, NEW word, Tree(ns, lv, Leaf(k), word)
  PROVE  DOMAIN ns = {} /\ DOMAIN lv = {k}
<1>1. Shape(ns, lv) /\ OnePointer(ns, lv, Leaf(k))
  BY DEF Tree
<1>2. ASSUME NEW x \in Ptrs(ns, lv) PROVE x = Leaf(k)
  <2>1. Leaf(k) \in Up(ns, lv, x)
    BY UpRoot
  <2>2. Leaf(k) \in Ptrs(ns, lv)
    BY <2>1, UpClosed
  <2>3. Leaf(k) \notin DOMAIN ns
    BY <1>1, PtrFacts, ShapeFacts
  <2> QED
    BY <2>1, <2>3, UpChild
<1>3. DOMAIN ns = {}
  <2> SUFFICES ASSUME NEW x \in DOMAIN ns PROVE FALSE
    OBVIOUS
  <2>1. x \in Ptrs(ns, lv)
    BY DEF Ptrs
  <2> QED
    BY <1>1, <1>2, <2>1, PtrFacts, ShapeFacts
<1>4. ASSUME NEW l \in DOMAIN lv PROVE l = k
  <2>1. Leaf(l) \in Ptrs(ns, lv)
    BY <1>1, ShapeFacts
  <2> QED
    BY <1>2, <2>1, PtrFacts
<1> QED
  BY <1>3, <1>4

LEMMA SameLeaves ==
  ASSUME NEW ns, NEW lv, NEW rt, NEW word, Tree(ns, lv, rt, word),
         NEW lv2, DOMAIN lv2 = DOMAIN lv
  PROVE  Tree(ns, lv2, rt, word)
<1>1. Ptrs(ns, lv2) = Ptrs(ns, lv)
  BY DEF Ptrs, LeavesOf
<1>2. Shape(ns, lv2)
  BY <1>1 DEF Tree, Shape
<1>3. OnePointer(ns, lv2, rt)
  BY <1>1 DEF Tree, OnePointer
<1> QED
  BY <1>2, <1>3 DEF Tree

LEMMA FirstTree ==
  ASSUME NEW ns, NEW lv, NEW word, Tree(ns, lv, NULL, word), NEW k \in Keys,
         NEW lv2, DOMAIN lv2 = DOMAIN lv \cup {k}
  PROVE  Tree(ns, lv2, Leaf(k), word)
<1>1. DOMAIN ns = {} /\ DOMAIN lv2 = {k}
  BY NoPointers
<1>2. Ptrs(ns, lv2) = {Leaf(k)}
  BY <1>1 DEF Ptrs, LeavesOf
<1>3. IsFiniteSet(DOMAIN lv2)
  BY <1>1, FS_Singleton
<1>4. Shape(ns, lv2) /\ OnePointer(ns, lv2, Leaf(k))
  BY <1>1, <1>2, <1>3 DEF Shape, OnePointer
<1> QED
  BY <1>1, <1>4 DEF Tree

(* A tree and the two walks that the calls take.                           *)
IsTree == \E word : Tree(nodes, leaves, root, word)
IsTreeAfter == \E word : Tree(nodes', leaves', root', word)

LEMMA NewLeafFacts ==
  ASSUME NEW k, NEW v, NewLeaf(k, v)
  PROVE  /\ DOMAIN leaves' = DOMAIN leaves \cup {k} /\ leaves'[k] = v
         /\ \A l \in DOMAIN leaves : l # k => leaves'[l] = leaves[l]
  BY DEF NewLeaf

LEMMA LeafFreedFacts ==
  ASSUME NEW k, LeafFreed(k)
  PROVE  /\ DOMAIN leaves' = DOMAIN leaves \ {k}
         /\ \A l \in DOMAIN leaves \ {k} : leaves'[l] = leaves[l]
  BY DEF LeafFreed, Restrict

LEMMA InsertFirstTree ==
  ASSUME IsTree, NEW k \in Keys, NEW v, InsertFirst(k, v, Descend(k))
  PROVE  IsTreeAfter /\ k \notin DOMAIN leaves
<1>1. PICK word : Tree(nodes, leaves, root, word)
  BY DEF IsTree
<1>2. root = NULL
  BY <1>1, Constants, DescendEnds DEF InsertFirst
<1>3. DOMAIN leaves' = DOMAIN leaves \cup {k} /\ nodes' = nodes /\ root' = Leaf(k)
  BY NewLeafFacts DEF InsertFirst
<1>4. Tree(nodes', leaves', root', word)
  BY <1>1, <1>2, <1>3, FirstTree
<1>5. k \notin DOMAIN leaves
  BY <1>1, <1>2, NoPointers
<1> QED
  BY <1>4, <1>5 DEF IsTreeAfter

LEMMA OverwriteTree ==
  ASSUME IsTree, NEW k \in Keys, NEW v, Overwrite(k, v, Descend(k))
  PROVE  IsTreeAfter /\ k \in DOMAIN leaves
<1>1. PICK word : Tree(nodes, leaves, root, word)
  BY DEF IsTree
<1>2. DOMAIN leaves' = DOMAIN leaves /\ nodes' = nodes /\ root' = root
  BY DEF Overwrite
<1>3. Tree(nodes', leaves', root', word)
  BY <1>1, <1>2, SameLeaves
<1>4. k \in DOMAIN leaves
  BY <1>1, Constants, DescendEnds DEF Overwrite
<1> QED
  BY <1>3, <1>4 DEF IsTreeAfter

(* The first leaf below x goes on as x does.                               *)
LEMMA FirstGoesOn ==
  ASSUME NEW word, Tree(nodes, leaves, root, word), NEW x \in Pointers,
         find_minimum_leaf(x) # NULL
  PROVE  /\ find_minimum_leaf(x)[2] \in Words
         /\ Agree(Word(word, x), find_minimum_leaf(x)[2])
         /\ x \notin DOMAIN nodes => find_minimum_leaf(x)[2] = Word(word, x)
<1> DEFINE l == find_minimum_leaf(x)
<1>0. Shape(nodes, leaves) /\ x \in Ptrs(nodes, leaves)
  BY PointersAre DEF Tree
<1>1. l \in LeavesOf(leaves) /\ x \in Up(nodes, leaves, l)
  BY FirstFacts
<1> HIDE DEF l
<1>2. l[2] \in Words /\ IsLeaf(l) /\ l \in Ptrs(nodes, leaves)
  BY <1>0, <1>1, ShapeFacts DEF Ptrs
<1>3. CASE x \in DOMAIN nodes
  <2>1. Agree(word[x], Word(word, l)) /\ Word(word, x) = word[x]
    BY <1>1, <1>2, <1>3, UpAgree, TreeFacts
  <2> QED
    BY <1>2, <1>3, <2>1 DEF Word, l
<1>4. CASE x \notin DOMAIN nodes
  <2>1. x = l /\ IsLeaf(x)
    BY <1>0, <1>1, <1>2, <1>4, UpChild, ShapeFacts
  <2>2. Word(word, x) = l[2]
    BY <2>1 DEF Word
  <2> QED
    BY <1>2, <2>2, AgreeSelf DEF l
<1> QED
  BY <1>3, <1>4

LEMMA ForkIsForked ==
  ASSUME NEW word, Tree(nodes, leaves, root, word), NEW k \in Keys, NEW v,
         Descend(k).why = "fork", Fork(k, v, Descend(k)), NEW u,
         Forks(nodes, root, word, Descend(k).node, k, u, Descend(k).match),
         Len(u) = Descend(k).depth + Descend(k).match
  PROVE  LET x == Descend(k).node
         IN  /\ Forked(nodes, word, x, k, u, Descend(k).match, Alloc(1), nodes')
             /\ root' = Swap(x, Alloc(1), root)
             /\ Alloc(1) \in Addresses /\ Alloc(1) \notin DOMAIN nodes
<1> DEFINE at == Descend(k)
           x == at.node
           m == at.match
           parts == at.depth + m
           other == find_minimum_leaf(x)[2]
           q == Alloc(1)
           fork == [prefix_len |-> m, prefix |-> Saved(k, at.depth, m),
                    edges |-> << <<Char(other, parts), x>>, <<Char(k, parts), Leaf(k)>> >>]
           w == Word(word, x)
<1>0. Shape(nodes, leaves) /\ k \in Words
  BY Constants DEF Tree
<1>1. /\ x \in Ptrs(nodes, leaves) /\ Above(at.up, x) /\ at.depth \in Nat /\ m \in Nat
  BY <1>0, DescendFork
<1>2. q \in Addresses /\ q \notin DOMAIN nodes /\ find_minimum_leaf(x) # NULL
  BY <1>0, AllocFacts DEF Fork
<1>3. other \in Words /\ Agree(w, other) /\ (x \notin DOMAIN nodes => other = w)
  BY <1>1, <1>2, FirstGoesOn, PointersAre
<1>4. /\ DOMAIN nodes' = DOMAIN nodes \cup {q} /\ nodes'[q] = fork
      /\ \A p \in DOMAIN nodes : p # x => nodes'[p] = Repointed(at.up, x, q)[p]
      /\ x \in DOMAIN nodes => nodes'[x] = Shortened(x, m, parts + 1)
      /\ root' = RootAfter(at.up, q)
  <2>1. /\ nodes' = [p \in DOMAIN nodes \cup {q} |->
                       IF p = q THEN fork
                       ELSE IF p = x THEN Shortened(p, m, parts + 1)
                       ELSE Repointed(at.up, x, q)[p]]
        /\ root' = RootAfter(at.up, q)
    BY DEF Fork
  <2> HIDE DEF fork, at, q, x, m, parts
  <2> QED
    BY <1>2, <2>1
<1>5. /\ \A n \in DOMAIN nodes : Repointed(at.up, x, q)[n] = Redirect(nodes[n], x, q)
      /\ RootAfter(at.up, q) = Swap(x, q, root)
  BY <1>1, RepointedFacts
<1>6. /\ u \in Words /\ Agree(u, k) /\ Agree(u, w) /\ Len(u) = parts /\ Len(u) \in Nat
      /\ Char(k, Len(u)) # Char(w, Len(u)) /\ Len(u) - m = at.depth
      /\ x = root => at.depth = 0
      /\ \A n \in DOMAIN nodes : \A e \in Edges(nodes, n) :
           e[2] = x => at.depth = Len(word[n]) + 1
      /\ x \in DOMAIN nodes => Len(u) < Len(word[x])
  <2>1. /\ u \in Words /\ Agree(u, k) /\ Agree(u, w)
        /\ Char(k, Len(u)) # Char(w, Len(u))
        /\ x = root => Len(u) - m = 0
        /\ \A n \in DOMAIN nodes : \A e \in Edges(nodes, n) :
             e[2] = x => Len(u) - m = Len(word[n]) + 1
        /\ x \in DOMAIN nodes => Len(u) < Len(word[x])
    BY DEF Forks
  <2>2. Len(u) = at.depth + m
    OBVIOUS
  <2> HIDE DEF at, x, m, w
  <2>3. Len(u) - m = at.depth /\ Len(u) \in Nat
    BY <1>1, <2>2
  <2> QED
    BY <2>1, <2>2, <2>3
<1> HIDE DEF at, x, m, q, other, w, parts
<1>7. Char(other, parts) = Char(w, parts)
  <2>1. CASE x \in DOMAIN nodes
    <3>1. w = word[x] /\ Len(word[x]) \in Nat
      BY <2>1, TreeFacts DEF w
    <3>2. parts \in 0 .. Len(w) - 1
      BY <1>6, <2>1, <3>1
    <3> QED
      BY <1>3, <3>2 DEF Agree
  <2> QED
    BY <1>3, <2>1
<1>8. \E pre : /\ SavedOf(u, Len(u) - m, m, pre)
               /\ nodes'[q] = [prefix_len |-> m, prefix |-> pre,
                               edges |-> << <<Char(w, Len(u)), x>>,
                                            <<Char(k, Len(u)), Leaf(k)>> >>]
  <2> DEFINE pre == Saved(k, at.depth, m)
  <2>1. /\ pre \in Seq(Bytes) /\ Len(pre) \in Nat /\ Len(pre) <= m /\ Len(pre) <= MaxPrefix
        /\ Len(pre) = MaxPrefix \/ Len(pre) = m
        /\ \A i \in 0 .. Len(pre) - 1 : pre[i + 1] = Char(k, at.depth + i)
    BY <1>0, <1>1, SavedFacts
  <2> HIDE DEF pre
  <2>2. \A i \in 0 .. Len(pre) - 1 : pre[i + 1] = Char(u, at.depth + i)
    <3> SUFFICES ASSUME NEW i \in 0 .. Len(pre) - 1 PROVE pre[i + 1] = Char(u, at.depth + i)
      OBVIOUS
    <3>1. at.depth + i \in 0 .. Len(u) - 1
      BY <1>1, <1>6, <2>1 DEF parts
    <3> QED
      BY <1>6, <2>1, <3>1 DEF Agree
  <2>3. SavedOf(u, Len(u) - m, m, pre)
    BY <1>6, <2>1, <2>2 DEF SavedOf
  <2> QED
    BY <1>4, <1>6, <1>7, <2>3 DEF pre
<1>9. x \in DOMAIN nodes =>
        \E s : LET len == Len(word[x]) - (Len(u) + 1)
               IN  /\ SavedOf(word[x], Len(u) + 1, len, s)
                   /\ nodes'[x] = [nodes[x] EXCEPT !.prefix_len = len, !.prefix = s]
  <2> SUFFICES ASSUME x \in DOMAIN nodes
               PROVE  \E s : LET len == Len(word[x]) - (Len(u) + 1)
                             IN  /\ SavedOf(word[x], Len(u) + 1, len, s)
                                 /\ nodes'[x] = [nodes[x] EXCEPT !.prefix_len = len,
                                                                 !.prefix = s]
    OBVIOUS
  <2> DEFINE len == nodes[x].prefix_len - (m + 1)
             s == Saved(other, parts + 1, len)
  <2>1. /\ word[x] \in Words /\ Len(word[x]) \in Nat /\ w = word[x]
        /\ nodes[x].prefix_len \in Nat /\ Depth(nodes, word, x) \in Nat
    BY <1>0, TreeFacts, EdgeFacts DEF w
  <2>2. Depth(nodes, word, x) = at.depth
    <3>1. CASE x = root
      BY <1>6, <3>1 DEF Tree
    <3>2. CASE x # root
      <4>1. PICK n \in DOMAIN nodes : \E e \in Edges(nodes, n) : e[2] = x
        BY <1>1, <3>2 DEF Tree, OnePointer
      <4>2. PICK e \in Edges(nodes, n) : e[2] = x
        BY <4>1
      <4>3. Leads(nodes, word, n, e) /\ ~IsLeaf(x)
        BY <1>0, <4>2, ShapeFacts DEF Tree
      <4> QED
        BY <1>6, <4>2, <4>3 DEF Leads
    <3> QED
      BY <3>1, <3>2
  <2>3. len = Len(word[x]) - (Len(u) + 1) /\ len \in Nat
    <3>1. Len(word[x]) - nodes[x].prefix_len = at.depth
      BY <2>2 DEF Depth
    <3>2. Len(u) = at.depth + m /\ Len(u) < Len(word[x])
      BY <1>6 DEF parts
    <3> QED
      BY <1>1, <1>6, <2>1, <3>1, <3>2
  <2>4. nodes'[x] = [nodes[x] EXCEPT !.prefix_len = len, !.prefix = s]
    BY <1>4 DEF Shortened, other
  <2> HIDE DEF len
  <2>5. /\ s \in Seq(Bytes) /\ Len(s) \in Nat /\ Len(s) <= len /\ Len(s) <= MaxPrefix
        /\ Len(s) = MaxPrefix \/ Len(s) = len
        /\ \A i \in 0 .. Len(s) - 1 : s[i + 1] = Char(other, parts + 1 + i)
    <3>1. parts + 1 \in Nat
      BY <1>6
    <3> DEFINE from == parts + 1
    <3> HIDE DEF from
    <3>2. LET z == Saved(other, from, len)
          IN  /\ z \in Seq(Bytes) /\ Len(z) \in Nat /\ Len(z) <= len /\ Len(z) <= MaxPrefix
              /\ Len(z) = MaxPrefix \/ Len(z) = len
              /\ \A i \in 0 .. Len(z) - 1 : z[i + 1] = Char(other, from + i)
      BY <1>3, <2>3, <3>1, SavedFacts DEF from
    <3> QED
      BY <3>2 DEF from
  <2> HIDE DEF s
  <2>6. \A i \in 0 .. Len(s) - 1 : s[i + 1] = Char(word[x], (Len(u) + 1) + i)
    <3> SUFFICES ASSUME NEW i \in 0 .. Len(s) - 1
                 PROVE  s[i + 1] = Char(word[x], (Len(u) + 1) + i)
      OBVIOUS
    <3>1. (Len(u) + 1) + i \in 0 .. Len(word[x]) - 1
      BY <1>6, <2>1, <2>3, <2>5
    <3> QED
      BY <1>3, <1>6, <2>1, <2>5, <3>1 DEF Agree
  <2>7. SavedOf(word[x], Len(u) + 1, len, s)
    BY <2>5, <2>6 DEF SavedOf
  <2> QED
    BY <2>3, <2>4, <2>7
<1>10. Forked(nodes, word, x, k, u, m, q, nodes')
  <2>1. \A n \in DOMAIN nodes : n # x => nodes'[n] = Redirect(nodes[n], x, q)
    BY <1>4, <1>5
  <2>2. DOMAIN nodes' = DOMAIN nodes \cup {q}
    BY <1>4
  <2> QED
    BY <1>8, <1>9, <2>1, <2>2 DEF Forked, w
<1> QED
  BY <1>2, <1>4, <1>5, <1>10 DEF at, x, m, q

LEMMA ForkIsTree ==
  ASSUME IsTree, NEW k \in Keys, NEW v, Fork(k, v, Descend(k))
  PROVE  IsTreeAfter /\ k \notin DOMAIN leaves
<1>1. PICK word : Tree(nodes, leaves, root, word)
  BY DEF IsTree
<1>2. Descend(k).why = "fork" /\ k \in Words
  BY Constants DEF Fork
<1>3. k \notin DOMAIN leaves
  BY <1>1, <1>2, DescendKnown
<1>4. DOMAIN leaves' = DOMAIN leaves \cup {k}
  BY NewLeafFacts DEF Fork
<1> DEFINE x == Descend(k).node
           pl == Descend(k).match
           q == Alloc(1)
<1>5. PICK u : Forks(nodes, root, word, x, k, u, pl) /\ Len(u) = Descend(k).depth + pl
  BY <1>1, <1>2, DescendFork
<1>6. x \in Ptrs(nodes, leaves)
  BY <1>1, <1>2, DescendFork
<1>7. /\ Forked(nodes, word, x, k, u, pl, q, nodes')
      /\ root' = Swap(x, q, root) /\ q \in Addresses /\ q \notin DOMAIN nodes
  BY <1>1, <1>2, <1>5, ForkIsForked
<1> HIDE DEF x, pl, q
<1>8. Tree(nodes', leaves', Swap(x, q, root), ForkWord(nodes', word, q, u))
  BY <1>1, <1>3, <1>4, <1>5, <1>6, <1>7, ForkTree
<1> QED
  BY <1>3, <1>7, <1>8 DEF IsTreeAfter

LEMMA TierOf ==
  ASSUME Shape(nodes, leaves), NEW p \in DOMAIN nodes
  PROVE  Tier(p) \in 1 .. 4
  BY ShapeFacts

(* A node with no edge for a byte has fewer edges than there are bytes.    *)
LEMMA TopHasRoom ==
  ASSUME NEW word, Tree(nodes, leaves, root, word), NEW p \in DOMAIN nodes,
         NEW b \in Bytes, \A e \in Edges(nodes, p) : e[1] # b
  PROVE  Len(nodes[p].edges) < Fanout[4]
<1> DEFINE es == nodes[p].edges
           n == Len(es)
           c == [i \in 1 .. n |-> es[i][1]]
           rest == Bytes \ {b}
<1>1. /\ Shape(nodes, leaves) /\ n \in Nat /\ DOMAIN es = 1 .. n
      /\ Distinct(es)
      /\ \A i \in 1 .. n : es[i] \in Edges(nodes, p) /\ es[i][1] \in Bytes
  BY EdgeFacts DEF Tree
<1>2. IsFiniteSet(Bytes) /\ Cardinality(Bytes) = LastByte + 1 /\ LastByte \in Nat
  <2>1. LastByte \in Nat /\ 0 \in Int
    BY Constants
  <2> QED
    BY <2>1, FS_Interval DEF Bytes
<1>3. IsFiniteSet(rest) /\ Cardinality(rest) = LastByte
  <2>1. IsFiniteSet(rest) /\ Cardinality(rest) = Cardinality(Bytes) - 1
    BY <1>2, FS_RemoveElement
  <2> QED
    BY <1>2, <2>1
<1>4. c \in Injection(1 .. n, rest)
  <2>1. c \in [1 .. n -> rest]
    BY <1>1
  <2>2. \A i, j \in 1 .. n : c[i] = c[j] => i = j
    BY <1>1 DEF Distinct
  <2> HIDE DEF c, rest
  <2> QED
    BY <2>1, <2>2 DEF Injection, IsInjective
<1>5. IsFiniteSet(1 .. n) /\ Cardinality(1 .. n) = n
  <2>1. Cardinality(1 .. n) = n - 1 + 1 \/ n = 0
    BY <1>1, FS_Interval
  <2> QED
    BY <1>1, FS_Interval
<1>6. n <= LastByte
  <2>1. Cardinality(1 .. n) <= Cardinality(rest)
    <3> HIDE DEF c, rest
    <3> QED
      BY <1>3, <1>4, <1>5, FS_Injection
  <2> QED
    BY <1>3, <1>5, <2>1
<1>7. Fanout[4] = LastByte + 1
  BY ArtAssumption
<1> QED
  BY <1>1, <1>2, <1>6, <1>7

LEMMA AddChildTree ==
  ASSUME IsTree, NEW k \in Keys, NEW v, AddChild(k, v, Descend(k))
  PROVE  IsTreeAfter /\ k \notin DOMAIN leaves
<1>1. PICK word : Tree(nodes, leaves, root, word)
  BY DEF IsTree
<1> DEFINE p == Descend(k).node
           es == Append(nodes[p].edges, <<Char(k, Len(word[p])), Leaf(k)>>)
           et == Ordered(Tier(p), es)
<1>2. Descend(k).why = "add" /\ k \in Words
  BY Constants DEF AddChild
<1>3. k \notin DOMAIN leaves
  BY <1>1, <1>2, DescendKnown
<1>4. DOMAIN leaves' = DOMAIN leaves \cup {k}
  BY NewLeafFacts DEF AddChild
<1>5. /\ p \in DOMAIN nodes /\ Descend(k).depth = Len(word[p]) /\ Agree(word[p], k)
      /\ \A e \in Edges(nodes, p) : e[1] # Char(k, Len(word[p]))
  BY <1>1, <1>2, DescendAdd
<1>6. /\ root' = root /\ DOMAIN nodes' = DOMAIN nodes
      /\ \A n \in DOMAIN nodes :
           nodes'[n] = IF n = p THEN [nodes[p] EXCEPT !.edges = et] ELSE nodes[n]
  <2>1. /\ nodes' = [nodes EXCEPT ![p].edges = Ordered(Tier(p),
                       Append(@, <<Char(k, Descend(k).depth), Leaf(k)>>))]
        /\ root' = root
    BY DEF AddChild
  <2> HIDE DEF p
  <2> QED
    BY <1>5, <2>1
<1> HIDE DEF p, et
<1>7. EdgesFit(nodes, leaves, word, p, es, leaves')
  BY <1>1, <1>3, <1>4, <1>5, AddFit
<1>8. Tier(p) \in 1 .. 4
  BY <1>1, <1>5, TierOf DEF Tree
<1>9. EdgesFit(nodes, leaves, word, p, et, leaves')
  <2> HIDE DEF es
  <2> QED
    BY <1>7, <1>8, OrderedFit DEF et
<1>10. Tree(nodes', leaves', root', word)
  BY <1>1, <1>5, <1>6, <1>9, FitTree
<1> QED
  BY <1>3, <1>10 DEF IsTreeAfter

(* A node that has to grow has a kind to grow to.                          *)
LEMMA MustGrowFacts ==
  ASSUME NEW word, Tree(nodes, leaves, root, word), NEW k \in Keys, MustGrow(Descend(k))
  PROVE  LET at == Descend(k)
         IN  /\ at.node \in DOMAIN nodes /\ Tier(at.node) \in 1 .. 3
             /\ Above(at.up, at.node) /\ at.depth = Len(word[at.node])
             /\ Agree(word[at.node], k) /\ k \notin DOMAIN leaves
             /\ \A e \in Edges(nodes, at.node) : e[1] # Char(k, at.depth)
             /\ CanAlloc(Tier(at.node) + 1)
<1> DEFINE at == Descend(k)
           p == at.node
<1>1. at.why = "add" /\ k \in Words /\ ~Room(p) /\ CanAlloc(Tier(p) + 1)
  BY Constants DEF MustGrow
<1>2. /\ p \in DOMAIN nodes /\ Above(at.up, p) /\ at.depth = Len(word[p])
      /\ Agree(word[p], k) /\ \A e \in Edges(nodes, p) : e[1] # Char(k, at.depth)
  BY <1>1, DescendAdd
<1>3. k \notin DOMAIN leaves
  BY <1>1, DescendKnown
<1>4. Tier(p) \in 1 .. 4
  BY <1>2, TierOf DEF Tree
<1>5. Tier(p) # 4
  BY <1>1 DEF Room
<1> HIDE DEF at, p
<1>6. Tier(p) \in 1 .. 3
  BY <1>4, <1>5
<1> QED
  BY <1>1, <1>2, <1>3, <1>6 DEF at, p

LEMMA GrowTree ==
  ASSUME IsTree, NEW k \in Keys, NEW v, Grow(k, v, Descend(k))
  PROVE  IsTreeAfter /\ k \notin DOMAIN leaves
<1>1. PICK word : Tree(nodes, leaves, root, word)
  BY DEF IsTree
<1> DEFINE at == Descend(k)
           p == at.node
           es == Append(nodes[p].edges, <<Char(k, Len(word[p])), Leaf(k)>>)
           t == Tier(p) + 1
<1>2. MustGrow(at)
  BY DEF Grow
<1>3. /\ p \in DOMAIN nodes /\ Tier(p) \in 1 .. 3 /\ Above(at.up, p)
      /\ at.depth = Len(word[p]) /\ Agree(word[p], k) /\ k \notin DOMAIN leaves
      /\ \A e \in Edges(nodes, p) : e[1] # Char(k, Len(word[p]))
      /\ CanAlloc(t)
  BY <1>1, <1>2, MustGrowFacts
<1>4. DOMAIN leaves' = DOMAIN leaves \cup {k}
  BY NewLeafFacts DEF Grow
<1>5. Morph(p, at.up, t, es, OneMore(p))
  <2>1. Morph(p, at.up, t, Append(nodes[p].edges, <<Char(k, at.depth), Leaf(k)>>),
              OneMore(p))
    BY DEF Grow
  <2> QED
    BY <1>3, <2>1
<1>6. t \in 1 .. 4
  BY <1>3
<1> HIDE DEF at, p, t
<1>7. EdgesFit(nodes, leaves, word, p, es, leaves')
  BY <1>1, <1>3, <1>4, AddFit
<1> HIDE DEF es
<1>8. \E w : Tree(nodes', leaves', root', w)
  BY <1>1, <1>3, <1>5, <1>6, <1>7, MorphTree
<1> QED
  BY <1>3, <1>8 DEF IsTreeAfter

LEMMA GrowInVainTree ==
  ASSUME IsTree, NEW k \in Keys, GrowInVain(Descend(k))
  PROVE  IsTreeAfter
<1>1. PICK word : Tree(nodes, leaves, root, word)
  BY DEF IsTree
<1> DEFINE at == Descend(k)
           p == at.node
           es == nodes[p].edges
           t == Tier(p) + 1
<1>2. MustGrow(at) /\ Morph(p, at.up, t, es, num_children[p]) /\ leaves' = leaves
  BY DEF GrowInVain
<1>3. p \in DOMAIN nodes /\ Tier(p) \in 1 .. 3 /\ Above(at.up, p) /\ CanAlloc(t)
  BY <1>1, <1>2, MustGrowFacts
<1>4. t \in 1 .. 4
  BY <1>3
<1>5. EdgesFit(nodes, leaves, word, p, es, leaves)
  BY <1>1, <1>3, SameFit
<1> HIDE DEF at, p, t, es
<1>6. \E w : Tree(nodes', leaves, root', w)
  BY <1>1, <1>2, <1>3, <1>4, <1>5, MorphTree
<1> QED
  BY <1>2, <1>6 DEF IsTreeAfter

(* The nodes behind the leaf that a deletion has found.                    *)
LEMMA FoundFacts ==
  ASSUME NEW word, Tree(nodes, leaves, root, word), NEW k \in Keys,
         Route(k).end = "found"
  PROVE  LET p == Behind(Route(k).path, 1)
             up == Behind(Route(k).path, 2)
         IN  /\ k \in DOMAIN leaves
             /\ p = NULL => root = Leaf(k)
             /\ p # NULL => /\ p \in DOMAIN nodes /\ Above(up, p)
                            /\ \E b : <<b, Leaf(k)>> \in Edges(nodes, p)
<1> DEFINE path == Route(k).path
           p == Behind(path, 1)
           up == Behind(path, 2)
<1>1. k \in Words /\ k \in DOMAIN leaves
  BY Constants, RouteFinds
<1>2. /\ Halts(RouteEnds(k)) /\ Trail(k, RouteEnds(k), path)
      /\ Last(path)[1] = Leaf(k)
  <2>1. LET pa == Follow(k, RouteEnds(k))
            x == Last(pa)[1]
        IN  /\ path = pa /\ Halts(RouteEnds(k)) /\ Trail(k, RouteEnds(k), pa)
            /\ "found" = IF x = Leaf(k) THEN "found"
                         ELSE IF x = NULL \/ IsLeaf(x) \/ Differs(x, k, Last(pa)[2])
                         THEN "absent" ELSE "past"
    BY <1>1, RouteIs
  <2> QED
    BY <2>1
<1>3. Leaf(k) # NULL
  BY PtrFacts
<1>4. /\ p # NULL => /\ p \in DOMAIN nodes /\ Above(up, p)
                     /\ <<Char(k, Len(word[p])), Last(path)[1]>> \in Edges(nodes, p)
      /\ p = NULL => Last(path)[1] = root
  <2> DEFINE ends == RouteEnds(k)
  <2>1. Halts(ends) /\ Trail(k, ends, path) /\ Last(path)[1] # NULL
    BY <1>2, <1>3
  <2> HIDE DEF ends, path
  <2> QED
    BY <1>1, <2>1, BehindFacts
<1> HIDE DEF path, p, up
<1> QED
  BY <1>1, <1>2, <1>4 DEF path, p, up

LEMMA DeleteRootTree ==
  ASSUME IsTree, NEW k \in DOMAIN leaves, root = Leaf(k), DeleteRoot(k)
  PROVE  IsTreeAfter
<1>1. PICK word : Tree(nodes, leaves, root, word)
  BY DEF IsTree
<1>2. DOMAIN nodes = {} /\ DOMAIN leaves = {k}
  BY <1>1, OneLeaf
<1>3. DOMAIN leaves' = {} /\ nodes' = nodes /\ root' = NULL
  BY <1>2, LeafFreedFacts DEF DeleteRoot
<1>4. Tree(nodes', leaves', root', word)
  BY <1>2, <1>3, EmptyTree
<1> QED
  BY <1>4 DEF IsTreeAfter

LEMMA DeleteChildTree ==
  ASSUME IsTree, NEW k \in DOMAIN leaves, NEW p \in DOMAIN nodes,
         NEW b, <<b, Leaf(k)>> \in Edges(nodes, p), DeleteChild(k, p)
  PROVE  IsTreeAfter
<1>1. PICK word : Tree(nodes, leaves, root, word)
  BY DEF IsTree
<1> DEFINE es == Remaining(p, k)
<1>2. DOMAIN leaves' = DOMAIN leaves \ {k}
  BY LeafFreedFacts DEF DeleteChild
<1>3. EdgesFit(nodes, leaves, word, p, es, leaves')
  BY <1>1, <1>2, CutFit
<1>4. /\ root' = root /\ DOMAIN nodes' = DOMAIN nodes
      /\ \A n \in DOMAIN nodes :
           nodes'[n] = IF n = p THEN [nodes[p] EXCEPT !.edges = es] ELSE nodes[n]
  <2>1. nodes' = [nodes EXCEPT ![p].edges = es] /\ root' = root
    BY DEF DeleteChild
  <2> HIDE DEF es
  <2> QED
    BY <2>1
<1> HIDE DEF es
<1>5. Tree(nodes', leaves', root', word)
  BY <1>1, <1>3, <1>4, FitTree
<1> QED
  BY <1>5 DEF IsTreeAfter

LEMMA ShrinkTree ==
  ASSUME IsTree, NEW k \in DOMAIN leaves, NEW p \in DOMAIN nodes,
         NEW b, <<b, Leaf(k)>> \in Edges(nodes, p), NEW up, Above(up, p), Shrink(k, p, up)
  PROVE  IsTreeAfter
<1>1. PICK word : Tree(nodes, leaves, root, word)
  BY DEF IsTree
<1> DEFINE es == Remaining(p, k)
           t == Smaller(p)
<1>2. DOMAIN leaves' = DOMAIN leaves \ {k}
  BY LeafFreedFacts DEF Shrink
<1>3. EdgesFit(nodes, leaves, word, p, es, leaves')
  BY <1>1, <1>2, CutFit
<1>4. CanAlloc(t) /\ Morph(p, up, t, es, OneLess(p)) /\ Tier(p) > 1
  BY DEF Shrink, Shrinks
<1>5. t \in 1 .. 4
  BY <1>1, <1>4, TierOf DEF Tree, Smaller
<1> HIDE DEF es, t
<1>6. \E w : Tree(nodes', leaves', root', w)
  BY <1>1, <1>3, <1>4, <1>5, MorphTree
<1> QED
  BY <1>6 DEF IsTreeAfter

LEMMA CollapseIsTree ==
  ASSUME IsTree, NEW k \in DOMAIN leaves, NEW p \in DOMAIN nodes,
         NEW b, <<b, Leaf(k)>> \in Edges(nodes, p), NEW up, Above(up, p), Collapse(k, p, up),
         num_children[p] = Len(nodes[p].edges)
  PROVE  IsTreeAfter
<1>1. PICK word : Tree(nodes, leaves, root, word)
  BY DEF IsTree
<1> DEFINE es == Remaining(p, k)
           c == es[1][1]
           s == es[1][2]
<1>2. DOMAIN leaves' = DOMAIN leaves \ {k}
  BY LeafFreedFacts DEF Collapse
<1>3. /\ EdgesFit(nodes, leaves, word, p, es, leaves')
      /\ Range(es) = Edges(nodes, p) \ {<<b, Leaf(k)>>}
      /\ Len(es) = Len(nodes[p].edges) - 1
  BY <1>1, <1>2, CutFit
<1>4. Len(es) = 1
  <2>1. OneLess(p) = 1 /\ OneLess(p) = num_children[p] - 1
    BY DEF Collapse, Collapses, OneLess
  <2> QED
    BY <1>3, <2>1
<1>5. /\ DOMAIN nodes' = DOMAIN nodes \ {p}
      /\ \A n \in DOMAIN nodes \ {p} :
           nodes'[n] = IF n = s THEN Glued(p, c, s) ELSE Repointed(up, p, s)[n]
      /\ root' = RootAfter(up, s)
  <2>1. /\ nodes' = [n \in DOMAIN nodes \ {p} |->
                       IF n = s THEN Glued(p, c, s) ELSE Repointed(up, p, s)[n]]
        /\ root' = RootAfter(up, s)
    BY DEF Collapse
  <2> HIDE DEF c, s
  <2> QED
    BY <2>1
<1>6. es[1] \in Edges(nodes, p) /\ es[1] # <<b, Leaf(k)>> /\ es[1] = <<c, s>>
      /\ Range(es) = {<<c, s>>}
  <2>1. es \in Seq(Bytes \X Ptrs(nodes, leaves'))
    BY <1>3 DEF EdgesFit
  <2>2. DOMAIN es = {1}
    BY <1>4, <2>1
  <2>3. Range(es) = {es[1]}
    BY <2>2 DEF Range
  <2>4. es[1] \in Edges(nodes, p) /\ es[1] # <<b, Leaf(k)>>
    BY <1>3, <2>3
  <2>5. es[1] = <<es[1][1], es[1][2]>>
    BY <1>1, <2>4, EdgeFacts DEF Tree
  <2> HIDE DEF es
  <2> QED
    BY <2>3, <2>4, <2>5
<1> HIDE DEF es, c, s
<1>7. s # Leaf(k)
  <2> SUFFICES ASSUME s = Leaf(k) PROVE FALSE
    OBVIOUS
  <2> DEFINE e == <<c, s>>
             f == <<b, Leaf(k)>>
  <2>1. e[2] = s /\ f[2] = Leaf(k) /\ e \in Edges(nodes, p) /\ f \in Edges(nodes, p)
    BY <1>6
  <2>2. OnePointer(nodes, leaves, root) /\ e # f
    BY <1>1, <1>6 DEF Tree
  <2> HIDE DEF e, f
  <2> QED
    BY <2>1, <2>2 DEF OnePointer
<1>8. Edges(nodes, p) = {<<b, Leaf(k)>>, <<c, s>>}
  BY <1>3, <1>6
<1>9. /\ \A n \in DOMAIN nodes : Repointed(up, p, s)[n] = Redirect(nodes[n], p, s)
      /\ RootAfter(up, s) = Swap(p, s, root)
  BY <1>1, RepointedFacts
<1>10. s # p
  BY <1>1, <1>6, <1>8, NoSelf
<1>11. \A n \in DOMAIN nodes' : n # s => nodes'[n] = Redirect(nodes[n], p, s)
  BY <1>5, <1>9
<1>12. s \in DOMAIN nodes =>
         LET len == nodes[p].prefix_len + 1 + nodes[s].prefix_len
         IN  nodes'[s] = [nodes[s] EXCEPT !.prefix_len = len,
                            !.prefix = SubSeq(nodes[p].prefix \o <<c>> \o nodes[s].prefix, 1,
                                              Min({len, MaxPrefix}))]
  <2> SUFFICES ASSUME s \in DOMAIN nodes
               PROVE  LET len == nodes[p].prefix_len + 1 + nodes[s].prefix_len
                      IN  nodes'[s] = [nodes[s] EXCEPT !.prefix_len = len,
                            !.prefix = SubSeq(nodes[p].prefix \o <<c>> \o nodes[s].prefix, 1,
                                              Min({len, MaxPrefix}))]
    OBVIOUS
  <2>1. nodes'[s] = Glued(p, c, s)
    BY <1>5, <1>10
  <2> QED
    BY <2>1 DEF Glued
<1>13. Tree(nodes', leaves', Swap(p, s, root), word)
  <2>1. DOMAIN nodes' = DOMAIN nodes \ {p}
    BY <1>5
  <2>2. Collapsed(nodes, leaves, p, k, b, c, s, leaves', nodes')
    BY <1>2, <2>1, <1>7, <1>8, <1>11, <1>12 DEF Collapsed
  <2> QED
    BY <1>1, <2>2, CollapseTree
<1> QED
  BY <1>5, <1>9, <1>13 DEF IsTreeAfter

(* A key that ends inside a path ends in bytes that are not saved.         *)
LEMMA PastIsLong ==
  ASSUME NEW word, Tree(nodes, leaves, root, word), NEW k \in Keys, Route(k).end = "past"
  PROVE  LET x == Last(Route(k).path)[1]
         IN  /\ x \in DOMAIN nodes /\ nodes[x].prefix_len > MaxPrefix
             /\ Above(Behind(Route(k).path, 1), x)
<1> DEFINE path == Follow(k, RouteEnds(k))
           x == Last(path)[1]
           d == Last(path)[2]
           pre == nodes[x].prefix
           len == nodes[x].prefix_len
<1>1. k \in Words /\ Shape(nodes, leaves)
  BY Constants DEF Tree
<1>2. /\ Halts(RouteEnds(k)) /\ Trail(k, RouteEnds(k), path) /\ path \in Paths
      /\ Route(k).path = path /\ Last(path) \in RouteEnds(k)
      /\ Route(k).end = IF x = Leaf(k) THEN "found"
                        ELSE IF x = NULL \/ IsLeaf(x) \/ Differs(x, k, d)
                        THEN "absent" ELSE "past"
  BY <1>1, RouteIs
<1>3. x # NULL /\ ~IsLeaf(x) /\ ~Differs(x, k, d)
  <2> HIDE DEF path, x, d
  <2> QED
    BY <1>2
<1>4. Past(x, k, d)
  BY <1>2, <1>3 DEF RouteEnds
<1>5. x \in DOMAIN nodes /\ d \in Nat
  <2>1. x \in Ptrs(nodes, leaves) /\ d \in Nat
    BY <1>1, <1>2, <1>3, PlaceDepth
  <2> QED
    BY <1>1, <1>3, <2>1, ShapeFacts
<1>6. LET q == Behind(path, 1)
      IN  /\ Above(q, x)
          /\ q # NULL => /\ q \in DOMAIN nodes
                         /\ <<Char(k, Len(word[q])), x>> \in Edges(nodes, q)
                         /\ d = Len(word[q]) + 1
          /\ q = NULL => d = 0
  <2> DEFINE ends == RouteEnds(k)
             q == Behind(path, 1)
  <2>1. k \in Words /\ Halts(ends) /\ Trail(k, ends, path) /\ Last(path)[1] # NULL
    BY <1>1, <1>2, <1>3
  <2> HIDE DEF ends, path
  <2>2. LET p == Last(path)[1]
            z == Behind(path, 1)
            r == Behind(path, 2)
        IN  /\ Above(z, p)
            /\ z # NULL => /\ z \in DOMAIN nodes /\ Above(r, z)
                           /\ <<Char(k, Len(word[z])), p>> \in Edges(nodes, z)
                           /\ Last(path)[2] = Len(word[z]) + 1
                           /\ path[Len(path) - 1] \notin ends
                           /\ path[Len(path) - 1] \in Places
                           /\ path[Len(path) - 1][1] = z
            /\ z = NULL => Last(path)[2] = 0 /\ p = root
    BY <2>1, BehindFacts, Zenon
  <2> QED
    BY <2>2
<1>7. d = Depth(nodes, word, x)
  <2>1. Len(path) \in Nat \ {0} /\ Last(path) = path[Len(path)]
    BY <1>2, LastPlace
  <2> DEFINE n == Len(path)
             ends == RouteEnds(k)
  <2>2. n \in 1 .. Len(path) /\ Halts(ends) /\ Trail(k, ends, path)
        /\ x = path[n][1] /\ d = path[n][2]
    BY <1>2, <2>1
  <2> HIDE DEF path, n, ends, x, d
  <2>3. path[n][1] \in DOMAIN nodes => path[n][2] = Depth(nodes, word, path[n][1])
    BY <1>1, <2>2, OnTrail
  <2> QED
    BY <1>5, <2>2, <2>3
<1> HIDE DEF path, x, d
<1>8. /\ len \in Nat /\ Len(pre) \in Nat /\ d + len = Len(word[x]) /\ word[x] \in Words
      /\ Len(word[x]) \in Nat
      /\ Len(pre) <= len /\ (Len(pre) = MaxPrefix \/ Len(pre) = len)
      /\ \A i \in 0 .. Len(pre) - 1 : pre[i + 1] = Char(word[x], d + i)
  <2>1. PathOK(nodes, word, x)
    BY <1>5 DEF Tree
  <2>2. len \in Nat /\ Len(pre) \in Nat /\ word[x] \in Words /\ Len(word[x]) \in Nat
    BY <1>1, <1>5, EdgeFacts, TreeFacts
  <2>3. d + len = Len(word[x])
    BY <1>7, <2>2 DEF Depth
  <2> QED
    BY <1>7, <2>1, <2>2, <2>3 DEF PathOK
<1> DEFINE c == check_prefix(x, k, d)
<1>9. c = Len(pre) /\ \A i \in 0 .. Len(pre) - 1 : pre[i + 1] = Char(k, d + i)
  <2>1. /\ c \in 0 .. Len(pre) /\ \A i \in 0 .. c - 1 : pre[i + 1] = Char(k, d + i)
    BY <1>1, <1>5, PrefixFacts
  <2>2. ~(c < Len(pre))
    BY <1>3 DEF Differs
  <2> HIDE DEF c
  <2>3. c = Len(pre)
    BY <1>8, <2>1, <2>2
  <2> QED
    BY <2>1, <2>3
<1>10. Len(k) \in Nat /\ MaxPrefix \in Nat
  BY <1>1, Constants DEF Words
<1> HIDE DEF c, pre, len
<1>11. len > MaxPrefix
  <2> SUFFICES ASSUME ~(len > MaxPrefix) PROVE FALSE
    OBVIOUS
  <2>1. Len(pre) = len
    BY <1>8, <1>10
  <2>2. d + len > Len(k)
    BY <1>4 DEF Past, len
  <2>3. len # 0 \/ d > Len(k)
    BY <1>5, <1>8, <2>2
  <2>4. CASE d <= Len(k)
    <3> DEFINE i == Len(k) - d
    <3>1. i \in 0 .. Len(pre) - 1 /\ d + i = Len(k) /\ Len(k) < Len(word[x])
      BY <1>5, <1>8, <1>10, <2>1, <2>2, <2>4
    <3> HIDE DEF i
    <3>2. Char(k, Len(k)) = Char(word[x], Len(k))
      <4>1. pre[i + 1] = Char(word[x], d + i) /\ pre[i + 1] = Char(k, d + i)
        BY <1>8, <1>9, <3>1
      <4> QED
        BY <3>1, <4>1
    <3>3. Char(k, Len(k)) = 0
      BY <1>1, <1>10, CharFacts
    <3>4. Char(word[x], Len(k)) # 0
      <4>1. ~(Len(k) >= Len(word[x]))
        BY <1>8, <1>10, <3>1
      <4> QED
        BY <1>8, <1>10, <4>1, CharFacts
    <3> QED
      BY <3>2, <3>3, <3>4
  <2>5. CASE d > Len(k)
    \* the byte before the place was led by one of k's
    <3> DEFINE q == Behind(path, 1)
    <3>1. /\ q # NULL => /\ q \in DOMAIN nodes
                         /\ <<Char(k, Len(word[q])), x>> \in Edges(nodes, q)
                         /\ d = Len(word[q]) + 1
          /\ q = NULL => d = 0
      BY <1>6
    <3> HIDE DEF q
    <3>2. q # NULL
      BY <1>10, <2>5, <3>1
    <3> DEFINE b == Char(k, Len(word[q]))
    <3>3. b # 0
      <4>1. <<b, x>>[1] = b /\ <<b, x>>[2] = x
        OBVIOUS
      <4> HIDE DEF b
      <4> QED
        BY <1>5, <3>1, <3>2, <4>1, TreeFacts DEF b
    <3>4. Len(word[q]) \in Nat
      BY <3>1, <3>2, TreeFacts
    <3>5. Len(word[q]) < Len(k)
      <4> SUFFICES ASSUME ~(Len(word[q]) < Len(k)) PROVE FALSE
        OBVIOUS
      <4>1. Len(word[q]) >= Len(k)
        BY <1>10, <3>4
      <4> QED
        BY <1>1, <3>3, <3>4, <4>1, CharFacts
    <3> QED
      BY <1>10, <2>5, <3>1, <3>2, <3>4, <3>5
  <2> QED
    BY <1>5, <1>10, <2>4, <2>5
<1> QED
  BY <1>2, <1>5, <1>6, <1>11 DEF x, len
-----------------------------------------------------------------------------
(* The walk of an iterator                                                 *)
Stacks == Seq(Frames)
(* A stack that goes on with its top frame exhausted, or with a child.     *)
NextOf(st) == NextEdge(Last(st)[1], Last(st)[2])
AdvEnds == {st \in Stacks : \/ st = <<>> \/ IsLeaf(Last(st)[1])
                            \/ Last(st)[1] \notin DOMAIN nodes
                            \/ NextOf(st) # 0 /\ Len(st) = ART_MAX_DEPTH}
Pushed(st) ==
  LET p == Last(st)[1]
      e == NextOf(st)
  IN  Front(st) \o << <<p, Beyond(p, e)>>, <<nodes[p].edges[e][2], 0>> >>
AdvNext == [st \in Stacks |-> IF NextOf(st) = 0 THEN Front(st) ELSE Pushed(st)]
Ended(rest, hit, how) == [stack |-> rest, hit |-> hit, how |-> how]
AdvRes == [st \in Stacks |->
             IF st = <<>> THEN Ended(st, NULL, "no")
             ELSE IF IsLeaf(Last(st)[1]) THEN Ended(Front(st), Last(st)[1], "no")
             ELSE IF Last(st)[1] \notin DOMAIN nodes THEN Ended(st, NULL, "stale")
             ELSE Ended(st, NULL, "overrun")]
AdvLaw(f) == Continues(Stacks, AdvEnds, AdvNext, AdvRes, f)

LEMMA StackParts ==
  ASSUME NEW st \in Stacks, st # <<>>
  PROVE  /\ Front(st) \in Stacks /\ Last(st) \in Frames /\ Len(st) \in Nat \ {0}
         /\ Len(Front(st)) = Len(st) - 1 /\ Last(st) = st[Len(st)]
         /\ \A i \in 1 .. Len(st) - 1 : Front(st)[i] = st[i]
         /\ Last(st)[1] \in Addresses \cup {Leaf(k) : k \in Keys} /\ Last(st)[2] \in Nat
         /\ ~IsLeaf(Last(st)[1]) => Last(st)[1] \in Addresses
<1>1. st \in Seq(Frames) /\ Len(st) \in Nat \ {0}
  BY DEF Stacks
<1>2. /\ Front(st) \in Seq(Frames) /\ Len(Front(st)) = Len(st) - 1
      /\ \A i \in 1 .. Len(st) - 1 : Front(st)[i] = st[i]
  <2>1. Front(st) = SubSeq(st, 1, Len(st) - 1)
    BY DEF Front
  <2>2. Len(st) - 1 \in Nat /\ Len(st) - 1 <= Len(st)
    BY <1>1
  <2>3. \A m \in Nat : m <= Len(st) => LET t == SubSeq(st, 1, m)
                                       IN  /\ t \in Seq(Frames) /\ Len(t) = m
                                           /\ \A i \in 1 .. m : t[i] = st[i]
    BY <1>1, FirstPart
  <2> QED
    BY <2>1, <2>2, <2>3
<1>3. Last(st) \in Frames /\ Last(st) = st[Len(st)]
  BY <1>1, ElementOfSeq DEF Last
<1>4. /\ Last(st)[1] \in Addresses \cup {Leaf(k) : k \in Keys} /\ Last(st)[2] \in Nat
  BY <1>3 DEF Frames, Addresses
<1>5. ~IsLeaf(Last(st)[1]) => Last(st)[1] \in Addresses
  BY <1>4, PtrFacts
<1> QED
  BY <1>1, <1>2, <1>3, <1>4, <1>5 DEF Stacks

(* The next edge of a node, from a position or a byte on.                  *)
Ahead(p, i) == {e \in DOMAIN nodes[p].edges :
                  IF Tier(p) < 3 THEN e > i ELSE nodes[p].edges[e][1] >= i}

LEMMA NextFacts ==
  ASSUME Shape(nodes, leaves), NEW p \in DOMAIN nodes, NEW i \in Nat
  PROVE  LET e == NextEdge(p, i)
         IN  /\ e = 0 => Ahead(p, i) = {}
             /\ e # 0 => /\ e \in Ahead(p, i) /\ e \in DOMAIN nodes[p].edges
                         /\ \A f \in Ahead(p, i) : e <= f
                         /\ nodes[p].edges[e] \in Edges(nodes, p)
                         /\ nodes[p].edges[e][2] \in Ptrs(nodes, leaves)
                         /\ Beyond(p, e) \in Nat /\ Beyond(p, e) > i
                         /\ Beyond(p, e) <= Len(nodes[p].edges) + LastByte + 1
<1> DEFINE e == NextEdge(p, i)
           es == nodes[p].edges
<1>1. /\ Len(es) \in Nat /\ DOMAIN es = 1 .. Len(es)
      /\ \A j \in DOMAIN es : /\ es[j] \in Edges(nodes, p) /\ es[j][1] \in Bytes
                              /\ es[j][2] \in Ptrs(nodes, leaves)
  BY EdgeFacts
<1>2. e = IF Ahead(p, i) = {} THEN 0 ELSE Min(Ahead(p, i))
  BY DEF NextEdge, Ahead
<1>3. Ahead(p, i) \in SUBSET Nat /\ 0 \notin Ahead(p, i) /\ Ahead(p, i) \subseteq DOMAIN es
  BY <1>1 DEF Ahead
<1>4. Ahead(p, i) # {} => e \in Ahead(p, i) /\ \A f \in Ahead(p, i) : e <= f
  BY <1>2, <1>3, MinFacts
<1>5. ASSUME e \in Ahead(p, i)
      PROVE  /\ Beyond(p, e) \in Nat /\ Beyond(p, e) > i
             /\ Beyond(p, e) <= Len(nodes[p].edges) + LastByte + 1
  <2>1. e \in Nat /\ e <= Len(es) /\ es[e][1] \in 0 .. LastByte /\ LastByte \in Nat
    BY <1>1, <1>3, <1>5, Constants DEF Bytes
  <2>2. IF Tier(p) < 3 THEN e > i ELSE es[e][1] >= i
    BY <1>5 DEF Ahead
  <2>3. Beyond(p, e) = IF Tier(p) < 3 THEN e ELSE es[e][1] + 1
    BY DEF Beyond
  <2> HIDE DEF e
  <2>4. CASE Tier(p) < 3
    BY <1>1, <2>1, <2>2, <2>3, <2>4
  <2>5. CASE ~(Tier(p) < 3)
    BY <1>1, <2>1, <2>2, <2>3, <2>5
  <2> QED
    BY <2>4, <2>5
<1> HIDE DEF e
<1>6. e = 0 => Ahead(p, i) = {}
  BY <1>3, <1>4
<1>7. e # 0 => e \in Ahead(p, i)
  BY <1>2, <1>4
<1> QED
  BY <1>1, <1>3, <1>4, <1>5, <1>6, <1>7 DEF e

LEMMA PushFacts ==
  ASSUME Shape(nodes, leaves), NEW st \in Stacks, st # <<>>, Last(st)[1] \in DOMAIN nodes,
         NextOf(st) # 0
  PROVE  LET p == Last(st)[1]
             e == NextOf(st)
             a == <<p, Beyond(p, e)>>
             c == nodes[p].edges[e][2]
         IN  /\ a \in Frames /\ <<c, 0>> \in Frames /\ c \in Ptrs(nodes, leaves)
             /\ Append(Front(st), a) \in Stacks
             /\ Pushed(st) = Append(Append(Front(st), a), <<c, 0>>) /\ Pushed(st) \in Stacks
<1> DEFINE p == Last(st)[1]
           e == NextOf(st)
           a == <<p, Beyond(p, e)>>
           c == nodes[p].edges[e][2]
           b == <<c, 0>>
<1>1. Front(st) \in Seq(Frames) /\ Last(st)[2] \in Nat
  BY StackParts DEF Stacks
<1>2. c \in Ptrs(nodes, leaves) /\ Beyond(p, e) \in Nat
  BY <1>1, NextFacts DEF NextOf
<1>3. Ptrs(nodes, leaves) \subseteq Addresses \cup {Leaf(k) : k \in Keys}
  BY DEF Shape, Ptrs, LeavesOf
<1>4. Frames = (Addresses \cup {Leaf(k) : k \in Keys}) \X Nat
  BY DEF Frames, Addresses
<1>5. p \in Ptrs(nodes, leaves)
  BY DEF Ptrs
<1>6. Pushed(st) = Front(st) \o <<a, b>>
  BY DEF Pushed
<1> HIDE DEF p, e, c
<1>7. a \in Frames /\ b \in Frames
  BY <1>2, <1>3, <1>4, <1>5
<1> HIDE DEF a, b
<1>8. /\ Append(Front(st), a) \in Seq(Frames)
      /\ Front(st) \o <<a, b>> = Append(Append(Front(st), a), b)
      /\ Append(Append(Front(st), a), b) \in Seq(Frames)
  BY <1>1, <1>7
<1> QED
  BY <1>2, <1>6, <1>7, <1>8 DEF Stacks, p, e, a, b, c

LEMMA AdvanceRecursion ==
  ASSUME Shape(nodes, leaves), NEW st \in Stacks
  PROVE  /\ advance(st) = IF st \in AdvEnds THEN AdvRes[st] ELSE advance(AdvNext[st])
         /\ st \notin AdvEnds => AdvNext[st] \in Stacks
<1> DEFINE law(f) == f = [s \in Seq(Frames) |->
        LET p == Last(s)[1]
            e == NextEdge(p, Last(s)[2])
            Ends(rest, hit, how) == [stack |-> rest, hit |-> hit, how |-> how]
        IN  IF s = <<>> THEN Ends(s, NULL, "no")
            ELSE IF IsLeaf(p) THEN Ends(Front(s), p, "no")
            ELSE IF p \notin DOMAIN nodes THEN Ends(s, NULL, "stale")
            ELSE IF e = 0 THEN f[Front(s)]
            ELSE IF Len(s) = ART_MAX_DEPTH THEN Ends(s, NULL, "overrun")
            ELSE f[Front(s) \o << <<p, Beyond(p, e)>>, <<nodes[p].edges[e][2], 0>> >>]]
<1>1. ASSUME NEW s \in Stacks, s \notin AdvEnds PROVE AdvNext[s] \in Stacks
  <2>1. s # <<>> /\ Last(s)[1] \in DOMAIN nodes
    BY <1>1 DEF AdvEnds
  <2>2. CASE NextOf(s) = 0
    BY <2>1, <2>2, StackParts DEF AdvNext
  <2>3. CASE NextOf(s) # 0
    BY <2>1, <2>3, PushFacts DEF AdvNext
  <2> QED
    BY <2>2, <2>3
<1>2. \E f : AdvLaw(f)
  BY <1>1, TailRecursion DEF AdvLaw
<1>3. ASSUME NEW f, NEW s \in Stacks
      PROVE  (IF s \in AdvEnds THEN AdvRes[s] ELSE f[AdvNext[s]]) =
        LET p == Last(s)[1]
            e == NextEdge(p, Last(s)[2])
            Ends(rest, hit, how) == [stack |-> rest, hit |-> hit, how |-> how]
        IN  IF s = <<>> THEN Ends(s, NULL, "no")
            ELSE IF IsLeaf(p) THEN Ends(Front(s), p, "no")
            ELSE IF p \notin DOMAIN nodes THEN Ends(s, NULL, "stale")
            ELSE IF e = 0 THEN f[Front(s)]
            ELSE IF Len(s) = ART_MAX_DEPTH THEN Ends(s, NULL, "overrun")
            ELSE f[Front(s) \o << <<p, Beyond(p, e)>>, <<nodes[p].edges[e][2], 0>> >>]
  BY DEF AdvEnds, AdvRes, AdvNext, NextOf, Pushed, Ended
<1>4. \A f : AdvLaw(f) <=> law(f)
  <2> TAKE f
  <2> DEFINE A(s) == IF s \in AdvEnds THEN AdvRes[s] ELSE f[AdvNext[s]]
             B(s) ==
               LET p == Last(s)[1]
                   e == NextEdge(p, Last(s)[2])
                   Ends(rest, hit, how) == [stack |-> rest, hit |-> hit, how |-> how]
               IN  IF s = <<>> THEN Ends(s, NULL, "no")
                   ELSE IF IsLeaf(p) THEN Ends(Front(s), p, "no")
                   ELSE IF p \notin DOMAIN nodes THEN Ends(s, NULL, "stale")
                   ELSE IF e = 0 THEN f[Front(s)]
                   ELSE IF Len(s) = ART_MAX_DEPTH THEN Ends(s, NULL, "overrun")
                   ELSE f[Front(s) \o << <<p, Beyond(p, e)>>, <<nodes[p].edges[e][2], 0>> >>]
  <2>1. \A s \in Stacks : A(s) = B(s)
    BY <1>3
  <2>2. AdvLaw(f) <=> f = [s \in Stacks |-> A(s)]
    BY DEF AdvLaw, Continues
  <2>3. law(f) <=> f = [s \in Stacks |-> B(s)]
    BY DEF Stacks
  <2> HIDE DEF A, B, law
  <2>4. [s \in Stacks |-> A(s)] = [s \in Stacks |-> B(s)]
    BY <2>1
  <2> QED
    BY <2>2, <2>3, <2>4
<1>5. law(CHOOSE f : law(f))
  <2>1. \E f : law(f)
    BY <1>2, <1>4
  <2> HIDE DEF law
  <2> QED
    BY <2>1
<1>6. \A s : advance(s) = (CHOOSE f : law(f))[s]
  BY DEF advance
<1> DEFINE g == CHOOSE f : law(f)
<1>7. AdvLaw(g)
  <2> HIDE DEF law
  <2> QED
    BY <1>4, <1>5
<1>8. \A s : advance(s) = g[s]
  BY <1>6
<1> HIDE DEF g, law
<1>9. g[st] = IF st \in AdvEnds THEN AdvRes[st] ELSE g[AdvNext[st]]
  BY <1>7 DEF AdvLaw, Continues
<1> QED
  BY <1>1, <1>8, <1>9

LEMMA AppendParts ==
  ASSUME NEW S, NEW s \in Seq(S), NEW x \in S
  PROVE  LET t == Append(s, x)
         IN  /\ t \in Seq(S) /\ t # <<>> /\ Last(t) = x /\ Front(t) = s
             /\ Len(t) = Len(s) + 1
<1> DEFINE t == Append(s, x)
<1>1. t \in Seq(S) /\ Len(t) = Len(s) + 1 /\ t[Len(t)] = x /\ Len(s) \in Nat
  BY AppendProperties
<1>2. SubSeq(t, 1, Len(s)) = s
  <2>1. \A m \in Nat : m <= Len(t) => LET r == SubSeq(t, 1, m)
                                      IN  /\ r \in Seq(S) /\ Len(r) = m
                                          /\ \A i \in 1 .. m : r[i] = t[i]
    BY <1>1, FirstPart
  <2> DEFINE r == SubSeq(t, 1, Len(s))
  <2>2. r \in Seq(S) /\ Len(r) = Len(s) /\ \A i \in 1 .. Len(s) : r[i] = t[i]
    BY <1>1, <2>1
  <2>3. \A i \in 1 .. Len(s) : t[i] = s[i]
    OBVIOUS
  <2> HIDE DEF r
  <2>4. \A i \in 1 .. Len(r) : r[i] = s[i]
    BY <2>2, <2>3
  <2>5. r = s
    BY <2>2, <2>4, SeqEqual
  <2> QED
    BY <2>5 DEF r
<1>3. Len(t) - 1 = Len(s)
  BY <1>1
<1> QED
  BY <1>1, <1>2, <1>3 DEF Last, Front

(* No set of stacks is one that a walk never leaves.                       *)
LEMMA AdvanceEnds ==
  ASSUME NEW word, Tree(nodes, leaves, root, word), NEW B \in SUBSET Stacks,
         \A st \in B : st \notin AdvEnds /\ AdvNext[st] \in B
  PROVE  B = {}
<1> DEFINE C == {st \in B : Front(st) \notin B}
<1>0. Shape(nodes, leaves)
  BY DEF Tree
<1>1. ASSUME NEW st \in B
      PROVE  /\ st \in Stacks /\ st # <<>> /\ Last(st)[1] \in DOMAIN nodes
             /\ Last(st)[2] \in Nat /\ ~IsLeaf(Last(st)[1])
  <2>1. st \in Stacks /\ st # <<>> /\ Last(st)[1] \in DOMAIN nodes
    BY DEF AdvEnds
  <2> QED
    BY <1>0, <2>1, StackParts, ShapeFacts
<1>2. ASSUME NEW st \in C
      PROVE  /\ Last(st)[2] < Len(nodes[Last(st)[1]].edges) + LastByte + 1
             /\ \E t \in C : \/ Len(word[Last(st)[1]]) < Len(word[Last(t)[1]])
                             \/ Last(t)[1] = Last(st)[1] /\ Last(st)[2] < Last(t)[2]
  <2> DEFINE p == Last(st)[1]
             i == Last(st)[2]
             e == NextOf(st)
             a == <<p, Beyond(p, e)>>
             c == nodes[p].edges[e][2]
             z == <<c, 0>>
             s == Append(Front(st), a)
             t == Append(s, z)
  <2>1. st \in B /\ st \in Stacks /\ st # <<>> /\ p \in DOMAIN nodes /\ i \in Nat
        /\ Front(st) \in Stacks
    BY <1>1, StackParts
  <2>2. e # 0
    <3> SUFFICES ASSUME e = 0 PROVE FALSE
      OBVIOUS
    <3>1. AdvNext[st] = Front(st)
      BY <2>1 DEF AdvNext
    <3> QED
      BY <2>1, <3>1
  <2>3. /\ e \in DOMAIN nodes[p].edges /\ nodes[p].edges[e] \in Edges(nodes, p)
        /\ Beyond(p, e) \in Nat /\ Beyond(p, e) > i
        /\ Beyond(p, e) <= Len(nodes[p].edges) + LastByte + 1
    BY <1>0, <2>1, <2>2, NextFacts DEF NextOf
  <2>4. /\ a \in Frames /\ z \in Frames /\ s \in Stacks /\ Pushed(st) = t
        /\ c \in Ptrs(nodes, leaves)
    BY <1>0, <2>1, <2>2, PushFacts
  <2>5. t \in B
    <3>1. AdvNext[st] = Pushed(st)
      BY <2>1, <2>2 DEF AdvNext
    <3> QED
      BY <2>1, <2>4, <3>1
  <2>6. Last(st)[2] < Len(nodes[Last(st)[1]].edges) + LastByte + 1
    <3>1. Len(nodes[p].edges) \in Nat /\ LastByte \in Nat
      BY <1>0, <2>1, EdgeFacts, Constants
    <3> QED
      BY <2>1, <2>3, <3>1
  <2>7. a[1] = p /\ a[2] = Beyond(p, e) /\ z[1] = c
    OBVIOUS
  <2>8. Front(t) = s /\ Last(t) = z /\ Front(s) = Front(st) /\ Last(s) = a
    <3> HIDE DEF a, z
    <3> QED
      BY <2>1, <2>4, AppendParts DEF Stacks
  <2>9. CASE s \in B
    <3>1. s \in C
      BY <2>8, <2>9
    <3>2. Last(s)[1] = Last(st)[1] /\ Last(st)[2] < Last(s)[2]
      <4>1. Last(s)[1] = p /\ Last(s)[2] = Beyond(p, e)
        BY <2>7, <2>8
      <4> QED
        BY <2>1, <2>3, <4>1
    <3> HIDE DEF C
    <3> QED
      BY <2>6, <3>1, <3>2
  <2>10. CASE s \notin B
    <3>1. t \in C
      BY <2>5, <2>8, <2>10
    <3>2. c \in DOMAIN nodes
      BY <1>1, <2>5, <2>7, <2>8
    <3>3. Len(word[p]) < Len(word[c])
      BY <2>1, <2>3, <3>2, TreeFacts
    <3>4. Last(t)[1] = c
      BY <2>7, <2>8
    <3> HIDE DEF C
    <3> QED
      BY <2>6, <3>1, <3>3, <3>4
  <2> QED
    BY <2>9, <2>10
<1>3. C = {}
  <2> SUFFICES ASSUME C # {} PROVE FALSE
    OBVIOUS
  <2> DEFINE num == [st \in C |-> Len(word[Last(st)[1]])]
  <2>1. PICK top \in Nat : \A r \in DOMAIN nodes : Len(word[r]) <= top
    BY WordBound
  <2>2. \A st \in C : num[st] \in Nat /\ num[st] <= top
    BY <1>1, <2>1, TreeFacts
  <2>3. PICK m \in C : \A st \in C : num[st] <= num[m]
    <3> HIDE DEF num, C
    <3> QED
      BY <2>2, LargestOf
  <2> DEFINE q == Last(m)[1]
             D == {st \in C : Last(st)[1] = q}
             at == [st \in D |-> Last(st)[2]]
             most == Len(nodes[q].edges) + LastByte + 1
  <2>4. q \in DOMAIN nodes
    BY <1>1
  <2>5. most \in Nat
    <3>1. Len(nodes[q].edges) \in Nat
      BY <1>0, <2>4, EdgeFacts
    <3>2. LastByte \in Nat
      BY Constants
    <3> QED
      BY <3>1, <3>2
  <2>6. \A st \in D : at[st] \in Nat /\ at[st] <= most
    <3> SUFFICES ASSUME NEW st \in D PROVE at[st] \in Nat /\ at[st] <= most
      OBVIOUS
    <3>1. at[st] = Last(st)[2] /\ Last(st)[1] = q /\ st \in C
      OBVIOUS
    <3>2. Last(st)[2] \in Nat /\ Last(st)[2] < most
      BY <1>1, <1>2, <3>1
    <3> HIDE DEF at, most
    <3> QED
      BY <2>5, <3>1, <3>2
  <2>7. PICK st \in D : \A t \in D : at[t] <= at[st]
    <3>1. m \in D
      OBVIOUS
    <3> HIDE DEF at, D, most
    <3> QED
      BY <2>5, <2>6, <3>1, LargestOf
  <2>8. PICK t \in C : \/ Len(word[Last(st)[1]]) < Len(word[Last(t)[1]])
                       \/ Last(t)[1] = Last(st)[1] /\ Last(st)[2] < Last(t)[2]
    BY <1>2
  <2>9. CASE Len(word[Last(st)[1]]) < Len(word[Last(t)[1]])
    <3>1. num[t] = Len(word[Last(t)[1]]) /\ num[m] = Len(word[q]) /\ Last(st)[1] = q
      OBVIOUS
    <3>2. num[t] <= num[m] /\ num[t] \in Nat /\ num[m] \in Nat
      BY <2>2, <2>3
    <3> HIDE DEF num, q
    <3> QED
      BY <2>9, <3>1, <3>2
  <2>10. CASE Last(t)[1] = Last(st)[1] /\ Last(st)[2] < Last(t)[2]
    <3>1. t \in D /\ at[t] = Last(t)[2] /\ at[st] = Last(st)[2]
      BY <2>10
    <3>2. at[t] <= at[st] /\ at[t] \in Nat /\ at[st] \in Nat
      BY <2>6, <2>7, <3>1
    <3> HIDE DEF at, D
    <3> QED
      BY <2>10, <3>1, <3>2
  <2> QED
    BY <2>8, <2>9, <2>10
<1>4. SUFFICES ASSUME B # {} PROVE FALSE
  OBVIOUS
<1> DEFINE len == [st \in B |-> Len(st)]
<1>5. \A st \in B : len[st] \in Nat
  BY <1>1, StackParts
<1>6. PICK st \in B : \A t \in B : len[st] <= len[t]
  <2> HIDE DEF len
  <2> QED
    BY <1>4, <1>5, SmallestOf
<1>7. Front(st) \in B
  BY <1>3
<1>8. Len(Front(st)) = Len(st) - 1 /\ Len(st) \in Nat
  BY <1>1, StackParts
<1>9. Len(st) <= Len(Front(st))
  BY <1>6, <1>7
<1> QED
  BY <1>8, <1>9

(* What every walk comes to: one of its ends, as that end says.            *)
LEMMA AdvanceInduction ==
  ASSUME NEW word, Tree(nodes, leaves, root, word), NEW A \in SUBSET Stacks, NEW X,
         \A st \in A : st \in AdvEnds => AdvRes[st] \in X,
         \A st \in A : st \notin AdvEnds => AdvNext[st] \in A
  PROVE  \A st \in A : advance(st) \in X
<1> DEFINE B == {st \in A : advance(st) \notin X}
<1>0. Shape(nodes, leaves)
  BY DEF Tree
<1>1. ASSUME NEW st \in B PROVE st \notin AdvEnds /\ AdvNext[st] \in B
  <2>1. st \in Stacks /\ st \in A
    OBVIOUS
  <2>2. advance(st) = IF st \in AdvEnds THEN AdvRes[st] ELSE advance(AdvNext[st])
    BY <1>0, <2>1, AdvanceRecursion
  <2> QED
    BY <2>1, <2>2
<1>2. B \in SUBSET Stacks
  OBVIOUS
<1> HIDE DEF B
<1>3. B = {}
  BY <1>1, <1>2, AdvanceEnds
<1> QED
  BY <1>3 DEF B

Hows == {"no", "stale", "overrun"}
LEMMA AdvanceType ==
  ASSUME NEW word, Tree(nodes, leaves, root, word), NEW st \in Stacks
  PROVE  advance(st).stack \in Stacks /\ advance(st).how \in Hows
<1> DEFINE X == {r \in {AdvRes[s] : s \in Stacks} : r.stack \in Stacks /\ r.how \in Hows}
<1>1. ASSUME NEW s \in Stacks PROVE AdvRes[s] \in X
  <2>1. s # <<>> => Front(s) \in Stacks
    BY StackParts
  <2>2. AdvRes[s].stack \in Stacks /\ AdvRes[s].how \in Hows
    BY <2>1 DEF AdvRes, Ended, Hows
  <2> QED
    BY <2>2
<1>2. \A s \in Stacks : s \notin AdvEnds => AdvNext[s] \in Stacks
  BY AdvanceRecursion DEF Tree
<1>3. advance(st) \in X
  <2> HIDE DEF X
  <2> QED
    BY <1>1, <1>2, AdvanceInduction
<1> QED
  BY <1>3
-----------------------------------------------------------------------------
(* The invariant: the nodes and leaves are a tree, with words to witness   *)
(* it, until a deletion has lost a part of it.                             *)
Fields == {"open", "valid", "stack", "due", "next", "seen", "moved"}
IsOpened(i) ==
  /\ DOMAIN i = Fields /\ i.open = TRUE /\ i.valid = TRUE
  /\ i.stack \in Stacks /\ i.moved \in BOOLEAN
Stale == [open |-> TRUE, valid |-> FALSE]
IterTyped(i) == i = NoIter \/ i = Stale \/ IsOpened(i)
ItersTyped(is) == DOMAIN is = Iters /\ \A it \in Iters : IterTyped(is[it])
Breakages == {"no", "free of a block", "no leaf", "lost", "stale", "overrun",
              "hole", "overrun of children"}
LeavesTyped(lv) ==
  /\ DOMAIN lv \subseteq Keys /\ IsFiniteSet(DOMAIN lv)
  /\ \A k \in DOMAIN lv : lv[k] \in Values
LongPath == \E p \in DOMAIN nodes : nodes[p].prefix_len > MaxPrefix

Sound ==
  /\ live \in BOOLEAN /\ missed \in BOOLEAN /\ wrapped \in BOOLEAN
  /\ broken \in Breakages
  /\ LeavesTyped(leaves) /\ size = Cardinality(DOMAIN leaves)
  /\ DOMAIN nodes \subseteq Addresses /\ ItersTyped(iters)
  /\ broken # "lost" => IsTree
  /\ broken = "lost" => LongPath

(* What a collapse relies on: a NODE4 counts the children it has.          *)
CountsRight ==
  broken = "no" => \A p \in DOMAIN nodes :
                     Tier(p) = 1 => num_children[p] = Len(nodes[p].edges)

LEMMA OpenedMoves ==
  ASSUME NEW i, IsOpened(i)
  PROVE  LET m == [i EXCEPT !.moved = TRUE, !.due = NULL, !.seen = {}]
         IN  /\ IsOpened(m) /\ m.moved = TRUE /\ m.stack = i.stack /\ m.next = i.next
             /\ m.open = TRUE /\ m.valid = TRUE
<1> DEFINE m == [i EXCEPT !.moved = TRUE, !.due = NULL, !.seen = {}]
<1>1. DOMAIN i = Fields
  BY DEF IsOpened
<1>2. DOMAIN m = Fields
  BY <1>1
<1>3. m.moved = TRUE
  BY <1>1 DEF Fields
<1>4. m.stack = i.stack /\ m.next = i.next /\ m.open = i.open /\ m.valid = i.valid
  BY <1>1 DEF Fields
<1> HIDE DEF m
<1>5. IsOpened(m)
  BY <1>2, <1>3, <1>4 DEF IsOpened
<1> QED
  BY <1>3, <1>4, <1>5 DEF m, IsOpened

LEMMA ClosedFacts ==
  /\ NoIter.open = FALSE
  /\ Stale.open = TRUE /\ Stale.valid = FALSE
  BY DEF NoIter, Stale

LEMMA OutdatedTyped == Outdated \in [Iters -> {NoIter, Stale}] /\ ItersTyped(Outdated)
<1>1. Outdated \in [Iters -> {NoIter, Stale}]
  BY DEF Outdated, Stale
<1>2. \A it \in Iters : Outdated[it] = NoIter \/ Outdated[it] = Stale
  BY <1>1
<1> QED
  BY <1>1, <1>2 DEF ItersTyped, IterTyped

LEMMA MovedTyped ==
  ASSUME ItersTyped(iters)
  PROVE  /\ ItersTyped(Moved)
         /\ \A it \in Iters : /\ Moved[it].open = iters[it].open
                              /\ iters[it].open => Moved[it].valid = iters[it].valid
                              /\ Moved[it].open /\ Moved[it].valid => Moved[it].moved
<1>1. ASSUME NEW it \in Iters
      PROVE  /\ IterTyped(Moved[it]) /\ Moved[it].open = iters[it].open
             /\ iters[it].open => Moved[it].valid = iters[it].valid
             /\ Moved[it].open /\ Moved[it].valid => Moved[it].moved
  <2>1. IterTyped(iters[it])
    BY DEF ItersTyped
  <2>2. Moved[it] = IF iters[it].open /\ iters[it].valid
                    THEN [iters[it] EXCEPT !.moved = TRUE, !.due = NULL, !.seen = {}]
                    ELSE iters[it]
    BY DEF Moved
  <2>3. CASE iters[it] = NoIter
    <3>1. Moved[it] = NoIter
      BY <2>2, <2>3, ClosedFacts
    <3> QED
      BY <2>3, <3>1, ClosedFacts DEF IterTyped
  <2>4. CASE iters[it] = Stale
    <3>1. Moved[it] = Stale
      BY <2>2, <2>4, ClosedFacts
    <3> QED
      BY <2>4, <3>1, ClosedFacts DEF IterTyped
  <2>5. CASE IsOpened(iters[it])
    <3>1. Moved[it] = [iters[it] EXCEPT !.moved = TRUE, !.due = NULL, !.seen = {}]
      BY <2>2, <2>5 DEF IsOpened
    <3>2. /\ IsOpened(Moved[it]) /\ Moved[it].moved = TRUE
          /\ Moved[it].open = TRUE /\ Moved[it].valid = TRUE
      BY <2>5, <3>1, OpenedMoves
    <3> QED
      BY <2>5, <3>2 DEF IterTyped, IsOpened
  <2> QED
    BY <2>1, <2>3, <2>4, <2>5 DEF IterTyped
<1>2. DOMAIN Moved = Iters
  BY DEF Moved
<1> QED
  BY <1>1, <1>2 DEF ItersTyped

(* An iterator whose version check passes has a stack.                     *)
LEMMA ValidTyped ==
  ASSUME NEW i, IterTyped(i), i.open, i.valid
  PROVE  IsOpened(i)
  BY ClosedFacts DEF IterTyped

LEMMA IterAtTyped ==
  ASSUME NEW walk, walk.stack \in Stacks, NEW seen, NEW moved \in BOOLEAN
  PROVE  /\ IsOpened(IterAt(walk, seen, moved))
         /\ IterAt(walk, seen, moved).stack = walk.stack
         /\ IterAt(walk, seen, moved).moved = moved
         /\ IterAt(walk, seen, moved).seen = seen
         /\ IterAt(walk, seen, moved).due = IF moved THEN NULL ELSE walk.hit
         /\ IterAt(walk, seen, moved).next =
              IF walk.hit = NULL THEN NoValue ELSE leaves[walk.hit[2]]
  BY DEF IterAt, IsOpened, Fields

LEMMA AfterIsTree == IsTreeAfter => IsTree' /\ DOMAIN nodes' \subseteq Addresses
  BY DEF IsTreeAfter, IsTree, Tree, Shape

LEMMA InsertedSound ==
  ASSUME Sound, broken = "no", NEW k \in Keys, NEW v \in Values, NewLeaf(k, v),
         wrapped' \in BOOLEAN, k \notin DOMAIN leaves, IsTreeAfter
  PROVE  Sound'
<1>1. /\ DOMAIN leaves' = DOMAIN leaves \cup {k} /\ leaves'[k] = v
      /\ \A l \in DOMAIN leaves : l # k => leaves'[l] = leaves[l]
  BY NewLeafFacts
<1>2. /\ size' = size + 1 /\ iters' = Outdated
      /\ live' = live /\ missed' = missed /\ broken' = broken
  BY DEF NewLeaf
<1>3. /\ DOMAIN leaves' \subseteq Keys /\ IsFiniteSet(DOMAIN leaves')
      /\ Cardinality(DOMAIN leaves') = Cardinality(DOMAIN leaves) + 1
  BY <1>1, FS_AddElement DEF Sound, LeavesTyped
<1>4. LeavesTyped(leaves')
  BY <1>1, <1>3 DEF Sound, LeavesTyped
<1>5. ItersTyped(iters')
  BY <1>2, OutdatedTyped
<1> QED
  BY <1>2, <1>3, <1>4, <1>5, AfterIsTree DEF Sound

LEMMA DeletedSound ==
  ASSUME Sound, broken = "no", NEW k \in DOMAIN leaves, LeafFreed(k),
         missed' \in BOOLEAN, broken' \in {"no", "hole"}, IsTreeAfter
  PROVE  Sound'
<1>1. /\ DOMAIN leaves' = DOMAIN leaves \ {k}
      /\ \A l \in DOMAIN leaves \ {k} : leaves'[l] = leaves[l]
  BY LeafFreedFacts
<1>2. size' = size - 1 /\ iters' = Moved /\ live' = live /\ wrapped' = wrapped
  BY DEF LeafFreed
<1>3. /\ DOMAIN leaves' \subseteq Keys /\ IsFiniteSet(DOMAIN leaves')
      /\ Cardinality(DOMAIN leaves') = Cardinality(DOMAIN leaves) - 1
  BY <1>1, FS_RemoveElement DEF Sound, LeavesTyped
<1>4. LeavesTyped(leaves')
  BY <1>1, <1>3 DEF Sound, LeavesTyped
<1>5. ItersTyped(iters')
  BY <1>2, MovedTyped DEF Sound
<1> QED
  BY <1>2, <1>3, <1>4, <1>5, AfterIsTree DEF Sound, Breakages

LEMMA SoundFacts ==
  ASSUME Sound, broken = "no"
  PROVE  IsTree
  BY DEF Sound

(* What a call does that changes the tree, and what a deletion has found.  *)
LEMMA DeleteCases ==
  ASSUME Sound, NEW k \in Keys, DeleteCall(k)
  PROVE  /\ broken = "no" /\ live /\ IsTree
         /\ \/ DeleteAbsent /\ k \notin DOMAIN leaves
            \/ \E x, p : /\ DeletePast(x, p) /\ x \in DOMAIN nodes
                         /\ nodes[x].prefix_len > MaxPrefix /\ Above(p, x)
                         /\ k \notin DOMAIN leaves
            \/ k \in DOMAIN leaves /\ root = Leaf(k) /\ DeleteRoot(k)
            \/ /\ k \in DOMAIN leaves
               /\ \E p \in DOMAIN nodes : \E b, up :
                    /\ <<b, Leaf(k)>> \in Edges(nodes, p) /\ Above(up, p)
                    /\ \/ DeleteChild(k, p) \/ Shrink(k, p, up) \/ Collapse(k, p, up)
                       \/ ShrinkOverruns(k, p)
<1>1. broken = "no" /\ live /\ IsTree
  BY SoundFacts DEF DeleteCall, Called
<1>2. PICK word : Tree(nodes, leaves, root, word)
  BY <1>1 DEF IsTree
<1> DEFINE way == Route(k)
           p == Behind(way.path, 1)
           up == Behind(way.path, 2)
<1>3. \/ way.end = "absent" /\ DeleteAbsent
      \/ way.end = "past" /\ DeletePast(Last(way.path)[1], p)
      \/ way.end = "found" /\ p = NULL /\ DeleteRoot(k)
      \/ way.end = "found" /\ p # NULL /\ (DeleteChild(k, p) \/ Shrink(k, p, up)
                                           \/ Collapse(k, p, up) \/ ShrinkOverruns(k, p))
  BY DEF DeleteCall
<1>4. way.end # "found" => k \notin DOMAIN leaves
  BY <1>2, RouteFinds
<1>5. way.end = "found" => /\ k \in DOMAIN leaves
                           /\ p = NULL => root = Leaf(k)
                           /\ p # NULL => /\ p \in DOMAIN nodes /\ Above(up, p)
                                          /\ \E b : <<b, Leaf(k)>> \in Edges(nodes, p)
  BY <1>2, FoundFacts
<1>6. way.end = "past" => LET x == Last(way.path)[1]
                          IN  /\ x \in DOMAIN nodes /\ nodes[x].prefix_len > MaxPrefix
                              /\ Above(p, x)
  BY <1>2, PastIsLong
<1> HIDE DEF way, p, up
<1>7. CASE way.end = "absent" /\ DeleteAbsent
  BY <1>1, <1>4, <1>7
<1>8. CASE way.end = "past" /\ DeletePast(Last(way.path)[1], p)
  BY <1>1, <1>4, <1>6, <1>8
<1>9. CASE way.end = "found" /\ p = NULL /\ DeleteRoot(k)
  BY <1>1, <1>5, <1>9
<1>10. CASE way.end = "found" /\ p # NULL /\ (DeleteChild(k, p) \/ Shrink(k, p, up)
                                       \/ Collapse(k, p, up) \/ ShrinkOverruns(k, p))
  <2>1. PICK b : <<b, Leaf(k)>> \in Edges(nodes, p)
    BY <1>5, <1>10
  <2>2. k \in DOMAIN leaves /\ p \in DOMAIN nodes /\ Above(up, p)
    BY <1>5, <1>10
  <2> QED
    BY <1>1, <1>10, <2>1, <2>2
<1> QED
  BY <1>3, <1>7, <1>8, <1>9, <1>10

LEMMA DeleteTrees ==
  ASSUME IsTree, NEW k \in DOMAIN leaves, NEW p \in DOMAIN nodes, NEW b, NEW up,
         <<b, Leaf(k)>> \in Edges(nodes, p), Above(up, p),
         DeleteChild(k, p) \/ Shrink(k, p, up) \/ Collapse(k, p, up),
         Tier(p) = 1 => num_children[p] = Len(nodes[p].edges)
  PROVE  IsTreeAfter /\ LeafFreed(k)
<1>1. CASE DeleteChild(k, p) \/ Shrink(k, p, up)
  BY <1>1, DeleteChildTree, ShrinkTree DEF DeleteChild, Shrink
<1>2. CASE Collapse(k, p, up)
  <2>1. num_children[p] = Len(nodes[p].edges) /\ LeafFreed(k)
    BY <1>2 DEF Collapse, Collapses
  <2> QED
    BY <1>2, <2>1, CollapseIsTree
<1> QED
  BY <1>1, <1>2

LEMMA PastSound ==
  ASSUME Sound, broken = "no", NEW x \in DOMAIN nodes, NEW p, Above(p, x),
         nodes[x].prefix_len > MaxPrefix, DeletePast(x, p)
  PROVE  Sound'
<1>1. PICK word : Tree(nodes, leaves, root, word)
  BY SoundFacts DEF IsTree
<1>2. /\ nodes' = Repointed(p, x, NULL) /\ broken' = "lost"
      /\ UNCHANGED <<live, size, leaves, iters, missed, wrapped>>
  BY DEF DeletePast, history
<1>3. /\ DOMAIN nodes' = DOMAIN nodes
      /\ \A n \in DOMAIN nodes : nodes'[n] = Redirect(nodes[n], x, NULL)
  BY <1>1, <1>2, RepointedFacts
<1>4. nodes'[x].prefix_len = nodes[x].prefix_len
  <2>1. nodes[x] \in Nodes(Ptrs(nodes, leaves))
    BY <1>1 DEF Tree, Shape
  <2>2. nodes'[x] = [nodes[x] EXCEPT !.edges = [i \in DOMAIN @ |->
                       IF @[i][2] = x THEN <<@[i][1], NULL>> ELSE @[i]]]
    BY <1>3 DEF Redirect
  <2> QED
    BY <2>1, <2>2 DEF Nodes
<1>5. LongPath'
  BY <1>3, <1>4 DEF LongPath
<1>6. LeavesTyped(leaves') /\ ItersTyped(iters') /\ size' = Cardinality(DOMAIN leaves')
  BY <1>2 DEF Sound
<1> QED
  BY <1>2, <1>3, <1>5, <1>6 DEF Sound, Breakages
LEMMA RootStack ==
  ASSUME IsTree
  PROVE  (IF root = NULL THEN <<>> ELSE << <<root, 0>> >>) \in Stacks
<1>1. PICK word : Tree(nodes, leaves, root, word)
  BY DEF IsTree
<1>2. root # NULL => root \in Addresses \cup {Leaf(k) : k \in Keys}
  BY <1>1 DEF Tree, OnePointer, Shape, Ptrs, LeavesOf
<1>3. <<>> \in Stacks
  BY DEF Stacks
<1>4. ASSUME root # NULL
      PROVE  << <<root, 0>> >> \in Stacks
  <2>1. <<root, 0>> \in Frames
    BY <1>2, <1>4 DEF Frames, Addresses
  <2> QED
    BY <2>1 DEF Stacks
<1> QED
  BY <1>3, <1>4

LEMMA SameTree ==
  ASSUME UNCHANGED <<root, nodes, leaves>>
  PROVE  (IsTree => IsTree') /\ (LongPath => LongPath')
  BY DEF IsTree, LongPath

(* A walk of an iterator leaves the tree alone.                            *)
LEMMA IterStepSound ==
  ASSUME Sound, broken = "no", NEW it \in Iters, NEW st \in Stacks, NEW seen,
         NEW moved \in BOOLEAN, IterStep(it, advance(st), seen, moved)
  PROVE  Sound'
<1>1. PICK word : Tree(nodes, leaves, root, word)
  BY SoundFacts DEF IsTree
<1>2. advance(st).stack \in Stacks /\ advance(st).how \in Hows
  BY <1>1, AdvanceType
<1>3. IsOpened(IterAt(advance(st), seen, moved))
  BY <1>2, IterAtTyped
<1>4. /\ iters' = [iters EXCEPT ![it] = IterAt(advance(st), seen, moved)]
      /\ broken' = advance(st).how
      /\ UNCHANGED <<live, root, size, nodes, leaves, missed, wrapped>>
  BY DEF IterStep, treeVars, history
<1>5. ItersTyped(iters')
  <2>1. DOMAIN iters = Iters /\ \A x \in Iters : IterTyped(iters[x])
    BY DEF Sound, ItersTyped
  <2>2. DOMAIN iters' = Iters
    BY <1>4, <2>1
  <2>3. ASSUME NEW x \in Iters
        PROVE  IterTyped(iters'[x])
    <3>1. CASE x = it
      BY <1>3, <1>4, <2>1, <3>1 DEF IterTyped
    <3>2. CASE x # it
      BY <1>4, <2>1, <3>2
    <3> QED
      BY <3>1, <3>2
  <2> QED
    BY <2>2, <2>3 DEF ItersTyped
<1>6. broken' \in Breakages /\ broken' # "lost"
  BY <1>2, <1>4 DEF Hows, Breakages
<1>7. IsTree'
  BY <1>1, <1>4 DEF IsTree
<1> QED
  BY <1>4, <1>5, <1>6, <1>7 DEF Sound

LEMMA IterCallSound ==
  ASSUME Sound, NEW it \in Iters,
         NewIter(it) \/ IterNext(it) \/ IterFails(it) \/ FreeIter(it)
  PROVE  Sound'
<1>1. broken = "no" /\ live
  BY DEF NewIter, IterNext, IterFails, FreeIter, Called
<1>2. IterTyped(iters[it]) /\ DOMAIN iters = Iters
  BY DEF Sound, ItersTyped
<1>3. CASE NewIter(it)
  <2>1. (IF root = NULL THEN <<>> ELSE << <<root, 0>> >>) \in Stacks
    BY <1>1, SoundFacts, RootStack
  <2> QED
    BY <1>1, <1>3, <2>1, IterStepSound DEF NewIter
<1>4. CASE IterNext(it)
  <2>1. IsOpened(iters[it])
    BY <1>2, <1>4, ValidTyped DEF IterNext
  <2>2. iters[it].stack \in Stacks /\ iters[it].moved \in BOOLEAN
    BY <2>1 DEF IsOpened
  <2> DEFINE seen == IF iters[it].moved THEN {} ELSE iters[it].seen \cup {iters[it].due[2]}
  <2>3. IterStep(it, advance(iters[it].stack), seen, iters[it].moved)
    BY <1>4 DEF IterNext
  <2> HIDE DEF seen
  <2> QED
    BY <1>1, <2>2, <2>3, IterStepSound
<1>5. CASE IterFails(it)
  <2>1. UNCHANGED <<live, root, size, nodes, leaves, iters, missed, wrapped, broken>>
    BY <1>5 DEF IterFails, treeVars, history
  <2> QED
    BY <2>1, SameTree DEF Sound
<1>6. CASE FreeIter(it)
  <2>1. /\ iters' = [iters EXCEPT ![it] = NoIter]
        /\ UNCHANGED <<live, root, size, nodes, leaves, missed, wrapped, broken>>
    BY <1>6 DEF FreeIter, treeVars, history
  <2>2. ItersTyped(iters')
    BY <1>2, <2>1 DEF Sound, ItersTyped, IterTyped
  <2> QED
    BY <2>1, <2>2, SameTree DEF Sound
<1> QED
  BY <1>3, <1>4, <1>5, <1>6

(* What an insertion does.                                                 *)
LEMMA InsertCases ==
  ASSUME Sound, NEW k \in Keys, InsertCall(k)
  PROVE  /\ broken = "no" /\ live /\ IsTree
         /\ \/ InsertOOM(Descend(k))
            \/ GrowInVain(Descend(k)) /\ IsTreeAfter
            \/ \E why \in {"free of a block", "no leaf"} : Breaks(why)
            \/ \E v \in Values : /\ Overwrite(k, v, Descend(k)) /\ k \in DOMAIN leaves
                                 /\ IsTreeAfter
            \/ \E v \in Values : /\ NewLeaf(k, v) /\ k \notin DOMAIN leaves
                                 /\ IsTreeAfter /\ wrapped' \in BOOLEAN
<1>1. broken = "no" /\ live /\ IsTree
  BY SoundFacts DEF InsertCall, Called
<1> DEFINE at == Descend(k)
<1>2. \/ GrowInVain(at) \/ InsertOOM(at) \/ FreeLeafOfPool(at) \/ InsertFindsNoLeaf(at)
      \/ \E v \in Values : \/ InsertFirst(k, v, at) \/ Overwrite(k, v, at)
                           \/ Fork(k, v, at) \/ AddChild(k, v, at) \/ Grow(k, v, at)
  BY DEF InsertCall
<1>3. GrowInVain(at) => IsTreeAfter
  BY <1>1, GrowInVainTree
<1>4. FreeLeafOfPool(at) => Breaks("free of a block")
  BY DEF FreeLeafOfPool
<1>5. InsertFindsNoLeaf(at) => Breaks("no leaf")
  BY DEF InsertFindsNoLeaf
<1>6. ASSUME NEW v \in Values
      PROVE  /\ Overwrite(k, v, at) => IsTreeAfter /\ k \in DOMAIN leaves
             /\ InsertFirst(k, v, at) => IsTreeAfter /\ k \notin DOMAIN leaves
             /\ Fork(k, v, at) => IsTreeAfter /\ k \notin DOMAIN leaves
             /\ AddChild(k, v, at) => IsTreeAfter /\ k \notin DOMAIN leaves
             /\ Grow(k, v, at) => IsTreeAfter /\ k \notin DOMAIN leaves
  BY <1>1, OverwriteTree, InsertFirstTree, ForkIsTree, AddChildTree, GrowTree
<1>7. ASSUME NEW v \in Values
      PROVE  \/ InsertFirst(k, v, at) \/ Fork(k, v, at) \/ AddChild(k, v, at)
             \/ Grow(k, v, at)
             => NewLeaf(k, v) /\ wrapped' \in BOOLEAN
  BY DEF InsertFirst, Fork, AddChild, Grow, Sound
<1> HIDE DEF at
<1>8. CASE GrowInVain(at) \/ InsertOOM(at) \/ FreeLeafOfPool(at) \/ InsertFindsNoLeaf(at)
  BY <1>1, <1>3, <1>4, <1>5, <1>8 DEF at
<1>9. CASE \E v \in Values : \/ InsertFirst(k, v, at) \/ Overwrite(k, v, at)
                             \/ Fork(k, v, at) \/ AddChild(k, v, at) \/ Grow(k, v, at)
  <2>1. PICK v \in Values : \/ InsertFirst(k, v, at) \/ Overwrite(k, v, at)
                            \/ Fork(k, v, at) \/ AddChild(k, v, at) \/ Grow(k, v, at)
    BY <1>9
  <2>2. CASE Overwrite(k, v, at)
    BY <1>1, <1>6, <2>2 DEF at
  <2>3. CASE InsertFirst(k, v, at) \/ Fork(k, v, at) \/ AddChild(k, v, at) \/ Grow(k, v, at)
    <3>1. NewLeaf(k, v) /\ k \notin DOMAIN leaves /\ IsTreeAfter /\ wrapped' \in BOOLEAN
      BY <1>6, <1>7, <2>3
    <3> QED
      BY <1>1, <3>1
  <2> QED
    BY <2>1, <2>2, <2>3
<1> QED
  BY <1>2, <1>8, <1>9

LEMMA InsertSound ==
  ASSUME Sound, NEW k \in Keys, InsertCall(k)
  PROVE  Sound'
<1>1. broken = "no" /\ IsTree
  BY InsertCases
<1>2. CASE InsertOOM(Descend(k))
  <2>1. UNCHANGED <<live, root, size, nodes, leaves, iters, missed, wrapped, broken>>
    BY <1>2 DEF InsertOOM, treeVars, history
  <2> QED
    BY <2>1, SameTree DEF Sound
<1>3. CASE GrowInVain(Descend(k)) /\ IsTreeAfter
  <2>1. /\ missed' = TRUE /\ iters' = Moved
        /\ UNCHANGED <<live, size, leaves, wrapped, broken>>
    BY <1>3 DEF GrowInVain
  <2> QED
    BY <1>1, <1>3, <2>1, AfterIsTree, MovedTyped DEF Sound
<1>4. CASE \E why \in {"free of a block", "no leaf"} : Breaks(why)
  <2>1. /\ broken' \in {"free of a block", "no leaf"}
        /\ UNCHANGED <<live, root, size, nodes, leaves, iters, missed, wrapped>>
    BY <1>4 DEF Breaks, treeVars, history
  <2> QED
    BY <1>1, <2>1, SameTree DEF Sound, Breakages
<1>5. CASE \E v \in Values : /\ Overwrite(k, v, Descend(k)) /\ k \in DOMAIN leaves
                             /\ IsTreeAfter
  <2>1. PICK v \in Values : Overwrite(k, v, Descend(k))
    BY <1>5
  <2>2. /\ leaves' = [leaves EXCEPT ![k] = v] /\ iters' = Outdated
        /\ UNCHANGED <<live, root, size, nodes, missed, wrapped, broken>>
    BY <2>1 DEF Overwrite, history
  <2>3. LeavesTyped(leaves') /\ DOMAIN leaves' = DOMAIN leaves
    BY <2>2 DEF Sound, LeavesTyped
  <2> QED
    BY <1>1, <1>5, <2>2, <2>3, AfterIsTree, OutdatedTyped DEF Sound
<1>6. CASE \E v \in Values : /\ NewLeaf(k, v) /\ k \notin DOMAIN leaves
                             /\ IsTreeAfter /\ wrapped' \in BOOLEAN
  BY <1>1, <1>6, InsertedSound
<1> QED
  BY <1>2, <1>3, <1>4, <1>5, <1>6, InsertCases

LEMMA DeleteSound ==
  ASSUME Sound, CountsRight, NEW k \in Keys, DeleteCall(k)
  PROVE  Sound'
<1>1. broken = "no" /\ IsTree
  BY DeleteCases
<1>2. CASE DeleteAbsent
  <2>1. UNCHANGED <<live, root, size, nodes, leaves, iters, missed, wrapped, broken>>
    BY <1>2 DEF DeleteAbsent, treeVars, history
  <2> QED
    BY <2>1, SameTree DEF Sound
<1>3. CASE \E x, p : /\ DeletePast(x, p) /\ x \in DOMAIN nodes
                     /\ nodes[x].prefix_len > MaxPrefix /\ Above(p, x)
                     /\ k \notin DOMAIN leaves
  BY <1>1, <1>3, PastSound
<1>4. CASE k \in DOMAIN leaves /\ root = Leaf(k) /\ DeleteRoot(k)
  <2>1. IsTreeAfter
    BY <1>1, <1>4, DeleteRootTree
  <2>2. LeafFreed(k) /\ missed' \in BOOLEAN /\ broken' = broken
    BY <1>4 DEF DeleteRoot, Sound
  <2> QED
    BY <1>1, <1>4, <2>1, <2>2, DeletedSound
<1>5. CASE /\ k \in DOMAIN leaves
           /\ \E p \in DOMAIN nodes : \E b, up :
                /\ <<b, Leaf(k)>> \in Edges(nodes, p) /\ Above(up, p)
                /\ \/ DeleteChild(k, p) \/ Shrink(k, p, up) \/ Collapse(k, p, up)
                   \/ ShrinkOverruns(k, p)
  <2>1. PICK p \in DOMAIN nodes : \E b, up :
                /\ <<b, Leaf(k)>> \in Edges(nodes, p) /\ Above(up, p)
                /\ \/ DeleteChild(k, p) \/ Shrink(k, p, up) \/ Collapse(k, p, up)
                   \/ ShrinkOverruns(k, p)
    BY <1>5
  <2>2. PICK b, up : /\ <<b, Leaf(k)>> \in Edges(nodes, p) /\ Above(up, p)
                     /\ \/ DeleteChild(k, p) \/ Shrink(k, p, up) \/ Collapse(k, p, up)
                        \/ ShrinkOverruns(k, p)
    BY <2>1
  <2>3. CASE ShrinkOverruns(k, p)
    <3>1. /\ broken' = "overrun of children"
          /\ UNCHANGED <<live, root, size, nodes, leaves, iters, missed, wrapped>>
      BY <2>3 DEF ShrinkOverruns, Breaks, treeVars, history
    <3> QED
      BY <1>1, <3>1, SameTree DEF Sound, Breakages
  <2>4. CASE DeleteChild(k, p) \/ Shrink(k, p, up) \/ Collapse(k, p, up)
    <3>1. Tier(p) = 1 => num_children[p] = Len(nodes[p].edges)
      BY <1>1 DEF CountsRight
    <3>2. IsTreeAfter /\ LeafFreed(k)
      BY <1>1, <1>5, <2>2, <2>4, <3>1, DeleteTrees
    <3>3. missed' \in BOOLEAN
      BY <2>4 DEF DeleteChild, Shrink, Collapse, Sound
    <3>4. broken' \in {"no", "hole"}
      BY <1>1, <2>4 DEF DeleteChild, Shrink, Collapse
    <3> QED
      BY <1>1, <1>5, <3>2, <3>3, <3>4, DeletedSound
  <2> QED
    BY <2>2, <2>3, <2>4
<1> QED
  BY <1>2, <1>3, <1>4, <1>5, DeleteCases

LEMMA InitSound == Init => Sound
<1> SUFFICES ASSUME Init PROVE Sound
  OBVIOUS
<1>1. nodes = <<>> /\ leaves = <<>> /\ root = NULL /\ size = 0
      /\ live = FALSE /\ missed = FALSE /\ wrapped = FALSE /\ broken = "no"
      /\ iters = [it \in Iters |-> NoIter]
  BY DEF Init
<1>2. DOMAIN nodes = {} /\ DOMAIN leaves = {}
  BY <1>1
<1>3. IsTree
  BY <1>1, <1>2, EmptyTree DEF IsTree
<1>4. IsFiniteSet({}) /\ Cardinality({}) = 0
  BY FS_EmptySet
<1>5. LeavesTyped(leaves)
  BY <1>2, <1>4 DEF LeavesTyped
<1>6. ItersTyped(iters)
  BY <1>1 DEF ItersTyped, IterTyped
<1>7. size = Cardinality(DOMAIN leaves) /\ DOMAIN nodes \subseteq Addresses
  BY <1>1, <1>2, <1>4
<1> QED
  BY <1>1, <1>3, <1>5, <1>6, <1>7 DEF Sound, Breakages

LEMMA FreeFacts ==
  ASSUME Sound, Free
  PROVE  Sound' /\ DOMAIN leaves' = {} /\ DOMAIN nodes' = {}
<1>1. /\ live' = FALSE /\ root' = NULL /\ size' = 0 /\ nodes' = <<>> /\ leaves' = <<>>
      /\ missed' = FALSE /\ wrapped' = FALSE /\ iters' = iters
      /\ broken' = broken /\ broken = "no"
  BY DEF Free, Called
<1>2. DOMAIN nodes' = {} /\ DOMAIN leaves' = {}
  BY <1>1
<1>3. IsTreeAfter
  BY <1>1, <1>2, EmptyTree DEF IsTreeAfter
<1>4. IsFiniteSet({}) /\ Cardinality({}) = 0
  BY FS_EmptySet
<1>5. LeavesTyped(leaves')
  BY <1>2, <1>4 DEF LeavesTyped
<1> QED
  BY <1>1, <1>2, <1>3, <1>4, <1>5, AfterIsTree DEF Sound

LEMMA StepSound == Sound /\ CountsRight /\ [Next]_vars => Sound'
<1> SUFFICES ASSUME Sound, CountsRight, [Next]_vars
             PROVE  Sound'
  OBVIOUS
<1>1. CASE Create \/ CreateOOM \/ UNCHANGED vars
  <2>1. /\ UNCHANGED <<root, size, nodes, leaves, iters, missed, wrapped, broken>>
        /\ live' \in BOOLEAN
    BY <1>1 DEF Create, CreateOOM, vars, treeVars, history, Sound
  <2> QED
    BY <2>1, SameTree DEF Sound
<1>2. CASE Free
  BY <1>2, FreeFacts
<1>3. CASE IterCall
  BY <1>3, IterCallSound DEF IterCall
<1>4. CASE \E k \in Keys : InsertCall(k) \/ DeleteCall(k)
  BY <1>4, InsertSound, DeleteSound
<1> QED
  BY <1>1, <1>2, <1>3, <1>4 DEF Next

-----------------------------------------------------------------------------
(* The tree is a map                                                       *)
Bindings == [k \in Keys |-> IF k \in DOMAIN leaves THEN leaves[k] ELSE NoValue]
Codes == {"CDSA_OK", "CDSA_ERR_OOM", "CDSA_ERR_NOT_FOUND", "CDSA_ERR_ITER_INVALIDATED"}

LEMMA KeepsBindings ==
  ASSUME leaves' = leaves, status' \in Codes
  PROVE  KV!Next
  BY DEF KV!Next, KV!Keep, KV!Begin, Codes

LEMMA PutsBinding ==
  ASSUME NEW k \in Keys, NEW v \in Values, DOMAIN leaves' = DOMAIN leaves \cup {k},
         leaves'[k] = v, \A l \in DOMAIN leaves : l # k => leaves'[l] = leaves[l],
         status' = "CDSA_OK"
  PROVE  KV!Next
<1>1. Bindings' = [Bindings EXCEPT ![k] = v]
  BY DEF Bindings
<1> QED
  BY <1>1 DEF KV!Next, KV!Put, KV!Begin, Bindings

LEMMA DeletesBinding ==
  ASSUME NEW k \in Keys, k \in DOMAIN leaves, leaves[k] \in Values,
         DOMAIN leaves' = DOMAIN leaves \ {k},
         \A l \in DOMAIN leaves \ {k} : leaves'[l] = leaves[l], status' = "CDSA_OK"
  PROVE  KV!Next
<1>1. Bindings' = [Bindings EXCEPT ![k] = NoValue]
  BY DEF Bindings
<1>2. Bindings[k] # NoValue
  BY ArtAssumption DEF Bindings
<1> QED
  BY <1>1, <1>2 DEF KV!Next, KV!Delete, KV!Begin, Bindings

LEMMA InsertSimulates ==
  ASSUME Sound, NEW k \in Keys, InsertCall(k)
  PROVE  KV!Next \/ UNCHANGED <<leaves, status>>
<1>1. CASE InsertOOM(Descend(k)) \/ GrowInVain(Descend(k))
  BY <1>1, KeepsBindings DEF InsertOOM, GrowInVain, treeVars, Codes
<1>2. CASE \E why \in {"free of a block", "no leaf"} : Breaks(why)
  BY <1>2 DEF Breaks, treeVars
<1>3. CASE \E v \in Values : Overwrite(k, v, Descend(k)) /\ k \in DOMAIN leaves
  <2>1. PICK v \in Values : Overwrite(k, v, Descend(k)) /\ k \in DOMAIN leaves
    BY <1>3
  <2>2. leaves' = [leaves EXCEPT ![k] = v] /\ status' = "CDSA_OK"
    BY <2>1 DEF Overwrite
  <2>3. /\ DOMAIN leaves' = DOMAIN leaves \cup {k} /\ leaves'[k] = v
        /\ \A l \in DOMAIN leaves : l # k => leaves'[l] = leaves[l]
    BY <2>1, <2>2
  <2> QED
    BY <2>2, <2>3, PutsBinding
<1>4. CASE \E v \in Values : NewLeaf(k, v) /\ k \notin DOMAIN leaves
  <2>1. PICK v \in Values : NewLeaf(k, v)
    BY <1>4
  <2>2. status' = "CDSA_OK"
    BY <2>1 DEF NewLeaf
  <2> QED
    BY <2>1, <2>2, NewLeafFacts, PutsBinding
<1> QED
  BY <1>1, <1>2, <1>3, <1>4, InsertCases

LEMMA DeleteSimulates ==
  ASSUME Sound, NEW k \in Keys, DeleteCall(k)
  PROVE  KV!Next \/ UNCHANGED <<leaves, status>>
<1>1. CASE DeleteAbsent \/ \E x, p : DeletePast(x, p)
  BY <1>1, KeepsBindings DEF DeleteAbsent, DeletePast, treeVars, Codes
<1>2. CASE k \in DOMAIN leaves /\ LeafFreed(k)
  <2>1. leaves[k] \in Values /\ status' = "CDSA_OK"
    BY <1>2 DEF Sound, LeavesTyped, LeafFreed
  <2> QED
    BY <1>2, <2>1, LeafFreedFacts, DeletesBinding
<1>3. \/ DeleteAbsent \/ \E x, p : DeletePast(x, p)
      \/ k \in DOMAIN leaves /\ LeafFreed(k)
      \/ UNCHANGED <<leaves, status>>
  <2>1. /\ DeleteRoot(k) => LeafFreed(k)
        /\ \A p : ShrinkOverruns(k, p) => UNCHANGED <<leaves, status>>
    BY DEF DeleteRoot, ShrinkOverruns, Breaks, treeVars
  <2>2. \A p, up : DeleteChild(k, p) \/ Shrink(k, p, up) \/ Collapse(k, p, up) => LeafFreed(k)
    BY DEF DeleteChild, Shrink, Collapse
  <2> QED
    BY <2>1, <2>2, DeleteCases
<1> QED
  BY <1>1, <1>2, <1>3

LEMMA StepSimulates ==
  ASSUME Sound, [Next]_vars
  PROVE  KV!Next \/ UNCHANGED <<leaves, status>>
<1>1. CASE Create
  BY <1>1, KeepsBindings DEF Create, treeVars, Codes
<1>2. CASE CreateOOM \/ UNCHANGED vars
  BY <1>2 DEF CreateOOM, vars, treeVars
<1>3. CASE Free
  <2>1. status' = "CDSA_OK" /\ DOMAIN leaves' = {}
    BY <1>3, FreeFacts DEF Free
  <2>2. Bindings' = [k \in Keys |-> NoValue]
    BY <2>1 DEF Bindings
  <2> QED
    BY <2>1, <2>2 DEF KV!Next, KV!Clear, KV!Begin, Bindings
<1>4. CASE IterCall
  <2>1. leaves' = leaves /\ status' \in Codes
    BY <1>4 DEF IterCall, NewIter, IterNext, IterFails, FreeIter, IterStep, treeVars, Codes
  <2> QED
    BY <2>1, KeepsBindings
<1>5. CASE \E k \in Keys : InsertCall(k) \/ DeleteCall(k)
  BY <1>5, InsertSimulates, DeleteSimulates
<1> QED
  BY <1>1, <1>2, <1>3, <1>4, <1>5 DEF Next

-----------------------------------------------------------------------------
(* Everything is below the root                                            *)
BelowLaw(f) ==
  f = [q \in Pointers |->
         {q} \cup IF IsLeaf(q) THEN {}
                  ELSE UNION {f[nodes[q].edges[i][2]] : i \in DOMAIN nodes[q].edges}]

LEMMA BelowIs ==
  ASSUME NEW p
  PROVE  Below(p) = (CHOOSE f : BelowLaw(f))[p]
  BY DEF Below, BelowLaw

LEMMA BelowRecursion ==
  ASSUME NEW word, Tree(nodes, leaves, root, word)
  PROVE  \E f : BelowLaw(f)
<1> DEFINE below == [q \in Pointers |-> {x \in Pointers : q \in Up(nodes, leaves, x)}]
<1>1. Pointers = Ptrs(nodes, leaves) /\ Shape(nodes, leaves)
  BY PointersAre DEF Tree
<1>2. \A q \in Pointers : ~IsLeaf(q) <=> q \in DOMAIN nodes
  BY <1>1, ShapeFacts
<1>3. ASSUME NEW q \in Pointers
      PROVE  below[q] = {q} \cup IF IsLeaf(q) THEN {}
                  ELSE UNION {below[nodes[q].edges[i][2]] : i \in DOMAIN nodes[q].edges}
  <2>1. ASSUME NEW x \in Pointers, q \in Up(nodes, leaves, x)
        PROVE  \/ x = q
               \/ /\ ~IsLeaf(q)
                  /\ \E i \in DOMAIN nodes[q].edges : x \in below[nodes[q].edges[i][2]]
    <3>1. CASE x # q
      <4>1. q \in DOMAIN nodes
        BY <1>1, <2>1, <3>1, UpChild
      <4>2. PICK e \in Edges(nodes, q) : e[2] \in Up(nodes, leaves, x)
        BY <1>1, <2>1, <3>1, UpChild
      <4>3. PICK i \in DOMAIN nodes[q].edges : nodes[q].edges[i] = e
        BY <1>1, <4>1, EdgeFacts
      <4>4. e[2] \in Pointers
        BY <1>1, <4>1, EdgeFacts
      <4>5. x \in below[e[2]]
        BY <4>2, <4>4
      <4> QED
        BY <1>2, <4>1, <4>3, <4>5
    <3> QED
      BY <3>1
  <2>2. q \in below[q]
    BY <1>1, UpClosed
  <2>3. ASSUME ~IsLeaf(q), NEW i \in DOMAIN nodes[q].edges,
               NEW x \in below[nodes[q].edges[i][2]]
        PROVE  x \in below[q]
    <3>1. q \in DOMAIN nodes
      BY <1>2, <2>3
    <3>2. nodes[q].edges[i] \in Edges(nodes, q) /\ nodes[q].edges[i][2] \in Pointers
      BY <1>1, <3>1, EdgeFacts
    <3>3. x \in Pointers /\ nodes[q].edges[i][2] \in Up(nodes, leaves, x)
      BY <2>3, <3>2
    <3>4. q \in Up(nodes, leaves, x)
      BY <1>1, <3>1, <3>2, <3>3, UpClosed DEF Climbs
    <3> QED
      BY <3>3, <3>4
  <2>4. below[q] = {x \in Pointers : q \in Up(nodes, leaves, x)}
    OBVIOUS
  <2> HIDE DEF below
  <2>5. \A x \in below[q] : x = q \/ (~IsLeaf(q) /\ \E i \in DOMAIN nodes[q].edges :
                                                      x \in below[nodes[q].edges[i][2]])
    BY <2>1, <2>4
  <2> QED
    BY <2>2, <2>3, <2>5
<1>4. DOMAIN below = Pointers /\ below = [q \in Pointers |-> below[q]]
  OBVIOUS
<1> HIDE DEF below
<1>5. [q \in Pointers |-> below[q]] =
      [q \in Pointers |->
         {q} \cup IF IsLeaf(q) THEN {}
                  ELSE UNION {below[nodes[q].edges[i][2]] : i \in DOMAIN nodes[q].edges}]
  BY <1>3
<1>6. BelowLaw(below)
  BY <1>4, <1>5 DEF BelowLaw
<1> QED
  BY <1>6

LEMMA BelowRoot ==
  ASSUME NEW word, Tree(nodes, leaves, root, word), root # NULL
  PROVE  Below(root) = Pointers
<1> DEFINE f == CHOOSE g : BelowLaw(g)
<1>1. BelowLaw(f)
  BY BelowRecursion
<1>2. Below(root) = f[root]
  BY BelowIs
<1> HIDE DEF f
<1>3. Pointers = Ptrs(nodes, leaves) /\ Shape(nodes, leaves) /\ root \in Pointers
  BY PointersAre DEF Tree, OnePointer
<1>4. \A q \in Pointers : ~IsLeaf(q) <=> q \in DOMAIN nodes
  BY <1>3, ShapeFacts
<1>5. \A q \in Pointers :
        f[q] = {q} \cup IF IsLeaf(q) THEN {}
                        ELSE UNION {f[nodes[q].edges[i][2]] : i \in DOMAIN nodes[q].edges}
  BY <1>1 DEF BelowLaw
<1>6. ASSUME NEW x \in Pointers
      PROVE  x \in f[root]
  <2> DEFINE S == {q \in Pointers : x \in f[q]}
  <2>1. x \in S
    BY <1>5
  <2>2. ASSUME NEW p \in DOMAIN nodes, NEW e \in Edges(nodes, p), e[2] \in S
        PROVE  p \in S
    <3>1. PICK i \in DOMAIN nodes[p].edges : nodes[p].edges[i] = e
      BY <1>3, EdgeFacts
    <3>2. p \in Pointers /\ ~IsLeaf(p)
      BY <1>3, <1>4 DEF Ptrs
    <3>3. f[nodes[p].edges[i][2]] \subseteq f[p]
      BY <1>5, <3>2
    <3> QED
      BY <2>2, <3>1, <3>2, <3>3
  <2>3. Climbs(nodes, S)
    BY <2>2 DEF Climbs
  <2>4. S \in SUBSET Ptrs(nodes, leaves)
    BY <1>3
  <2> HIDE DEF S
  <2>5. Up(nodes, leaves, x) \subseteq S
    BY <2>1, <2>3, <2>4, UpLeast
  <2>6. root \in Up(nodes, leaves, x)
    BY <1>3, UpRoot
  <2> QED
    BY <2>5, <2>6 DEF S
<1>7. f[root] \subseteq Pointers
  <2> DEFINE B == {q \in Pointers : ~(f[q] \subseteq Pointers)}
             num == [p \in DOMAIN nodes |-> Len(word[p])]
  <2>1. SUFFICES ASSUME B # {} PROVE FALSE
    BY <1>3
  <2>2. ASSUME NEW q \in B
        PROVE  /\ q \in DOMAIN nodes
               /\ \E e \in Edges(nodes, q) : e[2] \in B
    <3>1. q \in DOMAIN nodes /\ ~IsLeaf(q)
      BY <1>4, <1>5
    <3>2. PICK i \in DOMAIN nodes[q].edges : ~(f[nodes[q].edges[i][2]] \subseteq Pointers)
      BY <1>5, <3>1
    <3>3. nodes[q].edges[i] \in Edges(nodes, q) /\ nodes[q].edges[i][2] \in Pointers
      BY <1>3, <3>1, EdgeFacts
    <3> QED
      BY <3>1, <3>2, <3>3
  <2>3. PICK top \in Nat : \A p \in DOMAIN nodes : Len(word[p]) <= top
    BY WordBound
  <2>4. \A p \in DOMAIN nodes : num[p] \in Nat /\ num[p] <= top /\ num[p] = Len(word[p])
    BY <2>3, TreeFacts
  <2> HIDE DEF B, num
  <2>5. \A m \in B : num[m] \in Nat /\ num[m] <= top
    BY <2>2, <2>4
  <2>6. PICK m \in B : \A k \in B : num[k] <= num[m]
    BY <2>1, <2>5, LargestOf
  <2>7. PICK e \in Edges(nodes, m) : e[2] \in B
    BY <2>2, <2>6
  <2>8. m \in DOMAIN nodes /\ e[2] \in DOMAIN nodes
    BY <2>2, <2>6, <2>7
  <2>9. Len(word[m]) < Len(word[e[2]])
    BY <2>7, <2>8, TreeFacts
  <2>10. num[e[2]] <= num[m]
    BY <2>6, <2>7
  <2> QED
    BY <2>4, <2>8, <2>9, <2>10
<1> QED
  BY <1>2, <1>6, <1>7

LEMMA PointersOnce ==
  ASSUME NEW word, Tree(nodes, leaves, root, word), NEW p \in DOMAIN nodes,
         NEW i \in DOMAIN nodes[p].edges
  PROVE  /\ nodes[p].edges[i][2] # root
         /\ \A q \in DOMAIN nodes : \A j \in DOMAIN nodes[q].edges :
              nodes[p].edges[i][2] = nodes[q].edges[j][2] => p = q /\ i = j
<1>1. Shape(nodes, leaves) /\ OnePointer(nodes, leaves, root) /\ Distinct(nodes[p].edges)
  BY DEF Tree
<1>2. nodes[p].edges[i] \in Edges(nodes, p)
  BY <1>1, EdgeFacts
<1>3. ASSUME NEW q \in DOMAIN nodes, NEW j \in DOMAIN nodes[q].edges,
             nodes[p].edges[i][2] = nodes[q].edges[j][2]
      PROVE  p = q /\ i = j
  <2>1. nodes[q].edges[j] \in Edges(nodes, q)
    BY <1>1, EdgeFacts
  <2>2. p = q /\ nodes[p].edges[i] = nodes[q].edges[j]
    BY <1>1, <1>2, <1>3, <2>1 DEF OnePointer
  <2> QED
    BY <1>1, <2>2 DEF Distinct
<1> QED
  BY <1>1, <1>2, <1>3 DEF OnePointer

-----------------------------------------------------------------------------
(* No pool of inner nodes is exhausted before the pool of leaves: a node   *)
(* with two children has a leaf that no other node has, and the root's     *)
(* first leaf is none of them.                                             *)
LEMMA NodesCount ==
  ASSUME NEW word, Tree(nodes, leaves, root, word)
  PROVE  \E top \in Nat : \E num : \A p \in DOMAIN nodes :
           num[p] = Len(word[p]) /\ num[p] \in Nat /\ num[p] <= top
<1> DEFINE num == [p \in DOMAIN nodes |-> Len(word[p])]
<1>1. PICK top \in Nat : \A p \in DOMAIN nodes : Len(word[p]) <= top
  BY WordBound
<1>2. \A p \in DOMAIN nodes : num[p] = Len(word[p]) /\ num[p] \in Nat /\ num[p] <= top
  BY <1>1, TreeFacts
<1> HIDE DEF num
<1> QED
  BY <1>2

(* A set of nodes of which each has a deeper one in it has no members.     *)
LEMMA NoDeepening ==
  ASSUME NEW word, Tree(nodes, leaves, root, word), NEW B, B \subseteq DOMAIN nodes,
         \A q \in B : \E e \in Edges(nodes, q) : e[2] \in B
  PROVE  B = {}
<1>1. SUFFICES ASSUME B # {} PROVE FALSE
  OBVIOUS
<1>2. PICK top \in Nat : \E num : \A p \in DOMAIN nodes :
           num[p] = Len(word[p]) /\ num[p] \in Nat /\ num[p] <= top
  BY NodesCount
<1>3. PICK num : \A p \in DOMAIN nodes :
           num[p] = Len(word[p]) /\ num[p] \in Nat /\ num[p] <= top
  BY <1>2
<1>4. PICK m \in B : \A k \in B : num[k] <= num[m]
  BY <1>1, <1>3, LargestOf
<1>5. PICK e \in Edges(nodes, m) : e[2] \in B
  BY <1>4
<1>6. Len(word[m]) < Len(word[e[2]])
  BY <1>4, <1>5, TreeFacts
<1>7. num[e[2]] <= num[m] /\ m \in DOMAIN nodes /\ e[2] \in DOMAIN nodes
  BY <1>4, <1>5
<1> QED
  BY <1>3, <1>6, <1>7

(* A walk to a first leaf fails only at a node without children.           *)
LEMMA FirstExists ==
  ASSUME NEW word, Tree(nodes, leaves, root, word),
         \A p \in DOMAIN nodes : nodes[p].edges # <<>>, NEW q \in Pointers
  PROVE  find_minimum_leaf(q) # NULL
<1> DEFINE B == {p \in Pointers : find_minimum_leaf(p) = NULL}
<1>1. Pointers = Ptrs(nodes, leaves) /\ Shape(nodes, leaves)
  BY PointersAre DEF Tree
<1>2. ASSUME NEW p \in B
      PROVE  p \in DOMAIN nodes /\ \E e \in Edges(nodes, p) : e[2] \in B
  <2>1. ~IsLeaf(p)
    BY <1>1, <1>2, FirstRecursion, ShapeFacts
  <2>2. p \in DOMAIN nodes
    BY <1>1, <2>1, ShapeFacts
  <2>3. find_minimum_leaf(nodes[p].edges[1][2]) = NULL
    BY <1>1, <1>2, <2>1, <2>2, FirstRecursion
  <2>4. 1 \in DOMAIN nodes[p].edges
    <3>1. nodes[p].edges \in Seq(Bytes \X Ptrs(nodes, leaves)) /\ nodes[p].edges # <<>>
      BY <1>1, <2>2 DEF Shape, Nodes
    <3> QED
      BY <3>1
  <2>5. nodes[p].edges[1] \in Edges(nodes, p) /\ nodes[p].edges[1][2] \in Pointers
    BY <1>1, <2>2, <2>4, EdgeFacts
  <2> QED
    BY <2>2, <2>3, <2>5
<1>3. B \subseteq DOMAIN nodes /\ \A p \in B : \E e \in Edges(nodes, p) : e[2] \in B
  BY <1>2
<1> HIDE DEF B
<1>4. B = {}
  BY <1>3, NoDeepening
<1> QED
  BY <1>4 DEF B

(* The first leaf below c is that of every node on the way.                *)
LEMMA FirstChain ==
  ASSUME NEW word, Tree(nodes, leaves, root, word), NEW c \in Pointers,
         find_minimum_leaf(c) # NULL, NEW q \in Pointers,
         c \in Up(nodes, leaves, q), q \in Up(nodes, leaves, find_minimum_leaf(c))
  PROVE  find_minimum_leaf(q) = find_minimum_leaf(c)
<1> DEFINE x == find_minimum_leaf(c)
           B == {d \in Up(nodes, leaves, q) : find_minimum_leaf(d) = x}
<1>1. Pointers = Ptrs(nodes, leaves) /\ Shape(nodes, leaves)
  BY PointersAre DEF Tree
<1>2. SUFFICES ASSUME find_minimum_leaf(q) # x PROVE FALSE
  OBVIOUS
<1>3. x \in Ptrs(nodes, leaves) /\ Up(nodes, leaves, q) \subseteq Up(nodes, leaves, x)
      /\ x # NULL
  BY <1>1, FirstFacts, UpTrans DEF Ptrs
<1> HIDE DEF x
<1>4. ASSUME NEW d \in B
      PROVE  d \in DOMAIN nodes /\ \E e \in Edges(nodes, d) : e[2] \in B
  <2>1. d # q /\ d \in Up(nodes, leaves, q) /\ find_minimum_leaf(d) = x
    BY <1>2, <1>4
  <2>2. d \in DOMAIN nodes
    BY <1>1, <2>1, UpChild
  <2>3. PICK e \in Edges(nodes, d) : e[2] \in Up(nodes, leaves, q)
    BY <1>1, <2>1, UpChild
  <2>4. ~IsLeaf(d) /\ d \in Pointers
    BY <1>1, <2>2, ShapeFacts DEF Ptrs
  <2>5. nodes[d].edges # <<>> /\ find_minimum_leaf(nodes[d].edges[1][2]) = x
    BY <1>1, <1>3, <2>1, <2>4, FirstRecursion
  <2>6. 1 \in DOMAIN nodes[d].edges
    <3>1. nodes[d].edges \in Seq(Bytes \X Ptrs(nodes, leaves))
      BY <1>1, <2>2 DEF Shape, Nodes
    <3> QED
      BY <2>5, <3>1
  <2> DEFINE f == nodes[d].edges[1]
  <2>7. f \in Edges(nodes, d) /\ f[2] \in Pointers
    BY <1>1, <2>2, <2>6, EdgeFacts
  <2>8. f[2] \in Up(nodes, leaves, x)
    BY <1>3, <2>5, <2>7, FirstFacts
  <2>9. find_minimum_leaf(f[2]) = x
    BY <2>5
  <2> HIDE DEF f
  <2>10. e = f
    BY <1>3, <2>2, <2>3, <2>7, <2>8, UpOneEdge
  <2> QED
    BY <2>2, <2>3, <2>9, <2>10
<1>5. B \subseteq DOMAIN nodes /\ \A d \in B : \E e \in Edges(nodes, d) : e[2] \in B
  BY <1>4
<1>6. c \in B
  BY DEF x
<1> HIDE DEF B
<1> QED
  BY <1>5, <1>6, NoDeepening
(* A node's first leaf is not below its other children.                    *)
LEMMA NotFirst ==
  ASSUME NEW word, Tree(nodes, leaves, root, word), NEW q \in DOMAIN nodes,
         NEW i \in DOMAIN nodes[q].edges, i # 1,
         find_minimum_leaf(nodes[q].edges[i][2]) # NULL
  PROVE  find_minimum_leaf(q) # find_minimum_leaf(nodes[q].edges[i][2])
<1> DEFINE e == nodes[q].edges[i]
           f == nodes[q].edges[1]
           x == find_minimum_leaf(e[2])
<1>1. /\ Pointers = Ptrs(nodes, leaves) /\ Shape(nodes, leaves)
      /\ Distinct(nodes[q].edges)
  BY PointersAre DEF Tree
<1>2. nodes[q].edges \in Seq(Bytes \X Ptrs(nodes, leaves))
  BY <1>1 DEF Shape, Nodes
<1>3. 1 \in DOMAIN nodes[q].edges /\ nodes[q].edges # <<>>
  BY <1>2
<1>4. /\ e \in Edges(nodes, q) /\ e[2] \in Pointers
      /\ f \in Edges(nodes, q) /\ f[2] \in Pointers
  BY <1>1, <1>3, EdgeFacts
<1>5. ~IsLeaf(q) /\ q \in Pointers
  BY <1>1, ShapeFacts DEF Ptrs
<1>6. find_minimum_leaf(q) = find_minimum_leaf(f[2])
  BY <1>1, <1>3, <1>5, FirstRecursion
<1>7. x # NULL
  OBVIOUS
<1>8. e # f
  BY <1>1, <1>3 DEF Distinct
<1> HIDE DEF f, e
<1>9. x \in Ptrs(nodes, leaves) /\ e[2] \in Up(nodes, leaves, x)
  BY <1>4, <1>7, FirstFacts DEF Ptrs
<1>10. SUFFICES ASSUME find_minimum_leaf(f[2]) = x PROVE FALSE
  BY <1>6 DEF e
<1>11. f[2] \in Up(nodes, leaves, x)
  BY <1>4, <1>7, <1>10, FirstFacts
<1> HIDE DEF x
<1> QED
  BY <1>4, <1>8, <1>9, <1>11, UpOneEdge

(* The first leaf below a node's second child.                             *)
Second(q) == nodes[q].edges[2][2]
Marked(q) == find_minimum_leaf(Second(q))

LEMMA SecondFacts ==
  ASSUME NEW word, Tree(nodes, leaves, root, word), NEW q \in DOMAIN nodes,
         \A p \in DOMAIN nodes : 2 \in DOMAIN nodes[p].edges
  PROVE  /\ Second(q) \in Pointers
         /\ \E e \in Edges(nodes, q) : e[2] = Second(q)
         /\ Marked(q) # NULL /\ Marked(q) \in LeavesOf(leaves)
         /\ Second(q) \in Up(nodes, leaves, Marked(q))
         /\ q \in Up(nodes, leaves, Marked(q))
         /\ find_minimum_leaf(q) # Marked(q)
<1>1. Pointers = Ptrs(nodes, leaves) /\ Shape(nodes, leaves)
  BY PointersAre DEF Tree
<1>2. nodes[q].edges[2] \in Edges(nodes, q) /\ Second(q) \in Pointers
  BY <1>1, EdgeFacts DEF Second
<1>3. \A p \in DOMAIN nodes : nodes[p].edges # <<>>
  <2> TAKE p \in DOMAIN nodes
  <2>1. 2 \in DOMAIN nodes[p].edges
    OBVIOUS
  <2> QED
    BY <2>1
<1>4. Marked(q) # NULL
  BY <1>2, <1>3, FirstExists DEF Marked
<1>5. Marked(q) \in LeavesOf(leaves) /\ Second(q) \in Up(nodes, leaves, Marked(q))
  BY <1>2, <1>4, FirstFacts DEF Marked
<1>6. Marked(q) \in Ptrs(nodes, leaves)
  BY <1>5 DEF Ptrs
<1>7. q \in Up(nodes, leaves, Marked(q))
  BY <1>2, <1>5, <1>6, UpClosed DEF Climbs, Second
<1>8. find_minimum_leaf(q) # Marked(q)
  BY <1>4, NotFirst DEF Marked, Second
<1> QED
  BY <1>2, <1>4, <1>5, <1>7, <1>8 DEF Second

LEMMA MarkedApart ==
  ASSUME NEW word, Tree(nodes, leaves, root, word),
         \A p \in DOMAIN nodes : 2 \in DOMAIN nodes[p].edges,
         NEW q \in DOMAIN nodes, NEW r \in DOMAIN nodes, Marked(q) = Marked(r)
  PROVE  q = r
<1>1. /\ Pointers = Ptrs(nodes, leaves) /\ Shape(nodes, leaves)
      /\ OnePointer(nodes, leaves, root)
  BY PointersAre DEF Tree
<1>2. ASSUME NEW a \in DOMAIN nodes, NEW b \in DOMAIN nodes, Marked(a) = Marked(b),
             Second(a) \in Up(nodes, leaves, Second(b)), Second(a) # Second(b)
      PROVE  FALSE
  <2>1. PICK e \in Edges(nodes, b) : e[2] = Second(b)
    BY <1>2, SecondFacts
  <2>2. Second(b) \in Ptrs(nodes, leaves) /\ Second(a) \in Pointers
    BY <1>1, <1>2, SecondFacts
  <2>3. Second(a) \in Up(nodes, leaves, b)
    BY <1>1, <1>2, <2>1, <2>2, UpAbove
  <2>4. /\ b \in Up(nodes, leaves, Marked(a)) /\ b \in Pointers
        /\ find_minimum_leaf(b) # Marked(a) /\ Marked(a) # NULL
    BY <1>1, <1>2, SecondFacts DEF Ptrs
  <2>5. find_minimum_leaf(b) = Marked(a)
    BY <2>2, <2>3, <2>4, FirstChain DEF Marked
  <2> QED
    BY <2>4, <2>5
<1>3. /\ Second(q) \in Up(nodes, leaves, Marked(q))
      /\ Second(r) \in Up(nodes, leaves, Marked(q))
      /\ Marked(q) \in Ptrs(nodes, leaves)
  BY SecondFacts DEF Ptrs
<1>4. \/ Second(q) \in Up(nodes, leaves, Second(r))
      \/ Second(r) \in Up(nodes, leaves, Second(q))
  BY <1>1, <1>3, UpChain
<1>5. Second(q) = Second(r)
  BY <1>2, <1>4
<1>6. /\ \E e \in Edges(nodes, q) : e[2] = Second(q)
      /\ \E e \in Edges(nodes, r) : e[2] = Second(r)
  BY SecondFacts
<1> QED
  BY <1>1, <1>5, <1>6 DEF OnePointer

LEMMA PoolsHold ==
  ASSUME NEW word, Tree(nodes, leaves, root, word),
         \A p \in DOMAIN nodes : 2 \in DOMAIN nodes[p].edges,
         Cardinality(DOMAIN leaves) <= NodesPerTier, NEW t \in Tiers
  PROVE  CanAlloc(t)
<1>1. /\ Pointers = Ptrs(nodes, leaves) /\ Shape(nodes, leaves)
      /\ IsFiniteSet(DOMAIN nodes) /\ IsFiniteSet(DOMAIN leaves)
  BY PointersAre, FiniteNodes DEF Tree, Shape
<1>2. Blocks(t) \subseteq DOMAIN nodes
  BY DEF Blocks
<1>3. NodesPerTier \in Nat \ {0} /\ Cardinality(DOMAIN leaves) \in Nat
  BY <1>1, Constants, FS_CardinalityType
<1>4. CASE DOMAIN nodes = {}
  <2>1. Blocks(t) = {}
    BY <1>2, <1>4
  <2>2. Cardinality({}) = 0
    BY FS_EmptySet
  <2> QED
    BY <1>3, <2>1, <2>2 DEF CanAlloc
<1>5. CASE DOMAIN nodes # {}
  <2>1. root # NULL /\ root \in Pointers
    <3>1. root = NULL => DOMAIN nodes = {}
      BY NoPointers
    <3> QED
      BY <1>1, <1>5, <3>1 DEF Tree, OnePointer
  <2>2. \A p \in DOMAIN nodes : nodes[p].edges # <<>>
    <3> TAKE p \in DOMAIN nodes
    <3>1. 2 \in DOMAIN nodes[p].edges
      OBVIOUS
    <3> QED
      BY <3>1
  <2>3. find_minimum_leaf(root) # NULL
    BY <2>1, <2>2, FirstExists
  <2>4. find_minimum_leaf(root) \in LeavesOf(leaves)
    BY <2>1, <2>3, FirstFacts
  <2> DEFINE T == LeavesOf(leaves) \ {find_minimum_leaf(root)}
             f == [q \in DOMAIN nodes |-> Marked(q)]
  <2>5. ASSUME NEW q \in DOMAIN nodes
        PROVE  Marked(q) \in T
    <3>1. /\ Marked(q) \in LeavesOf(leaves) /\ q \in Up(nodes, leaves, Marked(q))
          /\ find_minimum_leaf(q) # Marked(q)
      BY SecondFacts
    <3>2. q \in Pointers /\ q \in Ptrs(nodes, leaves)
      BY <1>1 DEF Ptrs
    <3>3. root \in Up(nodes, leaves, q)
      BY <3>2, UpRoot
    <3>4. find_minimum_leaf(root) = Marked(q) => find_minimum_leaf(q) = Marked(q)
      BY <2>1, <2>3, <3>1, <3>2, <3>3, FirstChain
    <3> QED
      BY <3>1, <3>4
  <2>6. f \in Injection(DOMAIN nodes, T)
    <3>1. f \in [DOMAIN nodes -> T]
      BY <2>5
    <3>2. \A q, r \in DOMAIN nodes : f[q] = f[r] => q = r
      BY MarkedApart
    <3> HIDE DEF f, T
    <3> QED
      BY <3>1, <3>2 DEF Injection, IsInjective
  <2>7. IsFiniteSet(LeavesOf(leaves)) /\ Cardinality(LeavesOf(leaves)) <= Cardinality(DOMAIN leaves)
    <3> DEFINE g == [x \in LeavesOf(leaves) |-> x[2]]
    <3>1. \A x \in LeavesOf(leaves) : x[2] \in DOMAIN leaves /\ x = Leaf(x[2])
      BY <1>1, ShapeFacts
    <3>2. g \in [LeavesOf(leaves) -> DOMAIN leaves]
      BY <3>1
    <3>3. \A x, y \in LeavesOf(leaves) : g[x] = g[y] => x = y
      BY <3>1
    <3> HIDE DEF g
    <3>4. g \in Injection(LeavesOf(leaves), DOMAIN leaves)
      BY <3>2, <3>3 DEF Injection, IsInjective
    <3> QED
      BY <1>1, <3>4, FS_Injection
  <2>8. /\ IsFiniteSet(T) /\ Cardinality(T) = Cardinality(LeavesOf(leaves)) - 1
        /\ Cardinality(LeavesOf(leaves)) \in Nat
    BY <2>4, <2>7, FS_RemoveElement, FS_CardinalityType
  <2> HIDE DEF f, T
  <2>9. Cardinality(DOMAIN nodes) <= Cardinality(T)
    BY <2>6, <2>8, FS_Injection
  <2>10. Cardinality(Blocks(t)) <= Cardinality(DOMAIN nodes)
    BY <1>1, <1>2, FS_Subset
  <2>11. /\ Cardinality(Blocks(t)) \in Nat /\ Cardinality(DOMAIN nodes) \in Nat
         /\ Cardinality(T) \in Nat
    BY <1>1, <1>2, <2>8, FS_CardinalityType, FS_Subset
  <2> QED
    BY <1>3, <2>7, <2>8, <2>9, <2>10, <2>11 DEF CanAlloc
<1> QED
  BY <1>4, <1>5
-----------------------------------------------------------------------------
(* The sizes and the counts of the nodes: n edges and a count c, in a node *)
(* of tier t, after what the history and the breakage say.                 *)
LenFits(n, t, c, ms, wr, br) ==
  /\ n <= Fanout[t] /\ (t = 1 => n >= 2)
  /\ t <= 2 /\ br # "hole" => c = n
  /\ t <= 3 => n <= c /\ c <= Fanout[t]
  /\ wr = FALSE => n <= c
  /\ t > 1 /\ ms = FALSE /\ wr = FALSE => c > Fanout[t - 1]
  /\ t = 3 /\ ms = FALSE /\ wr = FALSE => c = n
Fit(es, t, c, ms, wr, br) == LenFits(Len(es), t, c, ms, wr, br) /\ (t >= 3 => Sorted(es))
FitNow ==
  \A p \in DOMAIN nodes :
    Fit(nodes[p].edges, Tier(p), num_children[p], missed, wrapped, broken)
Counts == 0 .. CountModulus - 1
CountsTyped == num_children \in [DOMAIN nodes -> Counts]
(* What a step may do to the history, and to a program that is sound.      *)
Worse ==
  /\ missed' = FALSE => missed = FALSE
  /\ wrapped' = FALSE => wrapped = FALSE
  /\ broken = "no"
SameBytes(es, fs) ==
  /\ DOMAIN es = DOMAIN fs /\ Len(es) = Len(fs)
  /\ \A i \in DOMAIN fs : es[i][1] = fs[i][1]

LEMMA FanoutFacts ==
  /\ \A t \in 1 .. 4 : Fanout[t] \in Nat /\ Fanout[t] >= 2 /\ Fanout[t] < CountModulus
  /\ \A t \in 2 .. 4 : Fanout[t - 1] < Fanout[t]
  /\ CountModulus \in Nat
<1>1. Fanout \in Seq(Nat) /\ Len(Fanout) = 4 /\ Fanout[1] >= 2
      /\ \A t \in 2 .. 4 : Fanout[t - 1] < Fanout[t]
  BY ArtAssumption
<1>2. \A t \in 1 .. 4 : Fanout[t] \in Nat
  BY <1>1, ElementOfSeq
<1>3. Fanout[1] < Fanout[2] /\ Fanout[2] < Fanout[3] /\ Fanout[3] < Fanout[4]
  BY <1>1
<1>4. Fanout[2] >= 2 /\ Fanout[3] >= 2 /\ Fanout[4] >= 2
  BY <1>1, <1>2, <1>3
<1>5. CountModulus \in Nat /\ CountModulus > Fanout[4]
  BY ArtAssumption
<1>6. /\ Fanout[1] < CountModulus /\ Fanout[2] < CountModulus
      /\ Fanout[3] < CountModulus /\ Fanout[4] < CountModulus
  BY <1>2, <1>3, <1>5
<1> QED
  BY <1>1, <1>2, <1>4, <1>5, <1>6

LEMMA SameBytesFit ==
  ASSUME NEW es, NEW fs, SameBytes(es, fs), NEW t, NEW c, NEW ms, NEW wr, NEW br,
         Fit(fs, t, c, ms, wr, br)
  PROVE  Fit(es, t, c, ms, wr, br)
<1>1. LenFits(Len(es), t, c, ms, wr, br)
  BY DEF SameBytes, Fit
<1>2. Sorted(fs) => Sorted(es)
  BY DEF SameBytes, Sorted
<1> QED
  BY <1>1, <1>2 DEF Fit

(* Less is promised after worse has happened.                              *)
LEMMA WorseFits ==
  ASSUME Worse, NEW es, NEW t, NEW c, Fit(es, t, c, missed, wrapped, broken)
  PROVE  Fit(es, t, c, missed', wrapped', broken')
  BY DEF Worse, Fit, LenFits

LEMMA SameBytesSelf == ASSUME NEW es PROVE SameBytes(es, es)
  BY DEF SameBytes

LEMMA RepointedBytes ==
  ASSUME NEW word, Tree(nodes, leaves, root, word), NEW up, NEW p, Above(up, p), NEW new
  PROVE  \A n \in DOMAIN nodes : SameBytes(Repointed(up, p, new)[n].edges, nodes[n].edges)
<1>1. \A n \in DOMAIN nodes : Repointed(up, p, new)[n] = Redirect(nodes[n], p, new)
  BY RepointedFacts
<1>2. ASSUME NEW n \in DOMAIN nodes
      PROVE  SameBytes(Redirect(nodes[n], p, new).edges, nodes[n].edges)
  <2> DEFINE es == nodes[n].edges
             fs == [i \in DOMAIN es |-> IF es[i][2] = p THEN <<es[i][1], new>> ELSE es[i]]
  <2>1. nodes[n] \in Nodes(Ptrs(nodes, leaves))
    BY DEF Tree, Shape
  <2>2. Redirect(nodes[n], p, new).edges = fs
    BY <2>1 DEF Redirect, Nodes
  <2>3. es \in Seq(Bytes \X Ptrs(nodes, leaves))
    BY <2>1 DEF Nodes
  <2>4. Len(es) \in Nat /\ DOMAIN es = 1 .. Len(es)
    BY <2>3
  <2> HIDE DEF es
  <2>5. DOMAIN fs = DOMAIN es /\ Len(fs) = Len(es) /\ \A i \in DOMAIN es : fs[i][1] = es[i][1]
    BY <2>4
  <2> HIDE DEF fs
  <2> QED
    BY <2>2, <2>5 DEF SameBytes, es
<1> QED
  BY <1>1, <1>2

(* A node that moves to another kind of block suits it if its edges and    *)
(* its count are as many as it takes.                                      *)
LEMMA MorphFits ==
  ASSUME NEW word, Tree(nodes, leaves, root, word), FitNow, CountsTyped, Worse,
         NEW p \in DOMAIN nodes, NEW up, Above(up, p), NEW t \in 1 .. 4, CanAlloc(t),
         NEW es, NEW c \in Counts, NEW lv2, EdgesFit(nodes, leaves, word, p, es, lv2),
         Morph(p, up, t, es, c), LenFits(Len(es), t, c, missed', wrapped', broken')
  PROVE  FitNow' /\ CountsTyped'
<1> DEFINE q == Alloc(t)
           r == Ordered(t, es)
<1>1. q \in Addresses /\ q \notin DOMAIN nodes /\ Tier(q) = t
  BY AllocFacts DEF Tree
<1>2. es \in Seq(Bytes \X Ptrs(nodes, lv2)) /\ Distinct(es)
  BY DEF EdgesFit
<1>3. Len(r) = Len(es) /\ (t >= 3 => Sorted(r))
  BY <1>2, OrderedFacts
<1>4. /\ DOMAIN nodes' = (DOMAIN nodes \ {p}) \cup {q}
      /\ nodes'[q] = [nodes[p] EXCEPT !.edges = r]
      /\ \A n \in DOMAIN nodes \ {p} : nodes'[n] = Repointed(up, p, q)[n]
      /\ num_children' = [n \in DOMAIN nodes' |-> IF n = q THEN c ELSE num_children[n]]
  BY <1>1 DEF Morph
<1> HIDE DEF q, r
<1>5. nodes'[q].edges = r
  <2>1. nodes[p] \in Nodes(Ptrs(nodes, leaves))
    BY DEF Tree, Shape
  <2> QED
    BY <1>4, <2>1 DEF Nodes
<1>6. \A n \in DOMAIN nodes \ {p} : SameBytes(nodes'[n].edges, nodes[n].edges)
  BY <1>4, RepointedBytes
<1>7. ASSUME NEW n \in DOMAIN nodes'
      PROVE  /\ num_children'[n] \in Counts
             /\ Fit(nodes'[n].edges, Tier(n), num_children'[n], missed', wrapped', broken')
  <2>1. CASE n = q
    <3>1. num_children'[n] = c
      BY <1>4, <2>1
    <3> QED
      BY <1>1, <1>3, <1>5, <2>1, <3>1 DEF Fit
  <2>2. CASE n # q
    <3>1. n \in DOMAIN nodes \ {p} /\ num_children'[n] = num_children[n]
      BY <1>4, <2>2
    <3>2. Fit(nodes[n].edges, Tier(n), num_children[n], missed, wrapped, broken)
      BY <3>1 DEF FitNow
    <3>3. Fit(nodes[n].edges, Tier(n), num_children[n], missed', wrapped', broken')
      BY <3>2, WorseFits
    <3>4. Fit(nodes'[n].edges, Tier(n), num_children[n], missed', wrapped', broken')
      BY <1>6, <3>1, <3>3, SameBytesFit
    <3> QED
      BY <3>1, <3>4 DEF CountsTyped
  <2> QED
    BY <2>1, <2>2
<1>8. FitNow'
  BY <1>7 DEF FitNow
<1>9. CountsTyped'
  BY <1>4, <1>7 DEF CountsTyped, Counts
<1> QED
  BY <1>8, <1>9

(* A node whose edges and count change where it is.                        *)
LEMMA EditFits ==
  ASSUME FitNow, CountsTyped, Worse, Shape(nodes, leaves), NEW p \in DOMAIN nodes, NEW es,
         NEW c \in Counts, nodes' = [nodes EXCEPT ![p].edges = es],
         num_children' = [num_children EXCEPT ![p] = c],
         Fit(es, Tier(p), c, missed', wrapped', broken')
  PROVE  FitNow' /\ CountsTyped'
<1>1. DOMAIN nodes' = DOMAIN nodes /\ \A n \in DOMAIN nodes : n # p => nodes'[n] = nodes[n]
  OBVIOUS
<1>2. nodes'[p].edges = es
  BY DEF Shape, Nodes
<1>3. /\ num_children' \in [DOMAIN nodes -> Counts] /\ num_children'[p] = c
      /\ \A n \in DOMAIN nodes : n # p => num_children'[n] = num_children[n]
  BY DEF CountsTyped
<1>4. ASSUME NEW n \in DOMAIN nodes
      PROVE  Fit(nodes'[n].edges, Tier(n), num_children'[n], missed', wrapped', broken')
  <2>1. CASE n = p
    BY <1>2, <1>3, <2>1
  <2>2. CASE n # p
    <3>1. Fit(nodes[n].edges, Tier(n), num_children[n], missed, wrapped, broken)
      BY DEF FitNow
    <3>2. Fit(nodes[n].edges, Tier(n), num_children[n], missed', wrapped', broken')
      BY <3>1, WorseFits
    <3> QED
      BY <1>1, <1>3, <2>2, <3>2
  <2> QED
    BY <2>1, <2>2
<1>5. FitNow'
  BY <1>1, <1>4 DEF FitNow
<1> QED
  BY <1>1, <1>3, <1>5 DEF CountsTyped, Counts

LEMMA SameFits ==
  ASSUME FitNow, CountsTyped, Worse, nodes' = nodes, num_children' = num_children
  PROVE  FitNow' /\ CountsTyped'
<1>1. ASSUME NEW n \in DOMAIN nodes
      PROVE  Fit(nodes[n].edges, Tier(n), num_children[n], missed', wrapped', broken')
  <2>1. Fit(nodes[n].edges, Tier(n), num_children[n], missed, wrapped, broken)
    BY DEF FitNow
  <2> QED
    BY <2>1, WorseFits
<1>2. FitNow'
  BY <1>1 DEF FitNow
<1> QED
  BY <1>2 DEF CountsTyped, Counts

LEMMA ForkFits ==
  ASSUME IsTree, FitNow, CountsTyped, broken = "no", NEW k \in Keys, NEW v,
         Fork(k, v, Descend(k))
  PROVE  FitNow' /\ CountsTyped'
<1>1. PICK word : Tree(nodes, leaves, root, word)
  BY DEF IsTree
<1> DEFINE at == Descend(k)
           x == at.node
           q == Alloc(1)
<1>2. at.why = "fork" /\ CanAlloc(1) /\ k \in Words
  BY Constants DEF Fork
<1>3. Above(at.up, x)
  BY <1>1, <1>2, DescendFork
<1>4. q \in Addresses /\ q \notin DOMAIN nodes /\ Tier(q) = 1
  BY <1>1, <1>2, AllocFacts DEF Tree
<1>5. missed' = missed /\ wrapped' = wrapped /\ broken' = broken
  BY DEF Fork, NewLeaf
<1> DEFINE parts == at.depth + at.match
           other == find_minimum_leaf(x)[2]
           fork == [prefix_len |-> at.match, prefix |-> Saved(k, at.depth, at.match),
                  edges |-> << <<Char(other, parts), x>>, <<Char(k, parts), Leaf(k)>> >>]
           less == Shortened(x, at.match, parts + 1)
<1>6. /\ nodes' = [p \in DOMAIN nodes \cup {q} |->
                     IF p = q THEN fork ELSE IF p = x THEN less
                     ELSE Repointed(at.up, x, q)[p]]
      /\ num_children' = [p \in DOMAIN nodes' |-> IF p = q THEN 2 ELSE num_children[p]]
  BY DEF Fork
<1>7. Len(fork.edges) = 2
  OBVIOUS
<1>8. x \in DOMAIN nodes => less.edges = nodes[x].edges
  BY <1>1 DEF Shortened, Tree, Shape, Nodes
<1> HIDE DEF fork, less, q
<1>9. /\ DOMAIN nodes' = DOMAIN nodes \cup {q} /\ nodes'[q] = fork
      /\ x \in DOMAIN nodes => nodes'[x] = less
      /\ \A p \in DOMAIN nodes \ {x} : nodes'[p] = Repointed(at.up, x, q)[p]
  BY <1>4, <1>6
<1>10. \A p \in DOMAIN nodes : SameBytes(Repointed(at.up, x, q)[p].edges, nodes[p].edges)
  BY <1>1, <1>3, RepointedBytes
<1> HIDE DEF x, at
<1>11. \A p \in DOMAIN nodes : SameBytes(nodes'[p].edges, nodes[p].edges)
  <2> TAKE p \in DOMAIN nodes
  <2>1. CASE p = x
    BY <1>8, <1>9, <2>1, SameBytesSelf
  <2>2. CASE p # x
    BY <1>9, <1>10, <2>2
  <2> QED
    BY <2>1, <2>2
<1>12. /\ \A p \in DOMAIN nodes : num_children'[p] = num_children[p]
       /\ num_children'[q] = 2 /\ 2 \in Counts
  <2>1. 2 \in Counts
    BY FanoutFacts DEF Counts
  <2> QED
    BY <1>4, <1>6, <1>9, <2>1
<1>13. \A p \in DOMAIN nodes :
         Fit(nodes'[p].edges, Tier(p), num_children'[p], missed', wrapped', broken')
  <2> TAKE p \in DOMAIN nodes
  <2>1. Fit(nodes[p].edges, Tier(p), num_children[p], missed, wrapped, broken)
    BY DEF FitNow
  <2> QED
    BY <1>5, <1>11, <1>12, <2>1, SameBytesFit
<1>14. Fit(nodes'[q].edges, Tier(q), num_children'[q], missed', wrapped', broken')
  <2>1. Len(nodes'[q].edges) = 2
    BY <1>7, <1>9
  <2>2. Fanout[1] \in Nat /\ Fanout[1] >= 2
    BY FanoutFacts
  <2>3. LenFits(2, 1, 2, missed', wrapped', broken')
    BY <2>2 DEF LenFits
  <2> QED
    BY <1>4, <1>12, <2>1, <2>3 DEF Fit
<1>15. FitNow'
  BY <1>9, <1>13, <1>14 DEF FitNow
<1>16. \A p \in DOMAIN nodes' : num_children'[p] \in Counts
  BY <1>9, <1>12 DEF CountsTyped
<1>17. CountsTyped'
  BY <1>6, <1>16 DEF CountsTyped, Counts
<1> QED
  BY <1>15, <1>17

(* A count that has room counts one more.                                  *)
LEMMA OneMoreFacts ==
  ASSUME CountsTyped, NEW p \in DOMAIN nodes
  PROVE  /\ num_children[p] \in Nat /\ OneMore(p) \in Counts
         /\ OneMore(p) # 0 => OneMore(p) = num_children[p] + 1
         /\ num_children[p] + 1 < CountModulus => OneMore(p) = num_children[p] + 1
<1>1. CountModulus \in Nat /\ CountModulus > 0
  BY FanoutFacts
<1>2. num_children[p] \in Nat /\ num_children[p] < CountModulus
  BY <1>1 DEF CountsTyped, Counts
<1>3. \A c, m \in Nat : c < m =>
        /\ (c + 1) % m \in 0 .. m - 1
        /\ (c + 1) % m # 0 => (c + 1) % m = c + 1
        /\ c + 1 < m => (c + 1) % m = c + 1
  <2> SUFFICES ASSUME NEW c \in Nat, NEW m \in Nat, c < m
               PROVE  /\ (c + 1) % m \in 0 .. m - 1
                      /\ (c + 1) % m # 0 => (c + 1) % m = c + 1
                      /\ c + 1 < m => (c + 1) % m = c + 1
    OBVIOUS
  <2>1. CASE c + 1 = m
    <3>1. m % m = 0
      OBVIOUS
    <3> QED
      BY <2>1, <3>1
  <2>2. CASE c + 1 < m
    <3>1. (c + 1) % m = c + 1
      BY <2>2
    <3> QED
      BY <2>2, <3>1
  <2> QED
    BY <2>1, <2>2
<1> QED
  BY <1>1, <1>2, <1>3 DEF OneMore, Counts

(* One child more, in the same node, that has room.                        *)
LEMMA AddedFits ==
  ASSUME NEW n \in Nat, NEW t \in 1 .. 4, NEW c \in Nat, NEW d \in Nat,
         NEW ms, NEW wr, NEW wr2, NEW br,
         LenFits(n, t, c, ms, wr, br), br = "no", n < Fanout[t],
         t <= 3 => c < Fanout[t] /\ d = c + 1,
         wr2 = FALSE => wr = FALSE /\ d = c + 1
  PROVE  LenFits(n + 1, t, d, ms, wr2, br)
<1>1. Fanout[t] \in Nat /\ (t > 1 => Fanout[t - 1] \in Nat)
  BY FanoutFacts
<1>2. /\ n <= Fanout[t] /\ (t = 1 => n >= 2)
      /\ t <= 2 => c = n
      /\ t <= 3 => n <= c /\ c <= Fanout[t]
      /\ wr = FALSE => n <= c
      /\ t > 1 /\ ms = FALSE /\ wr = FALSE => c > Fanout[t - 1]
      /\ t = 3 /\ ms = FALSE /\ wr = FALSE => c = n
  BY DEF LenFits
<1>3. /\ n + 1 <= Fanout[t] /\ (t = 1 => n + 1 >= 2)
      /\ t <= 3 => n + 1 <= d /\ d <= Fanout[t]
  BY <1>1, <1>2
<1>4. t <= 2 => d = n + 1
  BY <1>2
<1>5. wr2 = FALSE => n + 1 <= d
  BY <1>2
<1>6. t > 1 /\ ms = FALSE /\ wr2 = FALSE => d > Fanout[t - 1]
  BY <1>1, <1>2
<1>7. t = 3 /\ ms = FALSE /\ wr2 = FALSE => d = n + 1
  BY <1>2
<1> QED
  BY <1>3, <1>4, <1>5, <1>6, <1>7 DEF LenFits

LEMMA AddChildFits ==
  ASSUME IsTree, FitNow, CountsTyped, broken = "no", wrapped \in BOOLEAN, NEW k \in Keys,
         NEW v, AddChild(k, v, Descend(k))
  PROVE  FitNow' /\ CountsTyped'
<1>1. PICK word : Tree(nodes, leaves, root, word)
  BY DEF IsTree
<1> DEFINE at == Descend(k)
           p == at.node
           b == Char(k, Len(word[p]))
           es == Append(nodes[p].edges, <<b, Leaf(k)>>)
           et == Ordered(Tier(p), es)
           n == Len(nodes[p].edges)
           c == num_children[p]
           d == OneMore(p)
<1>2. at.why = "add" /\ Room(p) /\ k \in Words /\ missed' = missed /\ broken' = broken
      /\ wrapped' = (wrapped \/ d = 0)
  BY Constants DEF AddChild, NewLeaf
<1>3. k \notin DOMAIN leaves
  BY <1>1, <1>2, DescendKnown
<1>4. DOMAIN leaves' = DOMAIN leaves \cup {k}
  BY NewLeafFacts DEF AddChild
<1>5. /\ p \in DOMAIN nodes /\ at.depth = Len(word[p]) /\ Agree(word[p], k)
      /\ \A e \in Edges(nodes, p) : e[1] # b
  BY <1>1, <1>2, DescendAdd
<1>6. nodes' = [nodes EXCEPT ![p].edges = et]
      /\ num_children' = [num_children EXCEPT ![p] = d]
  <2>1. nodes' = [nodes EXCEPT ![p].edges = Ordered(Tier(p),
                       Append(@, <<Char(k, at.depth), Leaf(k)>>))]
        /\ num_children' = [num_children EXCEPT ![p] = d]
    BY DEF AddChild
  <2> HIDE DEF p
  <2> QED
    BY <1>5, <2>1
<1> HIDE DEF p, et, at
<1>7. EdgesFit(nodes, leaves, word, p, es, leaves') /\ Len(es) = n + 1
  <2>1. EdgesFit(nodes, leaves, word, p, es, leaves')
    BY <1>1, <1>3, <1>4, <1>5, AddFit
  <2>2. nodes[p].edges \in Seq(Bytes \X Ptrs(nodes, leaves))
    BY <1>1, <1>5 DEF Tree, Shape, Nodes
  <2> QED
    BY <2>1, <2>2
<1>8. Tier(p) \in 1 .. 4 /\ Shape(nodes, leaves) /\ n \in Nat
  BY <1>1, <1>5, TierOf, EdgeFacts DEF Tree
<1>9. es \in Seq(Bytes \X Ptrs(nodes, leaves')) /\ Distinct(es)
  BY <1>7 DEF EdgesFit
<1>10. n < Fanout[4]
  <2>1. Len(word[p]) \in Nat
    BY <1>1, <1>5, TreeFacts
  <2>2. b \in Bytes
    BY <1>2, <2>1, CharFacts
  <2> QED
    BY <1>1, <1>5, <2>2, TopHasRoom
<1> HIDE DEF es, b
<1>11. Len(et) = Len(es) /\ (Tier(p) >= 3 => Sorted(et))
  BY <1>8, <1>9, OrderedFacts DEF et
<1>12. /\ c \in Nat /\ d \in Counts /\ d \in Nat
       /\ d # 0 => d = c + 1
       /\ c + 1 < CountModulus => d = c + 1
  BY <1>5, OneMoreFacts DEF Counts
<1> HIDE DEF d
<1>13. LenFits(n, Tier(p), c, missed, wrapped, broken)
  BY <1>5 DEF FitNow, Fit
<1>14. Tier(p) <= 3 => c < Fanout[Tier(p)] /\ d = c + 1 /\ n < Fanout[Tier(p)]
  <2> SUFFICES ASSUME Tier(p) <= 3
               PROVE  c < Fanout[Tier(p)] /\ d = c + 1 /\ n < Fanout[Tier(p)]
    OBVIOUS
  <2>1. c < Fanout[Tier(p)]
    BY <1>2, <1>8 DEF Room
  <2>2. Fanout[Tier(p)] \in Nat /\ Fanout[Tier(p)] < CountModulus /\ CountModulus \in Nat
    BY <1>8, FanoutFacts
  <2>3. n <= c
    BY <1>13 DEF LenFits
  <2> HIDE DEF c, n
  <2> QED
    BY <1>8, <1>12, <2>1, <2>2, <2>3
<1>15. n < Fanout[Tier(p)]
  BY <1>8, <1>10, <1>14
<1>16. /\ wrapped' = FALSE => wrapped = FALSE /\ d = c + 1
       /\ missed' = FALSE => missed = FALSE
  BY <1>2, <1>12
<1> HIDE DEF c, n
<1>17. LenFits(n + 1, Tier(p), d, missed, wrapped', broken)
  BY <1>8, <1>12, <1>13, <1>14, <1>15, <1>16, AddedFits
<1>18. Fit(et, Tier(p), d, missed', wrapped', broken')
  BY <1>2, <1>7, <1>11, <1>17 DEF Fit
<1>19. Worse
  BY <1>16 DEF Worse
<1> QED
  BY <1>5, <1>6, <1>8, <1>12, <1>18, <1>19, EditFits

(* A full node that has grown, with its new child or without.              *)
LEMMA GrownFits ==
  ASSUME NEW n \in Nat, NEW t \in 2 .. 4, NEW c \in Nat, NEW ms, NEW wr, NEW br,
         LenFits(n, t - 1, c, ms, wr, br), br = "no", ~(c < Fanout[t - 1])
  PROVE  /\ c = Fanout[t - 1] /\ c + 1 <= Fanout[t]
         /\ LenFits(n + 1, t, c + 1, ms, wr, br)
         /\ LenFits(n, t, c, TRUE, wr, br)
<1> DEFINE f == Fanout[t - 1]
           g == Fanout[t]
<1>1. f \in Nat /\ g \in Nat /\ f < g /\ f >= 2
  <2>1. t - 1 \in 1 .. 4 /\ t \in 1 .. 4
    OBVIOUS
  <2> QED
    BY <2>1, FanoutFacts
<1>2. /\ t - 1 <= 2 => c = n
      /\ n <= c /\ c <= f
  BY DEF LenFits
<1> HIDE DEF f, g
<1>3. c = f /\ c + 1 <= g /\ n + 1 <= c + 1 /\ c + 1 > f
      /\ n <= g /\ n + 1 <= g /\ c <= g
  BY <1>1, <1>2 DEF f
<1>4. t <= 3 => c = n /\ c + 1 = n + 1
  BY <1>2
<1>5. LenFits(n + 1, t, c + 1, ms, wr, br)
  BY <1>3, <1>4 DEF LenFits, f, g
<1>6. LenFits(n, t, c, TRUE, wr, br)
  BY <1>2, <1>3, <1>4 DEF LenFits, f, g
<1> QED
  BY <1>3, <1>5, <1>6 DEF f, g

LEMMA GrowFits ==
  ASSUME IsTree, FitNow, CountsTyped, broken = "no", NEW k \in Keys,
         \/ GrowInVain(Descend(k)) \/ \E v : Grow(k, v, Descend(k))
  PROVE  FitNow' /\ CountsTyped'
<1>1. PICK word : Tree(nodes, leaves, root, word)
  BY DEF IsTree
<1> DEFINE at == Descend(k)
           p == at.node
           es == Append(nodes[p].edges, <<Char(k, Len(word[p])), Leaf(k)>>)
           t == Tier(p) + 1
           n == Len(nodes[p].edges)
           c == num_children[p]
<1>2. MustGrow(at) /\ ~Room(p)
  BY DEF Grow, GrowInVain, MustGrow
<1>3. /\ p \in DOMAIN nodes /\ Tier(p) \in 1 .. 3 /\ Above(at.up, p)
      /\ at.depth = Len(word[p]) /\ Agree(word[p], k) /\ k \notin DOMAIN leaves
      /\ \A e \in Edges(nodes, p) : e[1] # Char(k, Len(word[p]))
      /\ CanAlloc(t)
  BY <1>1, <1>2, MustGrowFacts
<1>4. t \in 2 .. 4 /\ t \in 1 .. 4 /\ Tier(p) = t - 1
  BY <1>3
<1>5. n \in Nat /\ c \in Nat /\ c \in Counts
  BY <1>1, <1>3, EdgeFacts DEF Tree, CountsTyped, Counts
<1>6. LenFits(n, Tier(p), c, missed, wrapped, broken) /\ ~(c < Fanout[Tier(p)])
  BY <1>2, <1>3 DEF FitNow, Fit, Room
<1>7. OneMore(p) \in Counts
      /\ (c + 1 < CountModulus => OneMore(p) = c + 1)
  BY <1>3, OneMoreFacts
<1> HIDE DEF t, n, c
<1>. LenFits(n, t - 1, c, missed, wrapped, broken) /\ ~(c < Fanout[t - 1])
  BY <1>4, <1>6
<1>8. /\ c = Fanout[t - 1] /\ c + 1 <= Fanout[t]
      /\ LenFits(n + 1, t, c + 1, missed, wrapped, broken)
      /\ LenFits(n, t, c, TRUE, wrapped, broken)
  BY <1>4, <1>5, <1>6, GrownFits
<1>9. OneMore(p) = c + 1
  <2>1. Fanout[t] \in Nat /\ Fanout[t] < CountModulus /\ CountModulus \in Nat
    BY <1>4, FanoutFacts
  <2> QED
    BY <1>5, <1>7, <1>8, <2>1
<1>10. CASE \E v : Grow(k, v, at)
  <2>1. PICK v : Grow(k, v, at)
    BY <1>10
  <2>2. DOMAIN leaves' = DOMAIN leaves \cup {k}
    BY <2>1, NewLeafFacts DEF Grow
  <2>3. Morph(p, at.up, t, es, OneMore(p)) /\ missed' = missed /\ wrapped' = wrapped
        /\ broken' = broken
    <3>1. Morph(p, at.up, Tier(p) + 1, Append(nodes[p].edges, <<Char(k, at.depth), Leaf(k)>>),
                OneMore(p))
      BY <2>1 DEF Grow
    <3> QED
      BY <1>3, <2>1, <3>1 DEF Grow, NewLeaf, t
  <2> HIDE DEF p, at
  <2>4. EdgesFit(nodes, leaves, word, p, es, leaves') /\ Len(es) = n + 1
    <3>1. EdgesFit(nodes, leaves, word, p, es, leaves')
      BY <1>1, <1>3, <2>2, AddFit
    <3>2. nodes[p].edges \in Seq(Bytes \X Ptrs(nodes, leaves))
      BY <1>1, <1>3 DEF Tree, Shape, Nodes
    <3> QED
      BY <3>1, <3>2 DEF n
  <2> HIDE DEF es
  <2>5. LenFits(Len(es), t, OneMore(p), missed', wrapped', broken')
    BY <1>8, <1>9, <2>3, <2>4
  <2>6. Worse
    BY <2>3 DEF Worse
  <2> QED
    BY <1>1, <1>3, <1>4, <1>7, <2>3, <2>4, <2>5, <2>6, MorphFits
<1>11. CASE GrowInVain(at)
  <2>1. Morph(p, at.up, t, nodes[p].edges, c) /\ missed' = TRUE /\ wrapped' = wrapped
        /\ broken' = broken
    BY <1>11 DEF GrowInVain, t, c
  <2> HIDE DEF p, at
  <2>2. EdgesFit(nodes, leaves, word, p, nodes[p].edges, leaves)
    BY <1>1, <1>3, SameFit
  <2>3. LenFits(Len(nodes[p].edges), t, c, missed', wrapped', broken')
    BY <1>8, <2>1 DEF n
  <2>4. Worse
    BY <2>1 DEF Worse
  <2> QED
    BY <1>1, <1>3, <1>4, <1>5, <2>1, <2>2, <2>3, <2>4, MorphFits
<1> QED
  BY <1>10, <1>11

(* A child less, in the same node.                                         *)
LEMMA RemovedFits ==
  ASSUME NEW n \in Nat \ {0}, NEW t \in 1 .. 4, NEW c \in Nat, NEW d,
         d = IF t = 4 THEN c ELSE c - 1,
         NEW ms, NEW ms2, NEW wr, NEW br, LenFits(n, t, c, ms, wr, br), br = "no",
         ~(t = 1 /\ d = 1), ms2 = FALSE => ms = FALSE,
         ms2 = FALSE => ~(t > 1 /\ d = Fanout[t - 1])
  PROVE  LenFits(n - 1, t, d, ms2, wr, br) /\ d \in Nat /\ d <= c
<1>1. Fanout[t] \in Nat /\ (t > 1 => Fanout[t - 1] \in Nat)
  BY FanoutFacts
<1>2. /\ n <= Fanout[t] /\ (t = 1 => n >= 2)
      /\ t <= 2 => c = n
      /\ t <= 3 => n <= c /\ c <= Fanout[t]
      /\ wr = FALSE => n <= c
      /\ t > 1 /\ ms = FALSE /\ wr = FALSE => c > Fanout[t - 1]
      /\ t = 3 /\ ms = FALSE /\ wr = FALSE => c = n
  BY DEF LenFits
<1>3. /\ n - 1 <= Fanout[t] /\ (t = 1 => n - 1 >= 2)
      /\ t <= 3 => n - 1 <= d /\ d <= Fanout[t]
      /\ d \in Nat /\ d <= c
  BY <1>1, <1>2
<1>4. t <= 2 => d = n - 1
  BY <1>2
<1>5. wr = FALSE => n - 1 <= d
  BY <1>2
<1>6. t > 1 /\ ms2 = FALSE /\ wr = FALSE => d > Fanout[t - 1]
  BY <1>1, <1>2
<1>7. t = 3 /\ ms2 = FALSE /\ wr = FALSE => d = n - 1
  BY <1>2
<1> QED
  BY <1>3, <1>4, <1>5, <1>6, <1>7 DEF LenFits

LEMMA HasEdges ==
  ASSUME Shape(nodes, leaves), NEW p \in DOMAIN nodes, NEW e \in Edges(nodes, p)
  PROVE  Len(nodes[p].edges) \in Nat \ {0}
<1>1. Len(nodes[p].edges) \in Nat /\ DOMAIN nodes[p].edges = 1 .. Len(nodes[p].edges)
  BY EdgeFacts
<1>2. PICK i \in DOMAIN nodes[p].edges : nodes[p].edges[i] = e
  BY EdgeFacts
<1> QED
  BY <1>1, <1>2

LEMMA OneLessIs ==
  ASSUME NEW p, Tier(p) \in 1 .. 4
  PROVE  OneLess(p) = IF Tier(p) = 4 THEN num_children[p] ELSE num_children[p] - 1
  BY DEF OneLess

LEMMA DeleteChildFits ==
  ASSUME IsTree, FitNow, CountsTyped, broken = "no", missed \in BOOLEAN,
         NEW k \in DOMAIN leaves, NEW p \in DOMAIN nodes, NEW b,
         <<b, Leaf(k)>> \in Edges(nodes, p), DeleteChild(k, p)
  PROVE  FitNow' /\ CountsTyped'
<1>1. PICK word : Tree(nodes, leaves, root, word)
  BY DEF IsTree
<1> DEFINE es == Remaining(p, k)
           t == Tier(p)
           n == Len(nodes[p].edges)
           c == num_children[p]
           d == OneLess(p)
<1>2. /\ Len(es) = n - 1 /\ (Sorted(nodes[p].edges) => Sorted(es))
  BY <1>1, CutFit, LeafFreedFacts DEF DeleteChild
<1>3. /\ nodes' = [nodes EXCEPT ![p].edges = es]
      /\ num_children' = [num_children EXCEPT ![p] = d]
      /\ wrapped' = wrapped /\ broken' = broken
  BY DEF DeleteChild, LeafFreed
<1>4. missed' = (missed \/ Shrinks(p)) /\ ~Collapses(p)
  BY DEF DeleteChild
<1>5. missed' = FALSE => missed = FALSE
  BY <1>4
<1>6. t \in 1 .. 4 /\ n \in Nat \ {0} /\ Shape(nodes, leaves)
  BY <1>1, TierOf, HasEdges DEF Tree
<1>7. c \in Nat /\ c <= CountModulus - 1 /\ CountModulus \in Nat
  BY FanoutFacts DEF CountsTyped, Counts
<1>8. LenFits(n, t, c, missed, wrapped, broken) /\ (t >= 3 => Sorted(es))
  BY <1>2 DEF FitNow, Fit
<1>9. d = IF t = 4 THEN c ELSE c - 1
  BY <1>6, OneLessIs
<1>10. /\ ~(t = 1 /\ d = 1)
       /\ missed' = FALSE => ~(t > 1 /\ d = Fanout[t - 1])
  BY <1>4 DEF Collapses, Shrinks
<1> HIDE DEF es, t, n, c, d
<1>11. LenFits(n - 1, t, d, missed', wrapped, broken) /\ d \in Nat /\ d <= c
  BY <1>5, <1>6, <1>7, <1>8, <1>9, <1>10, RemovedFits
<1>12. d \in Counts
  BY <1>7, <1>11 DEF Counts
<1>13. Fit(es, Tier(p), d, missed', wrapped', broken')
  BY <1>2, <1>3, <1>8, <1>11 DEF Fit, t
<1>14. Worse
  BY <1>3, <1>5 DEF Worse
<1> QED
  BY <1>3, <1>6, <1>12, <1>13, <1>14, EditFits

(* A node that shrinks has the count that the smaller kind has room for.   *)
LEMMA ShrunkFits ==
  ASSUME NEW m \in Nat, NEW t \in 1 .. 3, NEW c \in Nat, NEW d \in Nat,
         d = Fanout[t], d = IF t = 3 THEN c ELSE c - 1,
         NEW ms, NEW wr, NEW br, LenFits(m + 1, t + 1, c, ms, wr, "no"),
         br = IF t = 2 /\ m < d THEN "hole" ELSE "no"
  PROVE  /\ m <= d => LenFits(m, t, d, ms, wr, br)
         /\ m > d => ~(wr = FALSE)
         /\ br = "hole" => ~(ms = FALSE) \/ ~(wr = FALSE)
<1> DEFINE u == t + 1
<1>1. d >= 2 /\ (t > 1 => Fanout[t - 1] < d)
  <2>1. t \in 1 .. 4 /\ (t > 1 => t \in 2 .. 4)
    OBVIOUS
  <2> QED
    BY <2>1, FanoutFacts
<1>2. /\ u - 1 = t /\ u > 1 /\ (t = 1 => u <= 2)
      /\ (t <= 2 => u <= 3) /\ (t = 2 => u = 3)
  OBVIOUS
<1>3. LenFits(m + 1, u, c, ms, wr, "no")
  OBVIOUS
<1> HIDE DEF u
<1>4. t = 1 => c = m + 1
  BY <1>2, <1>3 DEF LenFits
<1>5. t <= 2 => m + 1 <= c
  BY <1>2, <1>3 DEF LenFits
<1>6. wr = FALSE => m + 1 <= c
  BY <1>3 DEF LenFits
<1>7. ms = FALSE /\ wr = FALSE => c > d
  BY <1>2, <1>3 DEF LenFits
<1>8. ms = FALSE /\ wr = FALSE /\ t = 2 => c = m + 1
  BY <1>2, <1>3 DEF LenFits
<1>9. m > d => ~(wr = FALSE)
  BY <1>6
<1>10. br = "hole" => ~(ms = FALSE) \/ ~(wr = FALSE)
  BY <1>8
<1>11. t = 3 => ~(ms = FALSE /\ wr = FALSE)
  BY <1>7
<1>12. ASSUME m <= d
       PROVE  LenFits(m, t, d, ms, wr, br)
  <2>1. t = 1 => m >= 2
    BY <1>1, <1>4
  <2>2. t <= 2 /\ br # "hole" => d = m
    BY <1>4, <1>5, <1>12
  <2> QED
    BY <1>1, <1>11, <1>12, <2>1, <2>2 DEF LenFits
<1> QED
  BY <1>9, <1>10, <1>12

(* What a downgrade meets.                                                 *)
LEMMA ShrinksFacts ==
  ASSUME NEW word, Tree(nodes, leaves, root, word), FitNow, CountsTyped, broken = "no",
         NEW k \in DOMAIN leaves, NEW p \in DOMAIN nodes, NEW b,
         <<b, Leaf(k)>> \in Edges(nodes, p), Shrinks(p)
  PROVE  LET t == Smaller(p)
             n == Len(Remaining(p, k))
             d == OneLess(p)
             br == IF Tier(p) = 3 /\ n < d THEN "hole" ELSE "no"
         IN  /\ t \in 1 .. 3 /\ d \in Counts
             /\ n <= Fanout[t] => LenFits(n, t, d, missed, wrapped, br)
             /\ n > Fanout[t] => ~(wrapped = FALSE)
             /\ br = "hole" => ~(missed = FALSE) \/ ~(wrapped = FALSE)
<1> DEFINE u == Tier(p)
           t == Smaller(p)
           e == Len(nodes[p].edges)
           n == Len(Remaining(p, k))
           c == num_children[p]
           d == OneLess(p)
           br == IF u = 3 /\ n < d THEN "hole" ELSE "no"
           lv2 == [l \in DOMAIN leaves \ {k} |-> leaves[l]]
<1>1. u > 1 /\ d = Fanout[u - 1] /\ t = u - 1
  BY DEF Shrinks, Smaller
<1>2. u \in 1 .. 4 /\ e \in Nat \ {0}
  BY TierOf, HasEdges DEF Tree
<1>3. u \in 2 .. 4 /\ t \in 1 .. 3
  BY <1>1, <1>2
<1>4. d = IF u = 4 THEN c ELSE c - 1
  BY <1>2, OneLessIs
<1>5. c \in Nat
  BY DEF CountsTyped, Counts
<1>6. n = e - 1
  <2>1. DOMAIN lv2 = DOMAIN leaves \ {k}
    OBVIOUS
  <2> HIDE DEF lv2
  <2> QED
    BY <2>1, CutFit
<1>7. LenFits(e, u, c, missed, wrapped, broken)
  BY DEF FitNow, Fit
<1>8. d \in Counts
  <2>1. Fanout[u - 1] \in Nat /\ Fanout[u - 1] < CountModulus /\ CountModulus \in Nat
    BY <1>3, FanoutFacts
  <2> QED
    BY <1>1, <2>1 DEF Counts
<1> DEFINE m == e - 1
<1>9. br = IF u = 3 /\ m < d THEN "hole" ELSE "no"
  BY <1>6
<1>10. m \in Nat /\ e = m + 1 /\ n = m
  BY <1>2, <1>6
<1> HIDE DEF u, t, e, n, c, d, br, m
<1>11. /\ d \in Nat /\ d = Fanout[t] /\ u = t + 1 /\ (u = 3 <=> t = 2)
       /\ d = IF t = 3 THEN c ELSE c - 1
  BY <1>1, <1>3, <1>4, <1>8 DEF Counts
<1>12. /\ LenFits(m + 1, t + 1, c, missed, wrapped, "no")
       /\ br = IF t = 2 /\ m < d THEN "hole" ELSE "no"
  BY <1>7, <1>9, <1>10, <1>11
<1>13. /\ m <= d => LenFits(m, t, d, missed, wrapped, br)
       /\ m > d => ~(wrapped = FALSE)
       /\ br = "hole" => ~(missed = FALSE) \/ ~(wrapped = FALSE)
  BY <1>3, <1>5, <1>10, <1>11, <1>12, ShrunkFits
<1> QED
  BY <1>3, <1>8, <1>10, <1>11, <1>13 DEF u, t, n, d, br

LEMMA ShrinkFits ==
  ASSUME IsTree, FitNow, CountsTyped, broken = "no", NEW k \in DOMAIN leaves,
         NEW p \in DOMAIN nodes, NEW b, <<b, Leaf(k)>> \in Edges(nodes, p), NEW up,
         Above(up, p), Shrink(k, p, up)
  PROVE  /\ FitNow' /\ CountsTyped'
         /\ broken' \in {"no", "hole"}
         /\ broken' = "hole" => ~(missed' = FALSE) \/ ~(wrapped' = FALSE)
<1>1. PICK word : Tree(nodes, leaves, root, word)
  BY DEF IsTree
<1> DEFINE es == Remaining(p, k)
           t == Smaller(p)
           d == OneLess(p)
           br == IF Tier(p) = 3 /\ Len(es) < d THEN "hole" ELSE "no"
<1>2. DOMAIN leaves' = DOMAIN leaves \ {k}
  BY LeafFreedFacts DEF Shrink
<1>3. EdgesFit(nodes, leaves, word, p, es, leaves')
  BY <1>1, <1>2, CutFit
<1>4. /\ CanAlloc(t) /\ Morph(p, up, t, es, d) /\ missed' = missed /\ wrapped' = wrapped
      /\ broken' = br /\ Len(es) <= Fanout[t] /\ Shrinks(p) /\ LeafFreed(k)
  BY DEF Shrink, LeafFreed
<1>5. /\ t \in 1 .. 3 /\ d \in Counts
      /\ Len(es) <= Fanout[t] => LenFits(Len(es), t, d, missed, wrapped, br)
      /\ br = "hole" => ~(missed = FALSE) \/ ~(wrapped = FALSE)
  BY <1>1, <1>4, ShrinksFacts
<1>6. br \in {"no", "hole"}
  OBVIOUS
<1> HIDE DEF es, t, d, br
<1>. Len(es) <= Fanout[t]
  BY <1>4
<1>. t \in 1 .. 4
  <2>1. \A x \in 1 .. 3 : x \in 1 .. 4
    OBVIOUS
  <2> QED
    BY <1>5, <2>1
<1>7. LenFits(Len(es), t, d, missed', wrapped', broken')
  BY <1>4, <1>5
<1>8. Worse
  BY <1>4 DEF Worse
<1>9. FitNow' /\ CountsTyped'
  BY <1>1, <1>3, <1>4, <1>5, <1>7, <1>8, MorphFits
<1> QED
  BY <1>4, <1>5, <1>6, <1>9

(* Only a count that has come round to 0 lets a downgrade overrun.         *)
LEMMA OverrunWrapped ==
  ASSUME IsTree, FitNow, CountsTyped, broken = "no", NEW k \in DOMAIN leaves,
         NEW p \in DOMAIN nodes, NEW b, <<b, Leaf(k)>> \in Edges(nodes, p),
         ShrinkOverruns(k, p)
  PROVE  ~(wrapped = FALSE)
<1>1. PICK word : Tree(nodes, leaves, root, word)
  BY DEF IsTree
<1>2. Shrinks(p) /\ Len(Remaining(p, k)) > Fanout[Smaller(p)]
  BY DEF ShrinkOverruns
<1> QED
  BY <1>1, <1>2, ShrinksFacts

LEMMA CollapseFits ==
  ASSUME IsTree, FitNow, CountsTyped, broken = "no", NEW k \in DOMAIN leaves,
         NEW p \in DOMAIN nodes, NEW b, <<b, Leaf(k)>> \in Edges(nodes, p), NEW up,
         Above(up, p), Collapse(k, p, up)
  PROVE  FitNow' /\ CountsTyped'
<1>1. PICK word : Tree(nodes, leaves, root, word)
  BY DEF IsTree
<1> DEFINE c == Remaining(p, k)[1][1]
           s == Remaining(p, k)[1][2]
<1>2. nodes' = [n \in DOMAIN nodes \ {p} |->
                  IF n = s THEN Glued(p, c, s) ELSE Repointed(up, p, s)[n]]
      /\ num_children' = Restrict(num_children, DOMAIN nodes \ {p})
      /\ missed' = missed /\ wrapped' = wrapped /\ broken' = broken
  BY DEF Collapse, LeafFreed
<1>3. s \in DOMAIN nodes => Glued(p, c, s).edges = nodes[s].edges
  BY <1>1 DEF Glued, Tree, Shape, Nodes
<1>4. \A n \in DOMAIN nodes : SameBytes(Repointed(up, p, s)[n].edges, nodes[n].edges)
  BY <1>1, RepointedBytes
<1> HIDE DEF c, s
<1>5. DOMAIN nodes' = DOMAIN nodes \ {p}
  BY <1>2
<1>6. \A n \in DOMAIN nodes' : SameBytes(nodes'[n].edges, nodes[n].edges)
  <2> TAKE n \in DOMAIN nodes'
  <2>1. CASE n = s
    BY <1>2, <1>3, <1>5, <2>1, SameBytesSelf
  <2>2. CASE n # s
    BY <1>2, <1>4, <1>5, <2>2
  <2> QED
    BY <2>1, <2>2
<1>7. num_children' = [n \in DOMAIN nodes' |-> num_children[n]]
  BY <1>2, <1>5 DEF Restrict
<1>8. ASSUME NEW n \in DOMAIN nodes'
      PROVE  /\ num_children'[n] \in Counts
             /\ Fit(nodes'[n].edges, Tier(n), num_children'[n], missed', wrapped', broken')
  <2>1. n \in DOMAIN nodes /\ num_children'[n] = num_children[n]
    BY <1>5, <1>7
  <2>2. Fit(nodes[n].edges, Tier(n), num_children[n], missed, wrapped, broken)
    BY <2>1 DEF FitNow
  <2> QED
    BY <1>2, <1>6, <2>1, <2>2, SameBytesFit DEF CountsTyped
<1>9. FitNow'
  BY <1>8 DEF FitNow
<1> QED
  BY <1>7, <1>8, <1>9 DEF CountsTyped, Counts

(* Not every node that a search ends at has a leaf below it, but with two  *)
(* children in every node, it has.                                         *)
Bare == \E p \in DOMAIN nodes : nodes[p].edges = <<>>

LEMMA PoolsNow ==
  ASSUME IsTree, Cardinality(DOMAIN leaves) <= NodesPerTier,
         \A p \in DOMAIN nodes : Len(nodes[p].edges) >= 2
  PROVE  \A t \in Tiers : CanAlloc(t)
<1>1. PICK word : Tree(nodes, leaves, root, word)
  BY DEF IsTree
<1>2. ASSUME NEW p \in DOMAIN nodes
      PROVE  2 \in DOMAIN nodes[p].edges
  <2>1. /\ Len(nodes[p].edges) \in Nat
        /\ DOMAIN nodes[p].edges = 1 .. Len(nodes[p].edges)
    BY <1>1, EdgeFacts DEF Tree
  <2> QED
    BY <2>1
<1> QED
  BY <1>1, <1>2, PoolsHold

(* A walk finds no leaf only below a node without children.                *)
LEMMA NoLeafBare ==
  ASSUME IsTree, NEW k \in Keys, InsertFindsNoLeaf(Descend(k))
  PROVE  Bare
<1>1. PICK word : Tree(nodes, leaves, root, word)
  BY DEF IsTree
<1>2. SUFFICES ASSUME ~Bare PROVE FALSE
  OBVIOUS
<1>3. \A p \in DOMAIN nodes : nodes[p].edges # <<>>
  BY <1>2 DEF Bare
<1>4. Pointers = Ptrs(nodes, leaves) /\ k \in Words
  BY PointersAre, Constants
<1>5. \E q \in Pointers : find_minimum_leaf(q) = NULL
  <2>1. CASE Descend(k).why = "no leaf"
    BY <1>1, <1>4, <2>1, DescendEnds DEF Ptrs
  <2>2. CASE Descend(k).why = "fork" /\ find_minimum_leaf(Descend(k).node) = NULL
    BY <1>1, <1>4, <2>2, DescendFork
  <2> QED
    BY <2>1, <2>2 DEF InsertFindsNoLeaf
<1> QED
  BY <1>1, <1>3, <1>5, FirstExists

(* The invariant of the sizes.                                             *)
Blamed ==
  /\ broken = "no leaf" => Bare
  /\ broken = "overrun of children" => ~(wrapped = FALSE)
  /\ broken = "hole" => ~(missed = FALSE) \/ ~(wrapped = FALSE)
  /\ broken = "lost" => \A p \in DOMAIN nodes : Distinct(nodes[p].edges)
Full ==
  /\ FitNow /\ CountsTyped /\ Cardinality(DOMAIN leaves) <= NodesPerTier /\ Blamed

LEMMA FullCounts == Full => CountsRight
<1> SUFFICES ASSUME Full, broken = "no", NEW p \in DOMAIN nodes, Tier(p) = 1
             PROVE  num_children[p] = Len(nodes[p].edges)
  BY DEF CountsRight
<1>1. Fit(nodes[p].edges, Tier(p), num_children[p], missed, wrapped, broken)
  BY DEF Full, FitNow
<1> QED
  BY <1>1 DEF Fit, LenFits

(* A step that leaves the nodes alone.                                     *)
LEMMA FullSame ==
  ASSUME Full, UNCHANGED <<nodes, num_children, missed, wrapped>>,
         Cardinality(DOMAIN leaves') <= NodesPerTier,
         broken' = broken \/ (broken = "no" /\ Blamed')
  PROVE  Full'
<1>1. CASE broken' = broken
  <2>1. FitNow' /\ CountsTyped'
    BY <1>1 DEF Full, FitNow, CountsTyped, Counts
  <2>2. Blamed'
    BY <1>1 DEF Full, Blamed, Bare
  <2> QED
    BY <2>1, <2>2 DEF Full
<1>2. CASE broken = "no" /\ Blamed'
  <2>1. Worse
    BY <1>2 DEF Worse
  <2>2. FitNow' /\ CountsTyped'
    BY <2>1, SameFits DEF Full
  <2> QED
    BY <1>2, <2>2 DEF Full
<1> QED
  BY <1>1, <1>2

LEMMA LeafCounts ==
  ASSUME LeavesTyped(leaves), Cardinality(DOMAIN leaves) <= NodesPerTier, NEW k
  PROVE  /\ \A v : NewLeaf(k, v) /\ k \notin DOMAIN leaves =>
              Cardinality(DOMAIN leaves') <= NodesPerTier
         /\ LeafFreed(k) /\ k \in DOMAIN leaves =>
              Cardinality(DOMAIN leaves') <= NodesPerTier
<1>1. Cardinality(DOMAIN leaves) \in Nat /\ NodesPerTier \in Nat /\ IsFiniteSet(DOMAIN leaves)
  BY FS_CardinalityType, Constants DEF LeavesTyped
<1>2. ASSUME NEW v, NewLeaf(k, v), k \notin DOMAIN leaves
      PROVE  Cardinality(DOMAIN leaves') <= NodesPerTier
  <2>1. DOMAIN leaves' = DOMAIN leaves \cup {k}
    BY <1>2, NewLeafFacts
  <2>2. Cardinality(DOMAIN leaves') = Cardinality(DOMAIN leaves) + 1
    BY <1>1, <1>2, <2>1, FS_AddElement
  <2>3. Cardinality(DOMAIN leaves) < NodesPerTier
    BY <1>2 DEF NewLeaf, CanAllocLeaf
  <2> QED
    BY <1>1, <2>2, <2>3
<1>3. ASSUME LeafFreed(k), k \in DOMAIN leaves
      PROVE  Cardinality(DOMAIN leaves') <= NodesPerTier
  <2>1. DOMAIN leaves' = DOMAIN leaves \ {k}
    BY <1>3, LeafFreedFacts
  <2>2. Cardinality(DOMAIN leaves') = Cardinality(DOMAIN leaves) - 1
    BY <1>1, <1>3, <2>1, FS_RemoveElement
  <2> QED
    BY <1>1, <2>2
<1> QED
  BY <1>2, <1>3

LEMMA PastFull ==
  ASSUME Sound, Full, broken = "no", NEW x \in DOMAIN nodes, NEW p, Above(p, x),
         DeletePast(x, p)
  PROVE  Full'
<1>1. PICK word : Tree(nodes, leaves, root, word)
  BY SoundFacts DEF IsTree
<1>2. /\ nodes' = Repointed(p, x, NULL) /\ broken' = "lost" /\ num_children' = num_children
      /\ leaves' = leaves /\ missed' = missed /\ wrapped' = wrapped
  BY DEF DeletePast, history
<1>3. DOMAIN nodes' = DOMAIN nodes
  BY <1>1, <1>2, RepointedFacts
<1>4. \A n \in DOMAIN nodes : SameBytes(nodes'[n].edges, nodes[n].edges)
  BY <1>1, <1>2, RepointedBytes
<1>5. FitNow' /\ CountsTyped'
  <2>1. Worse
    BY <1>2 DEF Worse
  <2>2. ASSUME NEW n \in DOMAIN nodes
        PROVE  Fit(nodes'[n].edges, Tier(n), num_children'[n], missed', wrapped', broken')
    <3>1. Fit(nodes[n].edges, Tier(n), num_children[n], missed, wrapped, broken)
      BY DEF Full, FitNow
    <3>2. Fit(nodes[n].edges, Tier(n), num_children[n], missed', wrapped', broken')
      BY <2>1, <3>1, WorseFits
    <3>3. Fit(nodes'[n].edges, Tier(n), num_children[n], missed', wrapped', broken')
      BY <1>4, <3>2, SameBytesFit
    <3> QED
      BY <1>2, <3>3
  <2> QED
    BY <1>2, <1>3, <2>2 DEF Full, FitNow, CountsTyped, Counts
<1>6. ASSUME NEW n \in DOMAIN nodes
      PROVE  Distinct(nodes'[n].edges)
  <2>1. Distinct(nodes[n].edges)
    BY <1>1 DEF Tree
  <2> QED
    BY <1>4, <2>1 DEF SameBytes, Distinct
<1>7. Blamed'
  BY <1>2, <1>3, <1>6 DEF Blamed
<1> QED
  BY <1>2, <1>5, <1>7 DEF Full

LEMMA InsertFull ==
  ASSUME Sound, Full, NEW k \in Keys, InsertCall(k)
  PROVE  Full'
<1> DEFINE at == Descend(k)
<1>1. broken = "no" /\ IsTree /\ FitNow /\ CountsTyped /\ LeavesTyped(leaves)
      /\ wrapped \in BOOLEAN /\ Cardinality(DOMAIN leaves) <= NodesPerTier
  BY InsertCases DEF Full, Sound
<1>2. \/ GrowInVain(at) \/ InsertOOM(at) \/ FreeLeafOfPool(at) \/ InsertFindsNoLeaf(at)
      \/ \E v \in Values : \/ InsertFirst(k, v, at) \/ Overwrite(k, v, at)
                           \/ Fork(k, v, at) \/ AddChild(k, v, at) \/ Grow(k, v, at)
  BY DEF InsertCall
<1>3. CASE GrowInVain(at)
  <2>1. FitNow' /\ CountsTyped'
    BY <1>1, <1>3, GrowFits
  <2>2. leaves' = leaves /\ broken' = broken
    BY <1>3 DEF GrowInVain
  <2> QED
    BY <1>1, <2>1, <2>2 DEF Full, Blamed
<1>4. CASE InsertOOM(at)
  <2>1. UNCHANGED <<nodes, num_children, leaves, missed, wrapped, broken>>
    BY <1>4 DEF InsertOOM, treeVars, history
  <2> QED
    BY <1>1, <2>1, FullSame
<1>5. CASE FreeLeafOfPool(at)
  <2>1. UNCHANGED <<nodes, num_children, leaves, missed, wrapped>>
        /\ broken' = "free of a block"
    BY <1>5 DEF FreeLeafOfPool, Breaks, treeVars, history
  <2>2. Blamed'
    BY <2>1 DEF Blamed
  <2> QED
    BY <1>1, <2>1, <2>2, FullSame
<1>6. CASE InsertFindsNoLeaf(at)
  <2>1. UNCHANGED <<nodes, num_children, leaves, missed, wrapped>> /\ broken' = "no leaf"
    BY <1>6 DEF InsertFindsNoLeaf, Breaks, treeVars, history
  <2>2. Bare
    BY <1>1, <1>6, NoLeafBare
  <2>3. Blamed'
    BY <2>1, <2>2 DEF Blamed, Bare
  <2> QED
    BY <1>1, <2>1, <2>3, FullSame
<1>7. ASSUME NEW v \in Values, \/ InsertFirst(k, v, at) \/ Overwrite(k, v, at)
                               \/ Fork(k, v, at) \/ AddChild(k, v, at) \/ Grow(k, v, at)
      PROVE  Full'
  <2>1. broken' = broken
    BY <1>7 DEF InsertFirst, Overwrite, Fork, AddChild, Grow, NewLeaf
  <2>2. FitNow' /\ CountsTyped'
    <3>1. CASE InsertFirst(k, v, at) \/ Overwrite(k, v, at)
      <4>1. UNCHANGED <<nodes, num_children, missed, wrapped>>
        BY <3>1 DEF InsertFirst, Overwrite, NewLeaf, history
      <4>2. Worse
        BY <1>1, <4>1 DEF Worse
      <4> QED
        BY <1>1, <4>1, <4>2, SameFits
    <3>2. CASE Fork(k, v, at)
      BY <1>1, <3>2, ForkFits
    <3>3. CASE AddChild(k, v, at)
      BY <1>1, <3>3, AddChildFits
    <3>4. CASE Grow(k, v, at)
      BY <1>1, <3>4, GrowFits
    <3> QED
      BY <1>7, <3>1, <3>2, <3>3, <3>4
  <2>3. Cardinality(DOMAIN leaves') <= NodesPerTier
    <3>1. CASE Overwrite(k, v, at)
      <4>1. DOMAIN leaves' = DOMAIN leaves
        BY <3>1 DEF Overwrite
      <4> QED
        BY <1>1, <4>1
    <3>2. CASE InsertFirst(k, v, at) \/ Fork(k, v, at) \/ AddChild(k, v, at) \/ Grow(k, v, at)
      <4>1. k \notin DOMAIN leaves
        BY <1>1, <3>2, InsertFirstTree, ForkIsTree, AddChildTree, GrowTree
      <4>2. NewLeaf(k, v)
        BY <3>2 DEF InsertFirst, Fork, AddChild, Grow
      <4> QED
        BY <1>1, <4>1, <4>2, LeafCounts
    <3> QED
      BY <1>7, <3>1, <3>2
  <2> QED
    BY <1>1, <2>1, <2>2, <2>3 DEF Full, Blamed
<1> QED
  BY <1>2, <1>3, <1>4, <1>5, <1>6, <1>7

LEMMA DeleteFull ==
  ASSUME Sound, Full, NEW k \in Keys, DeleteCall(k)
  PROVE  Full'
<1>1. broken = "no" /\ IsTree /\ missed \in BOOLEAN /\ FitNow /\ CountsTyped
      /\ LeavesTyped(leaves) /\ Cardinality(DOMAIN leaves) <= NodesPerTier
  BY DeleteCases DEF Full, Sound
<1>2. CASE DeleteAbsent
  <2>1. UNCHANGED <<nodes, num_children, leaves, missed, wrapped, broken>>
    BY <1>2 DEF DeleteAbsent, treeVars, history
  <2> QED
    BY <1>1, <2>1, FullSame
<1>3. CASE \E x, p : /\ DeletePast(x, p) /\ x \in DOMAIN nodes
                     /\ nodes[x].prefix_len > MaxPrefix /\ Above(p, x)
                     /\ k \notin DOMAIN leaves
  BY <1>1, <1>3, PastFull
<1>4. CASE k \in DOMAIN leaves /\ root = Leaf(k) /\ DeleteRoot(k)
  <2>1. UNCHANGED <<nodes, num_children, missed, wrapped, broken>> /\ LeafFreed(k)
    BY <1>4 DEF DeleteRoot, LeafFreed
  <2>2. Cardinality(DOMAIN leaves') <= NodesPerTier
    BY <1>1, <1>4, <2>1, LeafCounts
  <2> QED
    BY <2>1, <2>2, FullSame
<1>5. CASE /\ k \in DOMAIN leaves
           /\ \E p \in DOMAIN nodes : \E b, up :
                /\ <<b, Leaf(k)>> \in Edges(nodes, p) /\ Above(up, p)
                /\ \/ DeleteChild(k, p) \/ Shrink(k, p, up) \/ Collapse(k, p, up)
                   \/ ShrinkOverruns(k, p)
  <2>1. PICK p \in DOMAIN nodes : \E b, up :
                /\ <<b, Leaf(k)>> \in Edges(nodes, p) /\ Above(up, p)
                /\ \/ DeleteChild(k, p) \/ Shrink(k, p, up) \/ Collapse(k, p, up)
                   \/ ShrinkOverruns(k, p)
    BY <1>5
  <2>2. PICK b, up : /\ <<b, Leaf(k)>> \in Edges(nodes, p) /\ Above(up, p)
                     /\ \/ DeleteChild(k, p) \/ Shrink(k, p, up) \/ Collapse(k, p, up)
                        \/ ShrinkOverruns(k, p)
    BY <2>1
  <2>3. CASE ShrinkOverruns(k, p)
    <3>1. /\ broken' = "overrun of children"
          /\ UNCHANGED <<nodes, num_children, leaves, missed, wrapped>>
      BY <2>3 DEF ShrinkOverruns, Breaks, treeVars, history
    <3>2. ~(wrapped = FALSE)
      BY <1>1, <1>5, <2>2, <2>3, OverrunWrapped
    <3>3. Blamed'
      BY <3>1, <3>2 DEF Blamed
    <3> QED
      BY <1>1, <3>1, <3>3, FullSame
  <2>4. ASSUME DeleteChild(k, p) \/ Shrink(k, p, up) \/ Collapse(k, p, up)
        PROVE  Full'
    <3>1. LeafFreed(k)
      BY <2>4 DEF DeleteChild, Shrink, Collapse
    <3>2. Cardinality(DOMAIN leaves') <= NodesPerTier
      BY <1>1, <1>5, <3>1, LeafCounts
    <3>3. CASE DeleteChild(k, p) \/ Collapse(k, p, up)
      <4>1. FitNow' /\ CountsTyped'
        BY <1>1, <1>5, <2>2, <3>3, DeleteChildFits, CollapseFits
      <4>2. broken' = broken
        BY <3>3 DEF DeleteChild, Collapse
      <4> QED
        BY <1>1, <3>2, <4>1, <4>2 DEF Full, Blamed
    <3>4. CASE Shrink(k, p, up)
      <4>1. /\ FitNow' /\ CountsTyped'
            /\ broken' \in {"no", "hole"}
            /\ broken' = "hole" => ~(missed' = FALSE) \/ ~(wrapped' = FALSE)
        BY <1>1, <1>5, <2>2, <3>4, ShrinkFits
      <4>2. Blamed'
        BY <4>1 DEF Blamed
      <4> QED
        BY <3>2, <4>1, <4>2 DEF Full
    <3> QED
      BY <2>4, <3>3, <3>4
  <2> QED
    BY <2>2, <2>3, <2>4
<1> QED
  BY <1>2, <1>3, <1>4, <1>5, DeleteCases

LEMMA EmptyFull ==
  ASSUME nodes = <<>>, num_children = <<>>, leaves = <<>>, broken = "no"
  PROVE  Full
<1>1. DOMAIN nodes = {} /\ DOMAIN leaves = {} /\ num_children = [n \in {} |-> 0]
  OBVIOUS
<1>2. Cardinality({}) = 0
  BY FS_EmptySet
<1>3. NodesPerTier \in Nat
  BY Constants
<1>4. CountsTyped
  BY <1>1 DEF CountsTyped
<1> QED
  BY <1>1, <1>2, <1>3, <1>4 DEF Full, FitNow, Blamed

LEMMA StepFull == Sound /\ Full /\ [Next]_vars => Full'
<1> SUFFICES ASSUME Sound, Full, [Next]_vars
             PROVE  Full'
  OBVIOUS
<1>1. CASE Create \/ CreateOOM \/ UNCHANGED vars
  <2>1. UNCHANGED <<nodes, num_children, leaves, missed, wrapped, broken>>
    BY <1>1 DEF Create, CreateOOM, vars, treeVars, history
  <2>2. Cardinality(DOMAIN leaves') <= NodesPerTier
    BY <2>1 DEF Full
  <2> QED
    BY <2>1, <2>2, FullSame
<1>2. CASE Free
  <2>1. nodes' = <<>> /\ num_children' = <<>> /\ leaves' = <<>> /\ broken' = "no"
    BY <1>2 DEF Free, Called
  <2>2. /\ DOMAIN nodes' = {} /\ DOMAIN leaves' = {}
        /\ num_children' = [n \in {} |-> 0]
    BY <2>1
  <2>3. Cardinality({}) = 0 /\ NodesPerTier \in Nat
    BY FS_EmptySet, Constants
  <2>4. FitNow' /\ CountsTyped'
    BY <2>2 DEF FitNow, CountsTyped
  <2>5. Cardinality(DOMAIN leaves') <= NodesPerTier
    BY <2>2, <2>3
  <2> QED
    BY <2>1, <2>4, <2>5 DEF Full, Blamed
<1>3. CASE IterCall
  <2>1. PICK it \in Iters : NewIter(it) \/ IterNext(it) \/ IterFails(it) \/ FreeIter(it)
    BY <1>3 DEF IterCall
  <2>2. UNCHANGED <<nodes, num_children, leaves, missed, wrapped>>
    BY <2>1 DEF NewIter, IterNext, IterFails, FreeIter, IterStep, treeVars, history
  <2>3. broken = "no"
    BY <2>1 DEF NewIter, IterNext, IterFails, FreeIter, Called
  <2>4. broken' \in Hows
    <3>1. CASE IterFails(it) \/ FreeIter(it)
      BY <2>3, <3>1 DEF IterFails, FreeIter, Hows
    <3>2. PICK word : Tree(nodes, leaves, root, word)
      BY <2>3, SoundFacts DEF IsTree
    <3>3. CASE NewIter(it)
      <4>1. (IF root = NULL THEN <<>> ELSE << <<root, 0>> >>) \in Stacks
        BY <2>3, SoundFacts, RootStack
      <4>2. broken' = advance(IF root = NULL THEN <<>> ELSE << <<root, 0>> >>).how
        BY <3>3 DEF NewIter, IterStep
      <4> QED
        BY <3>2, <4>1, <4>2, AdvanceType
    <3>4. CASE IterNext(it)
      <4>1. iters[it].stack \in Stacks
        BY <3>4, ValidTyped DEF IterNext, Sound, ItersTyped, IsOpened
      <4>2. broken' = advance(iters[it].stack).how
        BY <3>4 DEF IterNext, IterStep
      <4> QED
        BY <3>2, <4>1, <4>2, AdvanceType
    <3> QED
      BY <2>1, <3>1, <3>3, <3>4
  <2>5. Blamed'
    BY <2>4 DEF Blamed, Hows
  <2>6. Cardinality(DOMAIN leaves') <= NodesPerTier
    BY <2>2 DEF Full
  <2> QED
    BY <2>2, <2>3, <2>5, <2>6, FullSame
<1>4. CASE \E k \in Keys : InsertCall(k) \/ DeleteCall(k)
  BY <1>4, InsertFull, DeleteFull
<1> QED
  BY <1>1, <1>2, <1>3, <1>4 DEF Next

(* The tree and the counts keep each other: a collapse keeps the tree      *)
(* because a NODE4 counts right, and the counts follow the edges.          *)
LEMMA SpecInvariant == Spec => [](Sound /\ Full)
<1>1. Init => Sound /\ Full
  BY InitSound, EmptyFull DEF Init
<1>2. Sound /\ Full /\ [Next]_vars => (Sound /\ Full)'
  BY StepSound, StepFull, FullCounts
<1> QED
  BY <1>1, <1>2, PTL DEF Spec

(* The nodes and leaves are a tree, whose words say what leads to what,    *)
(* until a deletion of an absent key has cut it.                           *)
THEOREM SpecSound == Spec => []Sound
<1>1. Sound /\ Full => Sound
  OBVIOUS
<1> QED
  BY <1>1, SpecInvariant, PTL

(* A search finds the keys bound, with their values, and no other.         *)
THEOREM SpecSearchExact == Spec => []SearchExact
<1>1. ASSUME Sound PROVE SearchExact
  <2>1. CASE broken = "lost"
    BY <1>1, <2>1 DEF Sound, SearchExact, LongPath
  <2>2. CASE broken # "lost"
    <3>1. PICK word : Tree(nodes, leaves, root, word)
      BY <1>1, <2>2 DEF Sound, IsTree
    <3>2. \A k \in Keys : Route(k).end = "found" <=> k \in DOMAIN leaves
      BY <3>1, RouteFinds
    <3> QED
      BY <2>2, <3>2 DEF SearchExact, cdsa_search_art
  <2> QED
    BY <2>1, <2>2
<1> QED
  BY <1>1, SpecSound, PTL

(* The tree is the map KVStore: every call changes its bindings as the map *)
(* does, and a call that fails, or leaves a node grown, not at all.        *)
THEOREM ArtImplementsKVStore == Spec => ImplementsKVStore
<1>1. Init => KV!Init
  BY DEF Init, KV!Init
<1>2. Sound /\ [Next]_vars => [KV!Next]_<<Bindings, status, FALSE>>
  BY StepSimulates DEF Bindings
<1> QED
  BY <1>1, <1>2, SpecSound, PTL DEF Spec, ImplementsKVStore, KV!Spec, Bindings

(* Every variable has its type, and nothing is leaked, shared or dangling. *)
THEOREM SpecTypeOK == Spec => []TypeOK
<1>1. ASSUME Sound, Full PROVE TypeOK
  <2>1. size \in Nat /\ size = Cardinality(DOMAIN leaves)
    BY <1>1, FS_CardinalityType DEF Sound, LeavesTyped
  <2>2. ASSUME broken # "lost"
        PROVE  /\ IF root = NULL THEN Pointers = {} ELSE Pointers = Below(root)
               /\ \A p \in DOMAIN nodes : \A i \in DOMAIN nodes[p].edges :
                    /\ nodes[p].edges[i][2] # root
                    /\ \A q \in DOMAIN nodes : \A j \in DOMAIN nodes[q].edges :
                         nodes[p].edges[i][2] = nodes[q].edges[j][2] => p = q /\ i = j
    <3>1. PICK word : Tree(nodes, leaves, root, word)
      BY <1>1, <2>2 DEF Sound, IsTree
    <3>2. root = NULL => Pointers = {}
      BY <3>1, NoPointers DEF Pointers
    <3> QED
      BY <3>1, <3>2, BelowRoot, PointersOnce
  <2>3. num_children \in [DOMAIN nodes -> 0 .. CountModulus - 1]
    BY <1>1 DEF Full, CountsTyped, Counts
  <2> QED
    BY <1>1, <2>1, <2>2, <2>3 DEF Sound, LeavesTyped, Addresses, Breakages, TypeOK
<1> QED
  BY <1>1, SpecInvariant, PTL

(* Every node has the edges and the count that its kind, and what has gone *)
(* wrong before, allow; what breaks for want of a child or of room has the *)
(* cause that the property names.                                          *)
THEOREM SpecNodesFit == Spec => []NodesFit
<1>1. ASSUME Sound, Full PROVE NodesFit
  <2>1. missed \in BOOLEAN /\ wrapped \in BOOLEAN
    BY <1>1 DEF Sound
  <2>2. broken # "lost" => IsTree
    BY <1>1 DEF Sound
  <2>3. ASSUME NEW p \in DOMAIN nodes
        PROVE  \A i, j \in DOMAIN nodes[p].edges :
                 nodes[p].edges[i][1] = nodes[p].edges[j][1] => i = j
    <3>1. Distinct(nodes[p].edges)
      BY <1>1, <2>2 DEF Full, Blamed, IsTree, Tree
    <3> QED
      BY <3>1 DEF Distinct
  <2>4. ASSUME NEW p \in DOMAIN nodes
        PROVE  LET t == Tier(p)
                   edges == nodes[p].edges
                   count == num_children[p]
               IN  /\ Len(edges) <= Fanout[t]
                   /\ t = 1 => Len(edges) >= 2
                   /\ t <= 2 /\ broken # "hole" => count = Len(edges)
                   /\ t <= 3 => Len(edges) <= count /\ count <= Fanout[t]
                   /\ ~wrapped => Len(edges) <= count
                   /\ t > 1 /\ ~missed /\ ~wrapped => count > Fanout[t - 1]
                   /\ t = 3 /\ ~missed /\ ~wrapped => count = Len(edges)
    <3>1. LenFits(Len(nodes[p].edges), Tier(p), num_children[p], missed, wrapped, broken)
      BY <1>1 DEF Full, FitNow, Fit
    <3>2. (~missed => missed = FALSE) /\ (~wrapped => wrapped = FALSE)
      BY <2>1
    <3> QED
      BY <3>1, <3>2 DEF LenFits
  <2>5. broken = "overrun of children" => wrapped
    BY <1>1, <2>1 DEF Full, Blamed
  <2>6. broken = "hole" => missed \/ wrapped
    BY <1>1, <2>1 DEF Full, Blamed
  <2>7. broken # "lost" /\ (\A p \in DOMAIN nodes : Len(nodes[p].edges) >= 2)
          => \A t \in Tiers : CanAlloc(t)
    BY <1>1, <2>2, PoolsNow DEF Full
  <2>8. broken = "no leaf" => \E p \in DOMAIN nodes : nodes[p].edges = <<>>
    BY <1>1 DEF Full, Blamed, Bare
  <2> QED
    BY <2>3, <2>4, <2>5, <2>6, <2>7, <2>8 DEF NodesFit
<1> QED
  BY <1>1, SpecInvariant, PTL
-----------------------------------------------------------------------------
(* Iterators.  What a frame has before it: its leaf, or the leaves below   *)
(* the edges of its node that it has not passed.                           *)
LeavesBelow(c) == {k \in DOMAIN leaves : c \in Up(nodes, leaves, Leaf(k))}
Owes(fr) ==
  IF IsLeaf(fr[1]) THEN {fr[1][2]}
  ELSE {k \in DOMAIN leaves :
          \E e \in Ahead(fr[1], fr[2]) : k \in LeavesBelow(nodes[fr[1]].edges[e][2])}

(* A frame that starts at c has before it all that is below c.             *)
LEMMA OwesAll ==
  ASSUME NEW word, Tree(nodes, leaves, root, word), NEW c \in Pointers
  PROVE  Owes(<<c, 0>>) = LeavesBelow(c)
<1>0. Shape(nodes, leaves) /\ Pointers = Ptrs(nodes, leaves)
  BY PointersAre DEF Tree
<1>1. CASE IsLeaf(c)
  <2>1. PICK l \in DOMAIN leaves : c = Leaf(l)
    BY <1>0, <1>1, ShapeFacts
  <2>2. Owes(<<c, 0>>) = {l}
    BY <1>1, <2>1, PtrFacts DEF Owes
  <2>3. l \in LeavesBelow(c)
    BY <1>0, <2>1, UpClosed, ShapeFacts DEF LeavesBelow
  <2>4. ASSUME NEW k \in LeavesBelow(c) PROVE k = l
    <3>1. Leaf(k) \in Ptrs(nodes, leaves) /\ c \in Up(nodes, leaves, Leaf(k))
      BY <1>0, ShapeFacts DEF LeavesBelow
    <3>2. c \notin DOMAIN nodes
      BY <1>0, <1>1, ShapeFacts
    <3>3. c = Leaf(k)
      BY <3>1, <3>2, UpChild
    <3> QED
      BY <2>1, <3>3, PtrFacts
  <2> QED
    BY <2>2, <2>3, <2>4
<1>2. CASE ~IsLeaf(c)
  <2>1. c \in DOMAIN nodes
    BY <1>0, <1>2, ShapeFacts
  <2>2. Ahead(c, 0) = DOMAIN nodes[c].edges
    <3>1. \A e \in DOMAIN nodes[c].edges : e \in Nat /\ e > 0
      BY <1>0, <2>1, EdgeFacts
    <3>2. \A e \in DOMAIN nodes[c].edges : nodes[c].edges[e][1] >= 0
      BY <1>0, <2>1, EdgeFacts DEF Bytes
    <3> QED
      BY <3>1, <3>2 DEF Ahead
  <2>3. Owes(<<c, 0>>) = {k \in DOMAIN leaves : \E e \in DOMAIN nodes[c].edges :
                             k \in LeavesBelow(nodes[c].edges[e][2])}
    BY <1>2, <2>2 DEF Owes
  <2>4. ASSUME NEW k \in DOMAIN leaves, NEW e \in DOMAIN nodes[c].edges,
               k \in LeavesBelow(nodes[c].edges[e][2])
        PROVE  k \in LeavesBelow(c)
    <3>1. Leaf(k) \in Ptrs(nodes, leaves)
      BY <1>0, ShapeFacts
    <3>2. Climbs(nodes, Up(nodes, leaves, Leaf(k)))
      BY <3>1, UpClosed
    <3>3. nodes[c].edges[e] \in Edges(nodes, c)
      BY <1>0, <2>1, EdgeFacts
    <3>4. nodes[c].edges[e][2] \in Up(nodes, leaves, Leaf(k))
      BY <2>4 DEF LeavesBelow
    <3> QED
      BY <2>1, <3>2, <3>3, <3>4 DEF Climbs, LeavesBelow
  <2>5. ASSUME NEW k \in LeavesBelow(c)
        PROVE  \E e \in DOMAIN nodes[c].edges : k \in LeavesBelow(nodes[c].edges[e][2])
    <3>1. k \in DOMAIN leaves /\ Leaf(k) \in Ptrs(nodes, leaves)
          /\ c \in Up(nodes, leaves, Leaf(k))
      BY <1>0, ShapeFacts DEF LeavesBelow
    <3>2. c # Leaf(k)
      BY <1>2, PtrFacts
    <3>3. PICK f \in Edges(nodes, c) : f[2] \in Up(nodes, leaves, Leaf(k))
      BY <3>1, <3>2, UpChild
    <3>4. PICK e \in DOMAIN nodes[c].edges : nodes[c].edges[e] = f
      BY <1>0, <2>1, EdgeFacts
    <3> QED
      BY <3>1, <3>3, <3>4 DEF LeavesBelow
  <2>6. LeavesBelow(c) \subseteq DOMAIN leaves
    BY DEF LeavesBelow
  <2> QED
    BY <2>3, <2>4, <2>5, <2>6
<1> QED
  BY <1>1, <1>2

(* Beyond the next edge is what is ahead but that edge.                    *)
LEMMA AheadOfNext ==
  ASSUME Shape(nodes, leaves), NEW p \in DOMAIN nodes, NEW i \in Nat,
         Tier(p) >= 3 => Sorted(nodes[p].edges), NextEdge(p, i) # 0
  PROVE  /\ Ahead(p, i) = Ahead(p, Beyond(p, NextEdge(p, i))) \cup {NextEdge(p, i)}
         /\ NextEdge(p, i) \notin Ahead(p, Beyond(p, NextEdge(p, i)))
<1> DEFINE e == NextEdge(p, i)
           es == nodes[p].edges
<1>1. e \in Ahead(p, i) /\ e \in DOMAIN es /\ \A f \in Ahead(p, i) : e <= f
  BY NextFacts
<1>2. Tier(p) \in 1 .. 4
  BY TierOf
<1>3. /\ \A f \in DOMAIN es : f \in Nat
      /\ \A f \in DOMAIN es : es[f][1] \in Nat
  BY EdgeFacts, Constants DEF Bytes
<1> HIDE DEF e
<1>4. CASE Tier(p) < 3
  <2>1. Beyond(p, e) = e /\ e > i
    BY <1>1, <1>4 DEF Beyond, Ahead
  <2>2. Ahead(p, i) = {f \in DOMAIN es : f > i}
    BY <1>4 DEF Ahead
  <2>3. Ahead(p, Beyond(p, e)) = {f \in DOMAIN es : f > e}
    BY <1>4, <2>1 DEF Ahead
  <2>4. ASSUME NEW f \in DOMAIN es PROVE f > i <=> f > e \/ f = e
    <3>1. f \in Nat /\ e \in Nat
      BY <1>1, <1>3
    <3>2. f > i => e <= f
      BY <1>1, <2>2
    <3> QED
      BY <2>1, <3>1, <3>2
  <2>5. ~(e > e)
    BY <1>1, <1>3
  <2> QED
    BY <1>1, <2>2, <2>3, <2>4, <2>5 DEF e
<1>5. CASE ~(Tier(p) < 3)
  <2>0. Sorted(es)
    BY <1>2, <1>5
  <2>1. Beyond(p, e) = es[e][1] + 1
    BY <1>5 DEF Beyond
  <2>2. Ahead(p, i) = {f \in DOMAIN es : es[f][1] >= i}
    BY <1>5 DEF Ahead
  <2>3. Ahead(p, Beyond(p, e)) = {f \in DOMAIN es : es[f][1] >= es[e][1] + 1}
    BY <1>5, <2>1 DEF Ahead
  <2>4. ASSUME NEW f \in DOMAIN es
        PROVE  es[f][1] >= i <=> es[f][1] >= es[e][1] + 1 \/ f = e
    <3>1. f \in Nat /\ e \in Nat /\ es[f][1] \in Nat /\ es[e][1] \in Nat
      BY <1>1, <1>3
    <3>2. es[f][1] >= i => e <= f
      BY <1>1, <2>2
    <3>3. e < f => es[e][1] < es[f][1]
      BY <1>1, <2>0 DEF Sorted
    <3>4. es[e][1] >= i
      BY <1>1, <2>2
    <3>5. es[f][1] >= i => es[f][1] >= es[e][1] + 1 \/ f = e
      BY <3>1, <3>2, <3>3
    <3>6. es[f][1] >= es[e][1] + 1 => es[f][1] >= i
      BY <3>1, <3>4
    <3>7. f = e => es[f][1] >= i
      BY <3>4
    <3> QED
      BY <3>5, <3>6, <3>7
  <2>5. ~(es[e][1] >= es[e][1] + 1)
    BY <1>1, <1>3
  <2> QED
    BY <1>1, <2>2, <2>3, <2>4, <2>5 DEF e
<1> QED
  BY <1>4, <1>5

(* A frame and the child it goes down to share what the frame had.         *)
LEMMA OwesSplit ==
  ASSUME NEW word, Tree(nodes, leaves, root, word), NEW p \in DOMAIN nodes, NEW i \in Nat,
         Tier(p) >= 3 => Sorted(nodes[p].edges), NextEdge(p, i) # 0
  PROVE  LET a == <<p, Beyond(p, NextEdge(p, i))>>
             b == <<nodes[p].edges[NextEdge(p, i)][2], 0>>
         IN  Owes(<<p, i>>) = Owes(a) \cup Owes(b) /\ Owes(a) \cap Owes(b) = {}
<1> DEFINE e == NextEdge(p, i)
           es == nodes[p].edges
           n == Beyond(p, e)
           c == es[e][2]
<1>1. Shape(nodes, leaves) /\ Distinct(es) /\ ~IsLeaf(p) /\ Pointers = Ptrs(nodes, leaves)
  BY ShapeFacts, PointersAre DEF Tree
<1>2. e \in DOMAIN es /\ c \in Pointers
  BY <1>1, NextFacts
<1>3. Ahead(p, i) = Ahead(p, n) \cup {e} /\ e \notin Ahead(p, n)
  BY <1>1, AheadOfNext
<1>4. Ahead(p, n) \subseteq DOMAIN es
  BY DEF Ahead
<1> HIDE DEF e, n
<1>5. Owes(<<c, 0>>) = LeavesBelow(c) /\ LeavesBelow(c) \subseteq DOMAIN leaves
  BY <1>2, OwesAll DEF LeavesBelow
<1>6. Owes(<<p, i>>) = {k \in DOMAIN leaves : \E f \in Ahead(p, i) : k \in LeavesBelow(es[f][2])}
  BY <1>1 DEF Owes
<1>7. Owes(<<p, n>>) = {k \in DOMAIN leaves : \E f \in Ahead(p, n) : k \in LeavesBelow(es[f][2])}
  BY <1>1 DEF Owes
<1>8. Owes(<<p, i>>) = Owes(<<p, n>>) \cup Owes(<<c, 0>>)
  <2> HIDE DEF c
  <2>1. c = es[e][2]
    BY DEF c
  <2> QED
    BY <1>3, <1>5, <1>6, <1>7, <2>1
<1>9. ASSUME NEW k, k \in Owes(<<p, n>>), k \in Owes(<<c, 0>>)
      PROVE  FALSE
  <2>1. PICK f \in Ahead(p, n) : k \in LeavesBelow(es[f][2])
    BY <1>7, <1>9
  <2>2. k \in LeavesBelow(es[e][2]) /\ k \in DOMAIN leaves
    BY <1>5, <1>9
  <2>3. Leaf(k) \in Ptrs(nodes, leaves)
    BY <1>1, <2>2, ShapeFacts
  <2>4. es[f] \in Edges(nodes, p) /\ es[e] \in Edges(nodes, p) /\ f \in DOMAIN es
    BY <1>1, <1>2, <1>4, EdgeFacts
  <2>5. es[f][2] \in Up(nodes, leaves, Leaf(k)) /\ es[e][2] \in Up(nodes, leaves, Leaf(k))
    BY <2>1, <2>2 DEF LeavesBelow
  <2>6. es[f] = es[e]
    BY <2>3, <2>4, <2>5, UpOneEdge
  <2>7. f = e
    BY <1>1, <1>2, <2>4, <2>6 DEF Distinct
  <2> QED
    BY <1>3, <2>7
<1> QED
  BY <1>8, <1>9 DEF e, n

(* An iterator half-way.  The keys G have been given, the frames have each *)
(* of the others before them once, and a node is as deep as its frame.     *)
Halfway(word, st, G) ==
  /\ G \subseteq DOMAIN leaves
  /\ \A j \in DOMAIN st : st[j][1] \in Pointers
  /\ \A j \in DOMAIN st : st[j][1] \in DOMAIN nodes => Len(word[st[j][1]]) >= j - 1
  /\ \A j \in DOMAIN st : Owes(st[j]) \subseteq DOMAIN leaves \ G
  /\ \A k \in DOMAIN leaves \ G : \E j \in DOMAIN st : k \in Owes(st[j])
  /\ \A i, j \in DOMAIN st : \A k \in Owes(st[i]) : k \in Owes(st[j]) => i = j

LEMMA TopFrame ==
  ASSUME NEW word, NEW st \in Stacks, st # <<>>, NEW G, Halfway(word, st, G)
  PROVE  /\ Len(st) \in Nat \ {0} /\ DOMAIN st = 1 .. Len(st) /\ Len(st) \in DOMAIN st
         /\ Last(st) = st[Len(st)] /\ Last(st) \in Frames /\ Last(st)[2] \in Nat
         /\ Last(st) = <<Last(st)[1], Last(st)[2]>>
         /\ Last(st)[1] \in Pointers
         /\ Front(st) \in Stacks /\ DOMAIN Front(st) = 1 .. Len(st) - 1
         /\ \A i \in 1 .. Len(st) - 1 : Front(st)[i] = st[i]
<1>1. /\ Front(st) \in Stacks /\ Last(st) \in Frames /\ Len(st) \in Nat \ {0}
      /\ Len(Front(st)) = Len(st) - 1 /\ Last(st) = st[Len(st)]
      /\ \A i \in 1 .. Len(st) - 1 : Front(st)[i] = st[i]
      /\ Last(st)[2] \in Nat
  BY StackParts
<1>2. DOMAIN st = 1 .. Len(st) /\ DOMAIN Front(st) = 1 .. Len(Front(st))
  BY <1>1 DEF Stacks
<1>3. Len(st) \in DOMAIN st
  BY <1>1, <1>2
<1>4. Last(st)[1] \in Pointers
  BY <1>1, <1>3 DEF Halfway
<1>5. Last(st) = <<Last(st)[1], Last(st)[2]>>
  BY <1>1 DEF Frames
<1> QED
  BY <1>1, <1>2, <1>3, <1>4, <1>5

(* The top frame goes, and what it had before it has been given.           *)
LEMMA HalfwayDrop ==
  ASSUME NEW word, NEW st \in Stacks, st # <<>>, NEW G, Halfway(word, st, G)
  PROVE  Halfway(word, Front(st), G \cup Owes(Last(st)))
<1> DEFINE n == Len(st)
           r == Front(st)
           H == G \cup Owes(Last(st))
<1>1. /\ n \in Nat \ {0} /\ DOMAIN st = 1 .. n /\ n \in DOMAIN st /\ Last(st) = st[n]
      /\ DOMAIN r = 1 .. n - 1 /\ \A i \in 1 .. n - 1 : r[i] = st[i]
  BY TopFrame
<1> HIDE DEF n, r
<1>2. \A j \in DOMAIN r : j \in DOMAIN st /\ r[j] = st[j] /\ j # n
  BY <1>1
<1>3. \A j \in DOMAIN st : j = n \/ j \in DOMAIN r
  BY <1>1
<1>4. H \subseteq DOMAIN leaves
  BY <1>1 DEF Halfway
<1>5. \A j \in DOMAIN r : Owes(r[j]) \subseteq DOMAIN leaves \ H
  BY <1>1, <1>2 DEF Halfway
<1>6. \A k \in DOMAIN leaves \ H : \E j \in DOMAIN r : k \in Owes(r[j])
  BY <1>1, <1>2, <1>3 DEF Halfway
<1>7. \A i, j \in DOMAIN r : \A k \in Owes(r[i]) : k \in Owes(r[j]) => i = j
  BY <1>2 DEF Halfway
<1>8. /\ \A j \in DOMAIN r : r[j][1] \in Pointers
      /\ \A j \in DOMAIN r : r[j][1] \in DOMAIN nodes => Len(word[r[j][1]]) >= j - 1
  BY <1>2 DEF Halfway
<1> HIDE DEF H
<1>9. Halfway(word, r, H)
  BY <1>4, <1>5, <1>6, <1>7, <1>8 DEF Halfway
<1> QED
  BY <1>9 DEF r, H

(* Another frame on top, with some of the keys that had been given.        *)
LEMMA HalfwayAdd ==
  ASSUME NEW word, NEW st \in Stacks, NEW fr \in Frames, NEW G, NEW H,
         Halfway(word, st, G), fr[1] \in Pointers,
         fr[1] \in DOMAIN nodes => Len(word[fr[1]]) >= Len(st),
         H \cup Owes(fr) = G, H \cap Owes(fr) = {}
  PROVE  Halfway(word, Append(st, fr), H)
<1> DEFINE n == Len(st)
           r == Append(st, fr)
<1>1. /\ n \in Nat /\ DOMAIN st = 1 .. n /\ DOMAIN r = 1 .. n + 1 /\ r[n + 1] = fr
      /\ \A i \in 1 .. n : r[i] = st[i]
  BY DEF Stacks
<1> HIDE DEF n, r
<1>2. \A j \in DOMAIN st : j \in DOMAIN r /\ r[j] = st[j] /\ j # n + 1
  BY <1>1
<1>3. n + 1 \in DOMAIN r /\ (n + 1) - 1 = n /\ \A j \in DOMAIN r : j = n + 1 \/ j \in DOMAIN st
  BY <1>1
<1>4. H \subseteq DOMAIN leaves
  BY DEF Halfway
<1>5. ASSUME NEW j \in DOMAIN r
      PROVE  /\ r[j][1] \in Pointers
             /\ r[j][1] \in DOMAIN nodes => Len(word[r[j][1]]) >= j - 1
             /\ Owes(r[j]) \subseteq DOMAIN leaves \ H
  <2>1. CASE j = n + 1
    BY <1>1, <1>3, <2>1 DEF Halfway, n
  <2>2. CASE j \in DOMAIN st
    BY <1>2, <2>2 DEF Halfway
  <2> QED
    BY <1>3, <2>1, <2>2
<1>6. ASSUME NEW k \in DOMAIN leaves \ H PROVE \E j \in DOMAIN r : k \in Owes(r[j])
  <2>1. CASE k \in Owes(fr)
    BY <1>1, <1>3, <2>1
  <2>2. CASE k \notin G
    BY <1>2, <2>2 DEF Halfway
  <2> QED
    BY <2>1, <2>2
<1>7. ASSUME NEW i \in DOMAIN r, NEW j \in DOMAIN r, NEW k \in Owes(r[i]), k \in Owes(r[j])
      PROVE  i = j
  <2>1. ASSUME NEW m \in DOMAIN st, k \in Owes(st[m]) PROVE k \notin Owes(fr)
    BY <2>1 DEF Halfway
  <2>2. CASE i = n + 1 /\ j \in DOMAIN st
    BY <1>1, <1>2, <1>7, <2>1, <2>2
  <2>3. CASE j = n + 1 /\ i \in DOMAIN st
    BY <1>1, <1>2, <1>7, <2>1, <2>3
  <2>4. CASE i \in DOMAIN st /\ j \in DOMAIN st
    BY <1>2, <1>7, <2>4 DEF Halfway
  <2> QED
    BY <1>3, <2>2, <2>3, <2>4
<1>8. Halfway(word, r, H)
  BY <1>4, <1>5, <1>6, <1>7 DEF Halfway
<1> QED
  BY <1>8 DEF r

(* What an iterator has on its stack before its first key.                 *)
LEMMA HalfwayStart ==
  ASSUME NEW word, Tree(nodes, leaves, root, word)
  PROVE  Halfway(word, IF root = NULL THEN <<>> ELSE << <<root, 0>> >>, {})
<1>0. Shape(nodes, leaves) /\ Pointers = Ptrs(nodes, leaves)
  BY PointersAre DEF Tree
<1>1. CASE root = NULL
  <2>1. DOMAIN leaves = {}
    BY <1>1, NoPointers
  <2> QED
    BY <1>1, <2>1 DEF Halfway
<1>2. CASE root # NULL
  <2> DEFINE st == << <<root, 0>> >>
  <2>1. root \in Pointers
    BY <1>0, <1>2 DEF Tree, OnePointer
  <2>2. Owes(<<root, 0>>) = LeavesBelow(root)
    BY <2>1, OwesAll
  <2>3. LeavesBelow(root) = DOMAIN leaves
    BY <1>0, ShapeFacts, UpRoot DEF LeavesBelow
  <2>4. DOMAIN st = {1} /\ st[1] = <<root, 0>> /\ st[1][1] = root
    OBVIOUS
  <2>5. root \in DOMAIN nodes => Len(word[root]) >= 1 - 1
    BY TreeFacts
  <2> HIDE DEF st
  <2>6. Halfway(word, st, {})
    BY <2>1, <2>2, <2>3, <2>4, <2>5 DEF Halfway
  <2> QED
    BY <1>2, <2>6 DEF st
<1> QED
  BY <1>1, <1>2

(* The top frame goes down to the next child.                              *)
LEMMA HalfwayPush ==
  ASSUME NEW word, Tree(nodes, leaves, root, word), FitNow, NEW st \in Stacks, st # <<>>,
         NEW G, Halfway(word, st, G), Last(st)[1] \in DOMAIN nodes, NextOf(st) # 0
  PROVE  Halfway(word, Pushed(st), G)
<1> DEFINE p == Last(st)[1]
           i == Last(st)[2]
           e == NextEdge(p, i)
           a == <<p, Beyond(p, e)>>
           c == nodes[p].edges[e][2]
           b == <<c, 0>>
           H == G \cup Owes(Last(st))
<1>1. /\ Len(st) \in Nat \ {0} /\ Last(st) = <<p, i>> /\ i \in Nat /\ Last(st) = st[Len(st)]
      /\ Len(st) \in DOMAIN st /\ Front(st) \in Stacks /\ DOMAIN Front(st) = 1 .. Len(st) - 1
  BY TopFrame
<1>2. Shape(nodes, leaves) /\ Pointers = Ptrs(nodes, leaves)
  BY PointersAre DEF Tree
<1>3. /\ a \in Frames /\ b \in Frames /\ c \in Ptrs(nodes, leaves)
      /\ Append(Front(st), a) \in Stacks
      /\ Pushed(st) = Append(Append(Front(st), a), b)
  BY <1>2, PushFacts DEF NextOf
<1>4. Tier(p) >= 3 => Sorted(nodes[p].edges)
  BY DEF FitNow, Fit
<1>5. Owes(Last(st)) = Owes(a) \cup Owes(b) /\ Owes(a) \cap Owes(b) = {}
  BY <1>1, <1>4, OwesSplit DEF NextOf
<1>6. nodes[p].edges[e] \in Edges(nodes, p)
  BY <1>1, <1>2, NextFacts DEF NextOf
<1>7. c \in DOMAIN nodes => Len(word[p]) < Len(word[c])
  BY <1>6, TreeFacts
<1>8. Len(word[p]) \in Nat /\ (c \in DOMAIN nodes => Len(word[c]) \in Nat)
  BY TreeFacts
<1>9. Len(word[p]) >= Len(st) - 1
  BY <1>1 DEF Halfway
<1>10. Halfway(word, Front(st), H)
  BY HalfwayDrop
<1>11. G \cap Owes(Last(st)) = {}
  BY <1>1 DEF Halfway
<1>12. a[1] = p /\ b[1] = c
  OBVIOUS
<1> HIDE DEF a, b, c, p, e, i
<1>13. Len(Front(st)) = Len(st) - 1 /\ Len(Append(Front(st), a)) = Len(st)
  BY <1>1, <1>3 DEF Stacks
<1>14. p \in Pointers /\ p \in DOMAIN nodes
  BY <1>2 DEF p, Ptrs
<1>15. Halfway(word, Append(Front(st), a), G \cup Owes(b))
  <2>1. (G \cup Owes(b)) \cup Owes(a) = H /\ (G \cup Owes(b)) \cap Owes(a) = {}
    BY <1>5, <1>11
  <2> HIDE DEF H
  <2> QED
    BY <1>1, <1>3, <1>9, <1>10, <1>12, <1>13, <1>14, <2>1, HalfwayAdd
<1>16. Halfway(word, Append(Append(Front(st), a), b), G)
  <2>1. G \cap Owes(b) = {}
    BY <1>5, <1>11
  <2>2. c \in DOMAIN nodes => Len(word[c]) >= Len(st)
    BY <1>1, <1>7, <1>8, <1>9
  <2> QED
    BY <1>2, <1>3, <1>12, <1>13, <1>15, <2>1, <2>2, HalfwayAdd
<1> QED
  BY <1>3, <1>16

(* The top frame has passed its last edge.                                 *)
LEMMA HalfwayPop ==
  ASSUME NEW word, Tree(nodes, leaves, root, word), NEW st \in Stacks, st # <<>>,
         NEW G, Halfway(word, st, G), Last(st)[1] \in DOMAIN nodes, NextOf(st) = 0
  PROVE  Halfway(word, Front(st), G)
<1>1. Shape(nodes, leaves) /\ Last(st)[2] \in Nat
  BY TopFrame DEF Tree
<1>2. Ahead(Last(st)[1], Last(st)[2]) = {}
  BY <1>1, NextFacts DEF NextOf
<1>3. Owes(Last(st)) = {}
  BY <1>1, <1>2, ShapeFacts DEF Owes
<1>4. Halfway(word, Front(st), G \cup Owes(Last(st)))
  BY HalfwayDrop
<1>5. G \cup Owes(Last(st)) = G
  BY <1>3
<1> QED
  BY <1>4, <1>5

(* The iterator meets a leaf.                                              *)
LEMMA HalfwayHit ==
  ASSUME NEW word, Tree(nodes, leaves, root, word), NEW st \in Stacks, st # <<>>,
         NEW G, Halfway(word, st, G), IsLeaf(Last(st)[1])
  PROVE  \E k \in DOMAIN leaves \ G :
           Last(st)[1] = Leaf(k) /\ Halfway(word, Front(st), G \cup {k})
<1>1. /\ Last(st)[1] \in Ptrs(nodes, leaves) /\ Shape(nodes, leaves)
      /\ Len(st) \in DOMAIN st /\ Last(st) = st[Len(st)]
  BY TopFrame, PointersAre DEF Tree
<1>2. PICK k \in DOMAIN leaves : Last(st)[1] = Leaf(k)
  BY <1>1, ShapeFacts
<1>3. Owes(Last(st)) = {k}
  BY <1>2, PtrFacts DEF Owes
<1>4. k \in DOMAIN leaves \ G
  BY <1>1, <1>3 DEF Halfway
<1>5. Halfway(word, Front(st), G \cup {k})
  BY <1>3, HalfwayDrop
<1> QED
  BY <1>2, <1>4, <1>5

(* The stack is too small only for a tree with a key as long, or with a    *)
(* node that has no leaf below.                                            *)
LongKey == \E k \in DOMAIN leaves : Len(k) + 1 >= ART_MAX_DEPTH
LEMMA HalfwayOverrun ==
  ASSUME NEW word, Tree(nodes, leaves, root, word),
         NEW st \in Stacks, st # <<>>, NEW G, Halfway(word, st, G),
         Last(st)[1] \in DOMAIN nodes, Len(st) = ART_MAX_DEPTH
  PROVE  Bare \/ LongKey
<1> DEFINE p == Last(st)[1]
<1> SUFFICES ASSUME ~Bare PROVE LongKey
  OBVIOUS
<1>1. /\ p \in Pointers /\ Len(st) \in DOMAIN st /\ Last(st) = st[Len(st)]
      /\ Len(st) \in Nat
  BY TopFrame
<1>2. \A q \in DOMAIN nodes : nodes[q].edges # <<>>
  BY DEF Bare
<1>3. find_minimum_leaf(p) # NULL
  BY <1>1, <1>2, FirstExists
<1> DEFINE l == find_minimum_leaf(p)
<1>4. l \in LeavesOf(leaves)
  BY <1>1, <1>3, FirstFacts
<1>5. l[2] \in Words /\ Agree(Word(word, p), l[2])
  BY <1>1, <1>3, FirstGoesOn
<1>6. PICK k \in DOMAIN leaves : l[2] = k
  BY <1>4, PtrFacts DEF LeavesOf
<1>7. Word(word, p) = word[p] /\ word[p] \in Words /\ Len(word[p]) \in Nat
  BY TreeFacts
<1>8. Len(word[p]) <= Len(k) /\ Len(k) \in Nat
  BY <1>5, <1>6, <1>7, AgreeLen DEF Words
<1>9. Len(word[p]) >= Len(st) - 1
  BY <1>1 DEF Halfway
<1>10. Len(k) + 1 >= ART_MAX_DEPTH
  <2> HIDE DEF p, l
  <2> QED
    BY <1>1, <1>7, <1>8, <1>9
<1> QED
  BY <1>10 DEF LongKey

(* Where a walk from half-way ends: at a key not given yet, or after all.  *)
WalkExact(word, w, G) ==
  /\ w.how \in {"no", "overrun"} /\ w.stack \in Stacks
  /\ w.how = "overrun" => Bare \/ LongKey
  /\ w.how = "no" /\ w.hit = NULL => G = DOMAIN leaves
  /\ w.how = "no" /\ w.hit # NULL =>
       \E k \in DOMAIN leaves \ G : w.hit = Leaf(k) /\ Halfway(word, w.stack, G \cup {k})
LEMMA AdvanceExact ==
  ASSUME NEW word, Tree(nodes, leaves, root, word), FitNow,
         NEW st \in Stacks, NEW G, Halfway(word, st, G)
  PROVE  WalkExact(word, advance(st), G)
<1> DEFINE A == {s \in Stacks : Halfway(word, s, G)}
           X == {w \in {AdvRes[s] : s \in Stacks} : WalkExact(word, w, G)}
<1>0. Shape(nodes, leaves) /\ Pointers = Ptrs(nodes, leaves)
  BY PointersAre DEF Tree
<1>1. ASSUME NEW s \in Stacks, Halfway(word, s, G), s # <<>>
      PROVE  ~IsLeaf(Last(s)[1]) => Last(s)[1] \in DOMAIN nodes
  BY <1>0, <1>1, TopFrame, ShapeFacts
<1>2. ASSUME NEW s \in A, s \in AdvEnds PROVE AdvRes[s] \in X
  <2>0. s \in Stacks /\ Halfway(word, s, G)
    OBVIOUS
  <2>1. CASE s = <<>>
    <3>1. AdvRes[s] = Ended(s, NULL, "no")
      BY <2>0, <2>1 DEF AdvRes
    <3>2. G = DOMAIN leaves
      <4>1. DOMAIN s = {}
        BY <2>1
      <4>2. G \subseteq DOMAIN leaves /\ DOMAIN leaves \ G = {}
        BY <2>0, <4>1 DEF Halfway
      <4> QED
        BY <4>2
    <3> QED
      BY <2>0, <3>1, <3>2 DEF Ended, WalkExact
  <2>2. CASE s # <<>> /\ IsLeaf(Last(s)[1])
    <3>1. AdvRes[s] = Ended(Front(s), Last(s)[1], "no")
      BY <2>0, <2>2 DEF AdvRes
    <3>2. PICK k \in DOMAIN leaves \ G :
            Last(s)[1] = Leaf(k) /\ Halfway(word, Front(s), G \cup {k})
      BY <2>0, <2>2, HalfwayHit
    <3>3. Front(s) \in Stacks
      BY <2>0, <2>2, StackParts
    <3>4. Leaf(k) # NULL
      BY <1>0, ShapeFacts
    <3>5. WalkExact(word, Ended(Front(s), Last(s)[1], "no"), G)
      BY <3>2, <3>3, <3>4 DEF Ended, WalkExact
    <3> QED
      BY <2>0, <3>1, <3>5
  <2>3. CASE s # <<>> /\ ~IsLeaf(Last(s)[1])
    <3>1. Last(s)[1] \in DOMAIN nodes
      BY <1>1, <2>0, <2>3
    <3>2. AdvRes[s] = Ended(s, NULL, "overrun")
      BY <2>0, <2>3, <3>1 DEF AdvRes
    <3>3. Len(s) = ART_MAX_DEPTH
      BY <1>2, <2>3, <3>1 DEF AdvEnds
    <3>4. Bare \/ LongKey
      BY <2>0, <2>3, <3>1, <3>3, HalfwayOverrun
    <3> QED
      BY <2>0, <3>2, <3>4 DEF Ended, WalkExact
  <2> QED
    BY <2>1, <2>2, <2>3
<1>3. ASSUME NEW s \in A, s \notin AdvEnds PROVE AdvNext[s] \in A
  <2>0. s \in Stacks /\ Halfway(word, s, G) /\ AdvNext[s] \in Stacks
    BY <1>0, <1>3, AdvanceRecursion
  <2>1. s # <<>> /\ Last(s)[1] \in DOMAIN nodes
    BY <1>3 DEF AdvEnds
  <2>2. CASE NextOf(s) = 0
    <3>1. AdvNext[s] = Front(s)
      BY <2>0, <2>2 DEF AdvNext
    <3> QED
      BY <2>0, <2>1, <2>2, <3>1, HalfwayPop
  <2>3. CASE NextOf(s) # 0
    <3>1. AdvNext[s] = Pushed(s)
      BY <2>0, <2>3 DEF AdvNext
    <3> QED
      BY <2>0, <2>1, <2>3, <3>1, HalfwayPush
  <2> QED
    BY <2>2, <2>3
<1>4. st \in A /\ A \in SUBSET Stacks
  OBVIOUS
<1>5. advance(st) \in X
  <2> HIDE DEF A, X
  <2> QED
    BY <1>2, <1>3, <1>4, AdvanceInduction
<1> QED
  BY <1>5

(* The invariant of the iterators.                                         *)
Watched(i) == i.open /\ i.valid /\ ~i.moved
Yields(word, i) ==
  IF i.next = NoValue THEN i.seen = DOMAIN leaves
  ELSE \E k \in DOMAIN leaves \ i.seen :
         /\ i.due = Leaf(k) /\ i.next = leaves[k]
         /\ Halfway(word, i.stack, i.seen \cup {k})
AllYield(word) == \A it \in Iters : Watched(iters[it]) => Yields(word, iters[it])
SomeMoved == \E it \in Iters : iters[it].open /\ iters[it].moved
Walks ==
  /\ broken = "no" => \E word : Tree(nodes, leaves, root, word) /\ AllYield(word)
  /\ broken = "stale" => SomeMoved
  /\ broken = "overrun" => LongKey \/ Bare \/ SomeMoved

(* A step of an iterator from half-way.                                    *)
LEMMA StepYields ==
  ASSUME NEW word, Tree(nodes, leaves, root, word), FitNow,
         LeavesTyped(leaves), NEW st \in Stacks, NEW G, Halfway(word, st, G)
  PROVE  LET w == advance(st)
             i == IterAt(w, G, FALSE)
         IN  /\ w.how \in {"no", "overrun"}
             /\ w.how = "overrun" => Bare \/ LongKey
             /\ w.how = "no" => Yields(word, i)
<1> DEFINE w == advance(st)
           i == IterAt(w, G, FALSE)
<1>1. WalkExact(word, w, G)
  BY AdvanceExact
<1>2. /\ i.seen = G /\ i.stack = w.stack /\ i.due = w.hit
      /\ i.next = IF w.hit = NULL THEN NoValue ELSE leaves[w.hit[2]]
  <2>1. w.stack \in Stacks
    BY <1>1 DEF WalkExact
  <2> HIDE DEF w
  <2>2. /\ i.seen = G /\ i.stack = w.stack /\ i.due = IF FALSE THEN NULL ELSE w.hit
        /\ i.next = IF w.hit = NULL THEN NoValue ELSE leaves[w.hit[2]]
    BY DEF IterAt
  <2> QED
    BY <2>2
<1> HIDE DEF w, i
<1>3. ASSUME w.how = "no" PROVE Yields(word, i)
  <2>1. CASE w.hit = NULL
    BY <1>1, <1>2, <1>3, <2>1 DEF WalkExact, Yields
  <2>2. CASE w.hit # NULL
    <3>1. PICK k \in DOMAIN leaves \ G :
            w.hit = Leaf(k) /\ Halfway(word, w.stack, G \cup {k})
      BY <1>1, <1>3, <2>2 DEF WalkExact
    <3>2. i.next = leaves[k]
      BY <1>2, <2>2, <3>1, PtrFacts
    <3>3. i.next # NoValue
      BY <3>1, <3>2, ArtAssumption DEF LeavesTyped
    <3> QED
      BY <1>2, <3>1, <3>2, <3>3 DEF Yields
  <2> QED
    BY <2>1, <2>2
<1> QED
  BY <1>1, <1>3 DEF WalkExact, w, i

(* A call that leaves the tree alone, and every watched iterator.          *)
LEMMA SameWalks ==
  ASSUME Walks, UNCHANGED <<root, nodes, leaves>>, broken = "no",
         broken' \in {"no", "free of a block", "no leaf"},
         \A it \in Iters : Watched(iters'[it]) => iters'[it] = iters[it]
  PROVE  Walks'
<1>1. PICK word : Tree(nodes, leaves, root, word) /\ AllYield(word)
  BY DEF Walks
<1>2. Tree(nodes', leaves', root', word)
  BY <1>1
<1>3. ASSUME NEW it \in Iters, Watched(iters[it])' PROVE Yields(word, iters[it])'
  <2>1. iters'[it] = iters[it] /\ Watched(iters[it])
    BY <1>3
  <2>2. Yields(word, iters[it])
    BY <1>1, <2>1 DEF AllYield
  <2>3. \A c : LeavesBelow(c)' = LeavesBelow(c)
    BY DEF LeavesBelow
  <2>4. \A p, i : Ahead(p, i)' = Ahead(p, i)
    BY DEF Ahead
  <2>5. \A fr : Owes(fr)' = Owes(fr)
    BY <2>3, <2>4 DEF Owes
  <2>6. Pointers' = Pointers
    BY DEF Pointers
  <2>7. \A st, G : Halfway(word, st, G)' <=> Halfway(word, st, G)
    BY <2>5, <2>6 DEF Halfway
  <2> QED
    BY <2>1, <2>2, <2>7 DEF Yields
<1>4. AllYield(word)'
  BY <1>3 DEF AllYield
<1> QED
  BY <1>2, <1>4 DEF Walks

(* A call that changes the tree leaves no iterator to be watched.          *)
LEMMA NoneWatched ==
  ASSUME IsTree', broken' = "no", \A it \in Iters : ~Watched(iters'[it])
  PROVE  Walks'
BY DEF Walks, AllYield, IsTree

LEMMA OutdatedOrMoved ==
  ASSUME Sound, iters' = Outdated \/ iters' = Moved, NEW it \in Iters
  PROVE  ~Watched(iters'[it])
<1>1. ItersTyped(iters)
  BY DEF Sound
<1>2. CASE iters' = Outdated
  <2>1. iters'[it] = NoIter \/ iters'[it] = Stale
    BY <1>2, OutdatedTyped
  <2> QED
    BY <2>1, ClosedFacts DEF Watched
<1>3. CASE iters' = Moved
  BY <1>1, <1>3, MovedTyped DEF Watched
<1> QED
  BY <1>2, <1>3

LEMMA StillWalks ==
  ASSUME Walks, UNCHANGED vars
  PROVE  Walks'
<1>1. CASE broken = "no"
  BY <1>1, SameWalks DEF vars, treeVars
<1>2. CASE broken # "no"
  BY <1>2 DEF Walks, vars, treeVars, SomeMoved, LongKey, Bare
<1> QED
  BY <1>1, <1>2

LEMMA IterStepWalks ==
  ASSUME Sound, Full, Walks, broken = "no", NEW it \in Iters, NEW st \in Stacks, NEW seen,
         NEW moved \in BOOLEAN, IterStep(it, advance(st), seen, moved),
         \A word : Tree(nodes, leaves, root, word) /\ AllYield(word) =>
                     moved \/ Halfway(word, st, seen)
  PROVE  Walks'
<1> DEFINE w == advance(st)
           i == IterAt(w, seen, moved)
<1>1. PICK word : Tree(nodes, leaves, root, word) /\ AllYield(word)
  BY DEF Walks
<1>2. /\ iters' = [iters EXCEPT ![it] = i] /\ broken' = w.how
      /\ UNCHANGED <<root, nodes, leaves>>
  BY DEF IterStep, treeVars
<1>3. DOMAIN iters = Iters /\ LeavesTyped(leaves) /\ FitNow
  BY DEF Sound, ItersTyped, Full
<1>4. i.open = TRUE /\ i.valid = TRUE /\ i.moved = moved
  BY DEF IterAt
<1>5. w.how \in Hows
  BY <1>1, AdvanceType
<1>6. moved = FALSE =>
        /\ w.how \in {"no", "overrun"}
        /\ w.how = "overrun" => Bare \/ LongKey
        /\ w.how = "no" => Yields(word, i)
  <2>1. moved = FALSE => Halfway(word, st, seen)
    BY <1>1
  <2> QED
    BY <1>1, <1>3, <2>1, StepYields
<1> HIDE DEF w, i
<1>7. iters'[it] = i /\ \A x \in Iters : x # it => iters'[x] = iters[x]
  BY <1>2, <1>3
<1>8. moved = TRUE => SomeMoved'
  BY <1>4, <1>7 DEF SomeMoved
<1>9. \A v : \A j : Yields(v, j)' <=> Yields(v, j)
  <2>1. \A c : LeavesBelow(c)' = LeavesBelow(c)
    BY <1>2 DEF LeavesBelow
  <2>2. \A p, n : Ahead(p, n)' = Ahead(p, n)
    BY <1>2 DEF Ahead
  <2>3. \A fr : Owes(fr)' = Owes(fr)
    BY <1>2, <2>1, <2>2 DEF Owes
  <2>4. Pointers' = Pointers
    BY <1>2 DEF Pointers
  <2>5. \A v, s, G : Halfway(v, s, G)' <=> Halfway(v, s, G)
    BY <1>2, <2>3, <2>4 DEF Halfway
  <2> QED
    BY <1>2, <2>5 DEF Yields
<1>10. ASSUME w.how = "no", NEW x \in Iters, Watched(iters[x])'
       PROVE  Yields(word, iters[x])'
  <2>1. CASE x = it
    <3>1. moved = FALSE
      BY <1>4, <1>7, <1>10, <2>1 DEF Watched
    <3>2. Yields(word, i)
      BY <1>6, <1>10, <3>1
    <3>3. Yields(word, iters'[x])
      BY <1>7, <2>1, <3>2
    <3> QED
      BY <1>9, <3>3
  <2>2. CASE x # it
    <3>1. iters'[x] = iters[x] /\ Watched(iters[x])
      BY <1>7, <1>10, <2>2
    <3>2. Yields(word, iters'[x])
      BY <1>1, <3>1 DEF AllYield
    <3> QED
      BY <1>9, <3>2
  <2> QED
    BY <2>1, <2>2
<1>11. w.how = "no" => AllYield(word)'
  BY <1>10 DEF AllYield
<1>12. Tree(nodes', leaves', root', word)
  BY <1>1, <1>2
<1>13. LongKey' = LongKey /\ Bare' = Bare
  BY <1>2 DEF LongKey, Bare
<1> QED
  BY <1>2, <1>5, <1>6, <1>8, <1>11, <1>12, <1>13 DEF Walks, Hows

LEMMA IterCallWalks ==
  ASSUME Sound, Full, Walks, NEW it \in Iters,
         NewIter(it) \/ IterNext(it) \/ IterFails(it) \/ FreeIter(it)
  PROVE  Walks'
<1>1. broken = "no"
  BY DEF NewIter, IterNext, IterFails, FreeIter, Called
<1>2. IterTyped(iters[it]) /\ DOMAIN iters = Iters
  BY DEF Sound, ItersTyped
<1>3. CASE NewIter(it)
  <2> DEFINE st == IF root = NULL THEN <<>> ELSE << <<root, 0>> >>
  <2>1. st \in Stacks
    BY <1>1, SoundFacts, RootStack
  <2>2. \A word : Tree(nodes, leaves, root, word) => Halfway(word, st, {})
    BY HalfwayStart
  <2>3. IterStep(it, advance(st), {}, FALSE)
    BY <1>3 DEF NewIter
  <2> HIDE DEF st
  <2> QED
    BY <1>1, <2>1, <2>2, <2>3, IterStepWalks
<1>4. CASE IterNext(it)
  <2> DEFINE i == iters[it]
             seen == IF i.moved THEN {} ELSE i.seen \cup {i.due[2]}
  <2>1. IsOpened(i) /\ i.next # NoValue
    BY <1>2, <1>4, ValidTyped DEF IterNext
  <2>2. i.stack \in Stacks /\ i.moved \in BOOLEAN /\ i.open = TRUE /\ i.valid = TRUE
    BY <2>1 DEF IsOpened
  <2>3. IterStep(it, advance(i.stack), seen, i.moved)
    BY <1>4 DEF IterNext
  <2>4. ASSUME NEW word, AllYield(word), i.moved = FALSE
        PROVE  Halfway(word, i.stack, seen)
    <3>1. Yields(word, i)
      BY <2>2, <2>4 DEF AllYield, Watched
    <3>2. PICK k \in DOMAIN leaves \ i.seen :
            i.due = Leaf(k) /\ Halfway(word, i.stack, i.seen \cup {k})
      BY <2>1, <3>1 DEF Yields
    <3>3. i.due[2] = k
      BY <3>2, PtrFacts
    <3>4. seen = i.seen \cup {k}
      BY <2>4, <3>3
    <3> QED
      BY <3>2, <3>4
  <2> HIDE DEF i, seen
  <2> QED
    BY <1>1, <2>2, <2>3, <2>4, IterStepWalks
<1>5. CASE IterFails(it)
  BY <1>1, <1>5, SameWalks DEF IterFails, treeVars
<1>6. CASE FreeIter(it)
  <2>1. /\ iters' = [iters EXCEPT ![it] = NoIter]
        /\ UNCHANGED <<root, nodes, leaves, broken>>
    BY <1>6 DEF FreeIter, treeVars
  <2>2. ASSUME NEW x \in Iters, Watched(iters'[x]) PROVE iters'[x] = iters[x]
    BY <1>2, <2>1, <2>2, ClosedFacts DEF Watched
  <2> QED
    BY <1>1, <2>1, <2>2, SameWalks
<1> QED
  BY <1>3, <1>4, <1>5, <1>6

(* A call that leaves a tree without watching it.                          *)
LEMMA InsertWalks ==
  ASSUME Sound, Walks, NEW k \in Keys, InsertCall(k), Sound'
  PROVE  Walks'
<1>1. /\ broken = "no"
      /\ \/ InsertOOM(Descend(k))
         \/ GrowInVain(Descend(k))
         \/ \E why \in {"free of a block", "no leaf"} : Breaks(why)
         \/ \E v \in Values : Overwrite(k, v, Descend(k)) \/ NewLeaf(k, v)
  BY InsertCases
<1>2. CASE InsertOOM(Descend(k))
  BY <1>1, <1>2, SameWalks DEF InsertOOM, treeVars
<1>3. CASE \E why \in {"free of a block", "no leaf"} : Breaks(why)
  BY <1>1, <1>3, SameWalks DEF Breaks, treeVars
<1>4. CASE GrowInVain(Descend(k)) \/ \E v \in Values : Overwrite(k, v, Descend(k)) \/ NewLeaf(k, v)
  <2>1. broken' = "no" /\ (iters' = Outdated \/ iters' = Moved)
    BY <1>1, <1>4 DEF GrowInVain, Overwrite, NewLeaf
  <2>2. IsTree'
    BY <2>1 DEF Sound
  <2> QED
    BY <2>1, <2>2, OutdatedOrMoved, NoneWatched
<1> QED
  BY <1>1, <1>2, <1>3, <1>4

LEMMA DeleteWalks ==
  ASSUME Sound, Walks, NEW k \in Keys, DeleteCall(k), Sound'
  PROVE  Walks'
<1>1. /\ broken = "no"
      /\ \/ DeleteAbsent
         \/ \E x, p : DeletePast(x, p)
         \/ Breaks("overrun of children")
         \/ LeafFreed(k) /\ broken' \in {"no", "hole"}
  <2>1. broken = "no"
    BY DeleteCases
  <2>2. \A p, up : DeleteChild(k, p) \/ Shrink(k, p, up) \/ Collapse(k, p, up) =>
                     LeafFreed(k) /\ broken' \in {"no", "hole"}
    BY <2>1 DEF DeleteChild, Shrink, Collapse
  <2>3. DeleteRoot(k) => LeafFreed(k) /\ broken' = "no"
    BY <2>1 DEF DeleteRoot
  <2>4. \A p : ShrinkOverruns(k, p) => Breaks("overrun of children")
    BY DEF ShrinkOverruns
  <2> QED
    BY <2>1, <2>2, <2>3, <2>4, DeleteCases
<1>2. CASE DeleteAbsent
  BY <1>1, <1>2, SameWalks DEF DeleteAbsent, treeVars
<1>3. CASE \E x, p : DeletePast(x, p)
  <2>1. broken' = "lost"
    BY <1>3 DEF DeletePast
  <2> QED
    BY <2>1 DEF Walks
<1>4. CASE Breaks("overrun of children")
  BY <1>4 DEF Breaks, Walks
<1>5. CASE LeafFreed(k) /\ broken' \in {"no", "hole"}
  <2>1. iters' = Moved
    BY <1>5 DEF LeafFreed
  <2>2. CASE broken' = "no"
    <3>1. IsTree'
      BY <2>2 DEF Sound
    <3> QED
      BY <2>1, <2>2, <3>1, OutdatedOrMoved, NoneWatched
  <2>3. CASE broken' = "hole"
    BY <2>3 DEF Walks
  <2> QED
    BY <1>5, <2>2, <2>3
<1> QED
  BY <1>1, <1>2, <1>3, <1>4, <1>5

LEMMA StepWalks == Sound /\ Full /\ Walks /\ [Next]_vars => Walks'
<1> SUFFICES ASSUME Sound, Full, Walks, [Next]_vars
             PROVE  Walks'
  OBVIOUS
<1>0. Sound'
  BY StepSound, FullCounts
<1>1. CASE UNCHANGED vars
  BY <1>1, StillWalks
<1>2. CASE Create
  BY <1>2, SameWalks DEF Create, treeVars
<1>3. CASE Free
  <2>1. /\ broken' = "no" /\ iters' = iters /\ \A it \in Iters : ~iters[it].open
    BY <1>3 DEF Free, Called
  <2>2. IsTree'
    BY <1>0, <2>1 DEF Sound
  <2>3. \A it \in Iters : ~Watched(iters'[it])
    BY <2>1 DEF Watched
  <2> QED
    BY <2>1, <2>2, <2>3, NoneWatched
<1>4. CASE IterCall
  BY <1>4, IterCallWalks DEF IterCall
<1>5. CASE \E k \in Keys : InsertCall(k) \/ DeleteCall(k)
  BY <1>0, <1>5, InsertWalks, DeleteWalks
<1> QED
  BY <1>1, <1>2, <1>3, <1>4, <1>5 DEF Next, CreateOOM

(* An iterator whose version check passes and under which no node has      *)
(* moved yields every key once, with the value it has; it reads a freed    *)
(* block only after nodes moved, and leaves its stack only then, with a    *)
(* long key, or with a node without children in the tree.                  *)
THEOREM SpecIteratorExact == Spec => []IteratorExact
<1>1. Init => Walks
  <2> SUFFICES ASSUME Init PROVE Walks
    OBVIOUS
  <2>1. broken = "no" /\ IsTree
    BY InitSound, SoundFacts DEF Init
  <2>2. \A it \in Iters : ~Watched(iters[it])
    BY ClosedFacts DEF Init, Watched
  <2> QED
    BY <2>1, <2>2 DEF Walks, AllYield, IsTree
<1>2. ASSUME Walks PROVE IteratorExact
  <2>1. ASSUME NEW it \in Iters, iters[it].open, iters[it].valid, ~iters[it].moved,
               broken = "no"
        PROVE  LET i == iters[it] IN
               IF i.next = NoValue THEN i.seen = DOMAIN leaves
               ELSE i.due[2] \in DOMAIN leaves \ i.seen /\ i.next = leaves[i.due[2]]
    <3>1. \E word : Yields(word, iters[it])
      BY <1>2, <2>1 DEF Walks, AllYield, Watched
    <3> QED
      BY <3>1, PtrFacts DEF Yields
  <2>2. broken = "stale" => \E it \in Iters : iters[it].open /\ iters[it].moved
    BY <1>2 DEF Walks, SomeMoved
  <2>3. broken = "overrun" => \/ \E k \in DOMAIN leaves : Len(k) + 1 >= ART_MAX_DEPTH
                              \/ \E p \in DOMAIN nodes : nodes[p].edges = <<>>
                              \/ \E it \in Iters : iters[it].open /\ iters[it].moved
    BY <1>2 DEF Walks, SomeMoved, LongKey, Bare
  <2> QED
    BY <2>1, <2>2, <2>3 DEF IteratorExact
<1> QED
  BY <1>1, <1>2, StepWalks, SpecInvariant, PTL DEF Spec
=============================================================================

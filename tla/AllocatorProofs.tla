--------------------------- MODULE AllocatorProofs ---------------------------
(***************************************************************************)
(* Proofs about the allocators together, for every capacity, request,      *)
(* alignment and width of size_t: the free list of a pool holds the blocks *)
(* no client holds, the blocks of an arena lie apart, the counter of the   *)
(* tracking allocator is the sum of what is held, and what is held belongs *)
(* to a client or to a pool, an arena or a string that exists.             *)
(***************************************************************************)
EXTENDS Allocators, ModArith, FiniteSetTheorems, SequenceTheorems, TLAPS

(* A pool as it is between two calls: f lists the free blocks, each once,  *)
(* in the order in which the links run through them.                       *)
FreeOrder(f, n) ==
  /\ n \in Nat /\ f \in [0 .. n - 1 -> Pool!Blocks \ held]
  /\ \A b \in Pool!Blocks \ held : \E i \in 0 .. n - 1 : f[i] = b
  /\ \A i, j \in 0 .. n - 1 : f[i] = f[j] => i = j
  /\ free_list = IF n = 0 THEN Null ELSE f[0]
  /\ \A i \in 0 .. n - 1 : word[f[i]] = IF i = n - 1 THEN Null ELSE f[i + 1]

PoolInv == Pool!TypeOK /\ \E n, f : FreeOrder(f, n)

-----------------------------------------------------------------------------
(* The free list as the property follows it, link by link.                 *)
LEMMA NullIsNoBlock == ASSUME Pool!TypeOK PROVE Null \notin Pool!Blocks
  BY AllocatorsAssumption DEF Pool!TypeOK, Pool!Blocks

ChainLaw(c) ==
  c = [n \in Nat |-> IF n = 0 THEN free_list ELSE Pool!Link(c[n - 1])]

(* The recursion of Chain has a solution, the order with NULL behind it,   *)
(* so Chain solves it.                                                     *)
LEMMA ChainSolves ==
  ASSUME Pool!TypeOK, NEW n, NEW f, FreeOrder(f, n)
  PROVE  /\ ChainLaw(Pool!Chain)
         /\ ChainLaw([i \in Nat |-> IF i < n THEN f[i] ELSE Null])
<1> DEFINE g == [i \in Nat |-> IF i < n THEN f[i] ELSE Null]
<1>1. /\ n \in Nat /\ f \in [0 .. n - 1 -> Pool!Blocks \ held]
      /\ free_list = IF n = 0 THEN Null ELSE f[0]
      /\ \A i \in 0 .. n - 1 : word[f[i]] = IF i = n - 1 THEN Null ELSE f[i + 1]
  BY DEF FreeOrder
<1>2. ASSUME NEW i \in Nat
      PROVE  g[i] = IF i = 0 THEN free_list ELSE Pool!Link(g[i - 1])
  <2>1. CASE i = 0
    BY <1>1, <2>1
  <2>2. CASE i # 0 /\ i - 1 < n
    <3>1. i - 1 \in 0 .. n - 1 /\ f[i - 1] \in Pool!Blocks /\ g[i - 1] = f[i - 1]
      BY <1>1, <2>2
    <3>2. Pool!Link(f[i - 1]) = word[f[i - 1]]
      BY <3>1 DEF Pool!Link
    <3>3. word[f[i - 1]] = IF i - 1 = n - 1 THEN Null ELSE f[(i - 1) + 1]
      BY <1>1, <3>1
    <3>4. (i - 1) + 1 = i /\ (i - 1 = n - 1 <=> ~(i < n))
      BY <1>1, <2>2
    <3> QED
      BY <1>1, <2>2, <3>1, <3>2, <3>3, <3>4
  <2>3. CASE i # 0 /\ ~(i - 1 < n)
    <3>1. g[i - 1] = Null /\ g[i] = Null
      BY <1>1, <2>3
    <3>2. Pool!Link(Null) = Null
      BY NullIsNoBlock DEF Pool!Link
    <3> QED
      BY <2>3, <3>1, <3>2
  <2> QED
    BY <2>1, <2>2, <2>3
<1>3. g = [i \in Nat |-> g[i]]
  OBVIOUS
<1> HIDE DEF g
<1>4. ChainLaw(g)
  BY <1>2, <1>3 DEF ChainLaw
<1>5. Pool!Chain = CHOOSE c : ChainLaw(c)
  BY DEF Pool!Chain, ChainLaw
<1>6. ChainLaw(Pool!Chain)
  BY <1>4, <1>5
<1> QED
  BY <1>4, <1>6 DEF g

(* The solution is unique: there is no least index at which two differ.    *)
LEMMA ChainUnique ==
  ASSUME NEW c, NEW d, ChainLaw(c), ChainLaw(d)
  PROVE  \A n \in Nat : c[n] = d[n]
<1> DEFINE D == {n \in Nat : c[n] # d[n]}
<1>1. SUFFICES ASSUME D # {} PROVE FALSE
  OBVIOUS
<1>2. PICK n \in D : \A m \in D : n <= m
  BY <1>1, LeastNumber
<1>3. n \in Nat /\ c[n] # d[n]
  BY <1>2
<1>4. /\ c[n] = IF n = 0 THEN free_list ELSE Pool!Link(c[n - 1])
      /\ d[n] = IF n = 0 THEN free_list ELSE Pool!Link(d[n - 1])
  BY <1>3 DEF ChainLaw
<1>5. n # 0 /\ n - 1 \in Nat /\ c[n - 1] # d[n - 1]
  BY <1>3, <1>4
<1> QED
  BY <1>2, <1>3, <1>5

LEMMA FreeCount ==
  ASSUME Pool!TypeOK, NEW n, NEW f, FreeOrder(f, n)
  PROVE  n = pool_capacity - Cardinality(held)
<1> DEFINE B == Pool!Blocks
<1>1. pool_capacity \in Nat /\ held \subseteq B /\ B = 0 .. pool_capacity - 1
  BY DEF Pool!TypeOK, Pool!Blocks
<1>2. IsFiniteSet(B) /\ Cardinality(B) = pool_capacity
  BY <1>1, FS_Interval
<1> HIDE DEF B
<1>3. Cardinality(B \ held) = pool_capacity - Cardinality(held)
  <2>1. B \cap held = held
    BY <1>1
  <2> QED
    BY <1>2, <2>1, FS_Difference
<1>4. /\ n \in Nat /\ f \in [0 .. n - 1 -> B \ held]
      /\ \A b \in B \ held : \E i \in 0 .. n - 1 : f[i] = b
      /\ \A i, j \in 0 .. n - 1 : f[i] = f[j] => i = j
  BY DEF FreeOrder, B
<1>5. IsFiniteSet(0 .. n - 1) /\ Cardinality(0 .. n - 1) = n
  BY <1>4, FS_Interval
<1>6. f \in Surjection(0 .. n - 1, B \ held) /\ f \in Injection(0 .. n - 1, B \ held)
  BY <1>4 DEF Surjection, Injection, IsInjective
<1>7. Cardinality(B \ held) = Cardinality(0 .. n - 1)
  BY <1>5, <1>6, FS_Surjection
<1> QED
  BY <1>3, <1>5, <1>7

LEMMA OrderGivesExact == PoolInv => FreeListExact
<1> SUFFICES ASSUME PoolInv PROVE FreeListExact
  OBVIOUS
<1>1. PICK n, f : FreeOrder(f, n)
  BY DEF PoolInv
<1>2. Pool!TypeOK
  BY DEF PoolInv
<1> DEFINE g == [i \in Nat |-> IF i < n THEN f[i] ELSE Null]
<1>3. \A i \in Nat : Pool!Chain[i] = g[i]
  BY <1>1, <1>2, ChainSolves, ChainUnique
<1>4. /\ n \in Nat /\ f \in [0 .. n - 1 -> Pool!Blocks \ held]
      /\ \A b \in Pool!Blocks \ held : \E i \in 0 .. n - 1 : f[i] = b
  BY <1>1 DEF FreeOrder
<1>5. Pool!Chain[n] = Null /\ \A i \in 0 .. n - 1 : Pool!Chain[i] = f[i]
  BY <1>3, <1>4
<1>6. {Pool!Chain[i] : i \in 0 .. n - 1} = Pool!Blocks \ held
  BY <1>4, <1>5
<1>7. n = pool_capacity - Cardinality(held)
  BY <1>1, <1>2, FreeCount
<1>8. /\ {Pool!Chain[i] : i \in 0 .. (pool_capacity - Cardinality(held)) - 1}
           = Pool!Blocks \ held
      /\ Pool!Chain[pool_capacity - Cardinality(held)] = Null
  BY <1>5, <1>6, <1>7
<1>9. Pool!Cardinality(held) = Cardinality(held)
  BY DEF Pool!Cardinality, Cardinality
<1> QED
  BY <1>8, <1>9 DEF FreeListExact, Pool!FreeListExact

-----------------------------------------------------------------------------
(* The calls on a pool.                                                    *)
LEMMA PoolInitInv == Pool!Init => PoolInv
<1> SUFFICES ASSUME Pool!Init PROVE PoolInv
  OBVIOUS
<1>1. /\ pool_capacity = 0 /\ free_list = Null /\ word = [b \in {} |-> Null]
      /\ held = {} /\ returned = Null
  BY DEF Pool!Init
<1>2. Pool!Blocks = {}
  BY <1>1 DEF Pool!Blocks
<1>3. Pool!TypeOK
  BY <1>1, <1>2 DEF Pool!TypeOK
<1>4. FreeOrder([i \in {} |-> Null], 0)
  BY <1>1, <1>2 DEF FreeOrder
<1> QED
  BY <1>3, <1>4 DEF PoolInv

(* kpool_create wires the blocks in the order of the slab.                 *)
LEMMA WireInv ==
  ASSUME NEW c \in PoolCapacities, Pool!Create(c)
  PROVE  PoolInv'
<1>1. /\ c \in Nat /\ c > 0 /\ pool_capacity' = c /\ free_list' = 0
      /\ word' = [b \in 0 .. c - 1 |-> IF b = c - 1 THEN Null ELSE b + 1]
      /\ held' = {} /\ returned' = Null
  BY AllocatorsAssumption DEF Pool!Create, Pool!Wired
<1>2. Pool!Blocks' = 0 .. c - 1
  BY <1>1 DEF Pool!Blocks
<1>3. Pool!TypeOK'
  BY <1>1, <1>2 DEF Pool!TypeOK
<1>4. FreeOrder([i \in 0 .. c - 1 |-> i], c)'
  BY <1>1, <1>2 DEF FreeOrder
<1> QED
  BY <1>3, <1>4 DEF PoolInv

(* kpool_alloc takes the head of the list.                                 *)
LEMMA PoolAllocInv ==
  ASSUME PoolInv, Pool!Alloc
  PROVE  PoolInv' /\ free_list \in Pool!Blocks \ held
<1>1. PICK n, f : FreeOrder(f, n)
  BY DEF PoolInv
<1>2. /\ n \in Nat /\ f \in [0 .. n - 1 -> Pool!Blocks \ held]
      /\ \A b \in Pool!Blocks \ held : \E i \in 0 .. n - 1 : f[i] = b
      /\ \A i, j \in 0 .. n - 1 : f[i] = f[j] => i = j
      /\ free_list = IF n = 0 THEN Null ELSE f[0]
      /\ \A i \in 0 .. n - 1 : word[f[i]] = IF i = n - 1 THEN Null ELSE f[i + 1]
  BY <1>1 DEF FreeOrder
<1>3. /\ free_list # Null /\ returned' = free_list /\ free_list' = word[free_list]
      /\ held' = held \cup {free_list} /\ pool_capacity' = pool_capacity /\ word' = word
  BY DEF Pool!Alloc
<1>4. n > 0 /\ free_list = f[0] /\ 0 \in 0 .. n - 1 /\ n - 1 \in Nat
  BY <1>2, <1>3
<1>5. f[0] \in Pool!Blocks \ held
  BY <1>2, <1>4
<1>6. Pool!Blocks' = Pool!Blocks
  BY <1>3 DEF Pool!Blocks
<1> DEFINE g == [i \in 0 .. n - 2 |-> f[i + 1]]
<1>7. \A i \in 0 .. n - 2 : i + 1 \in 0 .. n - 1 /\ i + 1 # 0
  BY <1>2
<1>8. g \in [0 .. (n - 1) - 1 -> Pool!Blocks \ held']
  <2>1. ASSUME NEW i \in 0 .. n - 2 PROVE f[i + 1] \in Pool!Blocks \ held'
    BY <1>2, <1>3, <1>4, <1>7
  <2> QED
    BY <1>2, <2>1
<1>9. \A b \in Pool!Blocks \ held' : \E i \in 0 .. (n - 1) - 1 : g[i] = b
  <2> SUFFICES ASSUME NEW b \in Pool!Blocks \ held'
               PROVE  \E i \in 0 .. (n - 1) - 1 : g[i] = b
    OBVIOUS
  <2>1. PICK k \in 0 .. n - 1 : f[k] = b
    BY <1>2, <1>3
  <2>2. k # 0
    BY <1>3, <1>4, <2>1
  <2>3. k - 1 \in 0 .. (n - 1) - 1 /\ (k - 1) + 1 = k
    BY <1>2, <2>2
  <2>4. k - 1 \in 0 .. n - 2 /\ g[k - 1] = f[k]
    BY <1>2, <2>3
  <2> QED
    BY <2>1, <2>3, <2>4
<1>10. \A i, j \in 0 .. (n - 1) - 1 : g[i] = g[j] => i = j
  <2> SUFFICES ASSUME NEW i \in 0 .. n - 2, NEW j \in 0 .. n - 2, g[i] = g[j]
               PROVE  i = j
    BY <1>2
  <2>1. i + 1 = j + 1
    BY <1>2, <1>7
  <2> QED
    BY <2>1
<1>11. word[f[0]] = IF n - 1 = 0 THEN Null ELSE g[0]
  BY <1>2, <1>4
<1>12. \A i \in 0 .. (n - 1) - 1 :
          word[g[i]] = IF i = (n - 1) - 1 THEN Null ELSE g[i + 1]
  BY <1>2, <1>7
<1>13. FreeOrder(g, n - 1)'
  BY <1>3, <1>4, <1>6, <1>8, <1>9, <1>10, <1>11, <1>12 DEF FreeOrder
<1>14. Pool!TypeOK'
  <2>1. free_list' \in Pool!Blocks \cup {Null}
    BY <1>2, <1>3, <1>4, <1>7
  <2>2. /\ pool_capacity \in Nat /\ held \subseteq Pool!Blocks
        /\ word \in [Pool!Blocks -> Pool!Blocks \cup {Null, Payload}]
    BY DEF PoolInv, Pool!TypeOK
  <2> QED
    BY <1>3, <1>4, <1>5, <1>6, <2>1, <2>2 DEF Pool!TypeOK
<1> QED
  BY <1>4, <1>5, <1>13, <1>14 DEF PoolInv

(* A client writes over the link of a block it holds: no free block's.     *)
LEMMA UseInv ==
  ASSUME PoolInv, NEW b \in held, Pool!Use(b)
  PROVE  PoolInv'
<1>1. PICK n, f : FreeOrder(f, n)
  BY DEF PoolInv
<1>2. /\ pool_capacity \in Nat /\ held \subseteq Pool!Blocks
      /\ free_list \in Pool!Blocks \cup {Null} /\ returned \in Pool!Blocks \cup {Null}
      /\ word \in [Pool!Blocks -> Pool!Blocks \cup {Null, Payload}]
  BY DEF PoolInv, Pool!TypeOK
<1>3. /\ word' = [word EXCEPT ![b] = Payload] /\ pool_capacity' = pool_capacity
      /\ free_list' = free_list /\ held' = held /\ returned' = returned
  BY DEF Pool!Use
<1>4. Pool!Blocks' = Pool!Blocks
  BY <1>3 DEF Pool!Blocks
<1>5. Pool!TypeOK'
  BY <1>2, <1>3, <1>4 DEF Pool!TypeOK
<1>6. FreeOrder(f, n)'
  <2>1. /\ n \in Nat /\ f \in [0 .. n - 1 -> Pool!Blocks \ held]
        /\ \A i \in 0 .. n - 1 : word[f[i]] = IF i = n - 1 THEN Null ELSE f[i + 1]
    BY <1>1 DEF FreeOrder
  <2>2. \A i \in 0 .. n - 1 : word'[f[i]] = word[f[i]]
    BY <1>2, <1>3, <2>1
  <2> QED
    BY <1>1, <1>3, <1>4, <2>1, <2>2 DEF FreeOrder
<1> QED
  BY <1>5, <1>6 DEF PoolInv

(* kpool_free puts the block in front of the list.                         *)
LEMMA PoolFreeInv ==
  ASSUME PoolInv, NEW b \in held, Pool!Free(b)
  PROVE  PoolInv'
<1>1. PICK n, f : FreeOrder(f, n)
  BY DEF PoolInv
<1>2. /\ pool_capacity \in Nat /\ held \subseteq Pool!Blocks
      /\ free_list \in Pool!Blocks \cup {Null} /\ returned \in Pool!Blocks \cup {Null}
      /\ word \in [Pool!Blocks -> Pool!Blocks \cup {Null, Payload}]
  BY DEF PoolInv, Pool!TypeOK
<1>3. /\ word' = [word EXCEPT ![b] = free_list] /\ free_list' = b
      /\ held' = held \ {b} /\ returned' = Null /\ pool_capacity' = pool_capacity
  BY DEF Pool!Free
<1>4. Pool!Blocks' = Pool!Blocks
  BY <1>3 DEF Pool!Blocks
<1>5. Pool!TypeOK'
  BY <1>2, <1>3, <1>4 DEF Pool!TypeOK
<1>6. /\ n \in Nat /\ f \in [0 .. n - 1 -> Pool!Blocks \ held]
      /\ \A c \in Pool!Blocks \ held : \E i \in 0 .. n - 1 : f[i] = c
      /\ \A i, j \in 0 .. n - 1 : f[i] = f[j] => i = j
      /\ free_list = IF n = 0 THEN Null ELSE f[0]
      /\ \A i \in 0 .. n - 1 : word[f[i]] = IF i = n - 1 THEN Null ELSE f[i + 1]
  BY <1>1 DEF FreeOrder
<1> DEFINE g == [i \in 0 .. n |-> IF i = 0 THEN b ELSE f[i - 1]]
<1>7. \A i \in 0 .. n : i # 0 => i - 1 \in 0 .. n - 1
  BY <1>6
<1>8. n + 1 \in Nat /\ (n + 1) - 1 = n
  BY <1>6
<1>9. g \in [0 .. n -> Pool!Blocks \ held']
  BY <1>2, <1>3, <1>6, <1>7
<1>10. \A c \in Pool!Blocks \ held' : \E i \in 0 .. n : g[i] = c
  <2> SUFFICES ASSUME NEW c \in Pool!Blocks \ held' PROVE \E i \in 0 .. n : g[i] = c
    OBVIOUS
  <2>1. CASE c = b
    <3>1. 0 \in 0 .. n /\ g[0] = b
      BY <1>6
    <3> QED
      BY <2>1, <3>1
  <2>2. CASE c # b
    <3>1. PICK k \in 0 .. n - 1 : f[k] = c
      BY <1>3, <1>6, <2>2
    <3>2. k + 1 \in 0 .. n /\ k + 1 # 0 /\ (k + 1) - 1 = k
      BY <1>6
    <3> QED
      BY <3>1, <3>2
  <2> QED
    BY <2>1, <2>2
<1>11. \A i, j \in 0 .. n : g[i] = g[j] => i = j
  <2> SUFFICES ASSUME NEW i \in 0 .. n, NEW j \in 0 .. n, g[i] = g[j] PROVE i = j
    OBVIOUS
  <2>1. \A k \in 0 .. n : k # 0 => g[k] # b
    BY <1>6, <1>7
  <2>2. CASE i = 0 \/ j = 0
    BY <1>6, <2>1, <2>2
  <2>3. CASE i # 0 /\ j # 0
    <3>1. f[i - 1] = f[j - 1] /\ i - 1 \in 0 .. n - 1 /\ j - 1 \in 0 .. n - 1
      BY <1>7, <2>3
    <3>2. i - 1 = j - 1
      BY <1>6, <3>1
    <3> QED
      BY <3>2
  <2> QED
    BY <2>2, <2>3
<1>12. \A i \in 0 .. n : word'[g[i]] = IF i = n THEN Null ELSE g[i + 1]
  <2> SUFFICES ASSUME NEW i \in 0 .. n
               PROVE  word'[g[i]] = IF i = n THEN Null ELSE g[i + 1]
    OBVIOUS
  <2>1. CASE i = 0
    <3>1. word'[b] = free_list /\ g[0] = b
      BY <1>2, <1>3, <1>6
    <3>2. n # 0 => 1 \in 0 .. n /\ g[1] = f[0]
      BY <1>6
    <3> QED
      BY <1>6, <2>1, <3>1, <3>2
  <2>2. CASE i # 0
    <3>1. i - 1 \in 0 .. n - 1 /\ g[i] = f[i - 1]
      BY <1>7, <2>2
    <3>2. f[i - 1] # b /\ word'[f[i - 1]] = word[f[i - 1]]
      BY <1>2, <1>3, <1>6, <3>1
    <3>3. word[f[i - 1]] = IF i - 1 = n - 1 THEN Null ELSE f[(i - 1) + 1]
      BY <1>6, <3>1
    <3>4. (i - 1) + 1 = i /\ (i + 1) - 1 = i /\ (i - 1 = n - 1 <=> i = n)
      BY <1>6
    <3>5. i # n => i + 1 \in 0 .. n /\ g[i + 1] = f[i]
      BY <1>6, <3>4
    <3> QED
      BY <3>1, <3>2, <3>3, <3>4, <3>5
  <2> QED
    BY <2>1, <2>2
<1>13. g[0] = b
  BY <1>6
<1> HIDE DEF g
<1>14. FreeOrder(g, n + 1)'
  BY <1>3, <1>4, <1>6, <1>8, <1>9, <1>10, <1>11, <1>12, <1>13 DEF FreeOrder
<1> QED
  BY <1>5, <1>14 DEF PoolInv

LEMMA DestroyInv == Pool!Destroy => PoolInv'
<1> SUFFICES ASSUME Pool!Destroy PROVE PoolInv'
  OBVIOUS
<1>1. /\ pool_capacity' = 0 /\ free_list' = Null /\ word' = [b \in {} |-> Null]
      /\ held' = {} /\ returned' = Null
  BY DEF Pool!Destroy
<1>2. Pool!Blocks' = {}
  BY <1>1 DEF Pool!Blocks
<1>3. Pool!TypeOK'
  BY <1>1, <1>2 DEF Pool!TypeOK
<1>4. FreeOrder([i \in {} |-> Null], 0)'
  BY <1>1, <1>2 DEF FreeOrder
<1> QED
  BY <1>3, <1>4 DEF PoolInv

(* A pool with an empty list is one whose blocks are all held.             *)
LEMMA ExhaustedIsFull == PoolInv /\ free_list = Null => held = Pool!Blocks
<1> SUFFICES ASSUME PoolInv, free_list = Null PROVE held = Pool!Blocks
  OBVIOUS
<1>1. PICK n, f : FreeOrder(f, n)
  BY DEF PoolInv
<1>2. Null \notin Pool!Blocks /\ held \subseteq Pool!Blocks
  BY NullIsNoBlock DEF PoolInv, Pool!TypeOK
<1>3. n = 0
  <2>1. /\ n \in Nat /\ f \in [0 .. n - 1 -> Pool!Blocks \ held]
        /\ free_list = IF n = 0 THEN Null ELSE f[0]
    BY <1>1 DEF FreeOrder
  <2>2. n # 0 => 0 \in 0 .. n - 1
    BY <2>1
  <2> QED
    BY <1>2, <2>1, <2>2
<1>4. Pool!Blocks \ held = {}
  BY <1>1, <1>3 DEF FreeOrder
<1> QED
  BY <1>2, <1>4

-----------------------------------------------------------------------------
LEMMA PoolNextInv == PoolInv /\ [Pool!Next]_poolVars => PoolInv'
<1> SUFFICES ASSUME PoolInv, [Pool!Next]_poolVars PROVE PoolInv'
  OBVIOUS
<1>1. CASE \E c \in PoolCapacities : Pool!Create(c)
  BY <1>1, WireInv
<1>2. CASE \E b \in held : Pool!Use(b) \/ Pool!Free(b)
  BY <1>2, UseInv, PoolFreeInv
<1>3. CASE Pool!Alloc
  BY <1>3, PoolAllocInv
<1>4. CASE Pool!Destroy
  BY <1>4, DestroyInv
<1>5. CASE Pool!AllocExhausted \/ Pool!CreateFails \/ UNCHANGED poolVars
  <2>1. /\ pool_capacity' = pool_capacity /\ free_list' = free_list /\ word' = word
        /\ held' = held /\ returned' \in {returned, Null}
    BY <1>5 DEF Pool!AllocExhausted, Pool!CreateFails, Pool!vars, poolVars
  <2>2. Pool!Blocks' = Pool!Blocks
    BY <2>1 DEF Pool!Blocks
  <2>3. PICK n, f : FreeOrder(f, n)
    BY DEF PoolInv
  <2>4. FreeOrder(f, n)'
    BY <2>1, <2>2, <2>3 DEF FreeOrder
  <2>5. Pool!TypeOK'
    BY <2>1, <2>2 DEF PoolInv, Pool!TypeOK
  <2> QED
    BY <2>4, <2>5 DEF PoolInv
<1> QED
  BY <1>1, <1>2, <1>3, <1>4, <1>5 DEF Pool!Next

(* What a step of all the allocators is to the pool.                       *)
LEMMA StepOfPool == [ANext]_allVars => [Pool!Next]_poolVars
<1> SUFFICES ASSUME [ANext]_allVars PROVE [Pool!Next]_poolVars
  OBVIOUS
<1>1. CASE ClientCall \/ ArenaCall \/ StringCall
  BY <1>1 DEF ClientCall, ArenaCall, StringCall
<1>2. CASE PoolCall
  BY <1>2 DEF PoolCall, Pool!Next
<1>3. CASE GiveUp
  BY <1>3 DEF GiveUp, Pool!Next
<1>4. ASSUME NEW b \in Ids,
             \/ \E who \in {"pool", "arena", "string"} : GetStruct(b, who)
             \/ StringData(b)
             \/ \E a \in Addresses, c \in ArenaCapacities : ArenaBuffer(b, a, c)
      PROVE  UNCHANGED poolVars
  BY <1>4 DEF GetStruct, StringData, ArenaBuffer
<1>5. CASE \E b \in Ids, s \in BlockSizes, c \in PoolCapacities :
             PoolSlab(b, s, c) \/ PoolSlabShort(b, s, c)
  BY <1>5 DEF PoolSlab, PoolSlabShort, Pool!Next
<1>6. ASSUME NEW b \in DOMAIN blocks, FreeBuffer(b) \/ FreeData(b) \/ FreeStruct(b)
      PROVE  UNCHANGED poolVars
  BY <1>6 DEF FreeBuffer, FreeData, FreeStruct
<1>7. CASE \E b \in DOMAIN blocks : FreeSlab(b)
  BY <1>7 DEF FreeSlab, Pool!Next
<1>8. CASE UNCHANGED allVars
  BY <1>8 DEF allVars
<1> QED
  BY <1>1, <1>2, <1>3, <1>4, <1>5, <1>6, <1>7, <1>8 DEF ANext

(* The free list of a pool of any capacity runs through the blocks that no *)
(* client holds, each once, and ends: kpool_alloc and kpool_free, with the *)
(* clients writing over the links of the blocks they hold.  A pool whose   *)
(* slab is short because its size wrapped (PoolSlabShort) is none.         *)
THEOREM FreeListCorrect == ASpec => []FreeListExact
<1>1. AInit => PoolInv
  BY PoolInitInv DEF AInit
<1>2. PoolInv /\ [ANext]_allVars => PoolInv'
  BY StepOfPool, PoolNextInv
<1> QED
  BY <1>1, <1>2, OrderGivesExact, PTL DEF ASpec

LEMMA PoolStepRefines ==
  PoolInv /\ [Pool!Next]_poolVars => [Pool!BP!Next]_(Pool!BP!vars)
<1> SUFFICES ASSUME PoolInv, [Pool!Next]_poolVars
             PROVE  [Pool!BP!Next]_(Pool!BP!vars)
  OBVIOUS
<1>1. Pool!BP!Blocks = Pool!Blocks
  BY DEF Pool!BP!Blocks, Pool!Blocks
<1>2. CASE \E c \in PoolCapacities : Pool!Create(c)
  BY <1>2, AllocatorsAssumption DEF Pool!Create, Pool!BP!Next, Pool!BP!Create
<1>3. ASSUME NEW b \in held, Pool!Use(b) PROVE UNCHANGED Pool!BP!vars
  BY <1>3 DEF Pool!Use, Pool!BP!vars
<1>4. ASSUME NEW b \in held, Pool!Free(b) PROVE Pool!BP!Next
  <2>1. b \in Pool!Blocks /\ Pool!BP!Free(b)
    BY <1>4 DEF Pool!Free, Pool!BP!Free, PoolInv, Pool!TypeOK
  <2> QED
    BY <1>1, <2>1 DEF Pool!BP!Next
<1>5. CASE Pool!Alloc
  <2>1. free_list \in Pool!Blocks \ held
    BY <1>5, PoolAllocInv
  <2>2. Pool!BP!Alloc(free_list)
    BY <1>1, <1>5, <2>1 DEF Pool!Alloc, Pool!BP!Alloc
  <2> QED
    BY <1>1, <2>1, <2>2 DEF Pool!BP!Next
<1>6. CASE Pool!AllocExhausted
  BY <1>1, <1>6, ExhaustedIsFull DEF Pool!AllocExhausted, Pool!BP!Next, Pool!BP!Exhausted
<1>7. CASE Pool!Destroy
  BY <1>7 DEF Pool!Destroy, Pool!BP!Next, Pool!BP!Destroy
<1>8. CASE Pool!CreateFails \/ UNCHANGED poolVars
  BY <1>8 DEF Pool!CreateFails, Pool!vars, poolVars, Pool!BP!vars
<1> QED
  BY <1>2, <1>3, <1>4, <1>5, <1>6, <1>7, <1>8 DEF Pool!Next

(* A pool of any capacity keeps the promise of a slab allocator: a block   *)
(* it hands out is held by nobody, and kpool_alloc returns NULL only when  *)
(* every block is held.  A pool whose slab is short because its size       *)
(* wrapped (PoolSlabShort) is none.                                        *)
THEOREM PoolImplementsBlockPool == ASpec => ImplementsBlockPool
<1>1. AInit => PoolInv /\ Pool!BP!Init
  BY PoolInitInv DEF AInit, Pool!Init, Pool!BP!Init
<1>2. PoolInv /\ [ANext]_allVars => PoolInv' /\ [Pool!BP!Next]_(Pool!BP!vars)
  BY StepOfPool, PoolNextInv, PoolStepRefines
<1> QED
  BY <1>1, <1>2, PTL DEF ASpec, ImplementsBlockPool, Pool!ImplementsBlockPool, Pool!BP!Spec

-----------------------------------------------------------------------------
(* An arena as it is between two calls.  The offset is in the buffer even  *)
(* after a request so large that the sum has wrapped, so that the padding  *)
(* never wraps; the blocks are in front of it until that has happened.     *)
Before(b) ==
  /\ buffer <= b.at /\ b.at + b.size <= buffer + offset
  /\ b.at % Align = 0

Wrapped(b) == b.at - buffer + b.size >= Modulus

BlocksBefore ==
  /\ \A b \in given : b.at \in Nat /\ b.size \in Nat
  /\ \A b \in Region!Oversized : Wrapped(b)
  /\ Region!Oversized = {} =>
       /\ \A b \in given : Before(b)
       /\ \A b, c \in given : b # c => Region!Bytes(b) \cap Region!Bytes(c) = {}

ArenaInv ==
  /\ ~arena_live => given = {}
  /\ arena_live => /\ buffer \in Addresses /\ arena_capacity \in ArenaCapacities
                   /\ offset \in 0 .. arena_capacity
  /\ BlocksBefore

LEMMA ArenaNumbers ==
  ASSUME ArenaInv, arena_live
  PROVE  /\ Modulus \in Nat /\ Align \in Nat /\ Align > 0
         /\ buffer \in Nat /\ arena_capacity \in Nat /\ offset \in Nat
         /\ offset <= arena_capacity
         /\ buffer + arena_capacity + Align <= Modulus
         /\ 2 * arena_capacity + Align <= Modulus
<1>1. /\ buffer \in Addresses /\ arena_capacity \in ArenaCapacities
      /\ offset \in 0 .. arena_capacity
  BY DEF ArenaInv
<1>2. Addresses \subseteq Nat /\ ArenaCapacities \subseteq Nat /\ Modulus \in Nat
  BY AllocatorsAssumption, TrackedHeapAssumption
<1>3. Align \in Nat /\ Align > 0
  BY AllocatorsAssumption
<1>4. /\ buffer + arena_capacity + Align <= Modulus
      /\ 2 * arena_capacity + Align <= Modulus
  BY <1>1, AllocatorsAssumption
<1> QED
  BY <1>1, <1>2, <1>3, <1>4

(* ALIGN_FORWARD gives the first aligned address that is not below x.      *)
LEMMA ForwardIsAligned ==
  ASSUME NEW x \in Nat, Modulus \in Nat, x + Align <= Modulus
  PROVE  /\ Region!AlignForward(x) \in x .. x + Align - 1
         /\ Region!AlignForward(x) % Align = 0
<1> DEFINE y == x + Align - 1
           q == y \div Align
           r == y % Align
<1>1. Align \in Nat /\ Align > 0
  BY AllocatorsAssumption
<1>2. y \in Nat /\ y < Modulus /\ y % Modulus = y
  BY <1>1, ModSmall
<1>3. q \in Nat /\ r \in 0 .. Align - 1 /\ y = Align * q + r
  BY <1>1, <1>2, ModDivision, ModRange
<1>4. Region!AlignForward(x) = y - r
  BY <1>2 DEF Region!AlignForward
<1>5. (Align * q + 0) % Align = 0
  <2> HIDE DEF q, r, y
  <2> QED
    BY <1>1, <1>3, ModUnique
<1>6. y - r = Align * q + 0 /\ y - r \in x .. y
  <2> HIDE DEF q, r
  <2> QED
    BY <1>1, <1>2, <1>3
<1> QED
  BY <1>4, <1>5, <1>6

(* arena_alloc computes where the next block goes without wrapping.        *)
LEMMA PaddingIsSmall ==
  ASSUME ArenaInv, arena_live
  PROVE  /\ Region!Padding \in 0 .. Align - 1
         /\ Region!aligned_addr = buffer + offset + Region!Padding
         /\ Region!aligned_addr % Align = 0
<1> DEFINE x == buffer + offset
           a == Region!AlignForward(x)
<1>1. /\ Modulus \in Nat /\ Align \in Nat /\ Align > 0
      /\ x \in Nat /\ x + Align <= Modulus
  BY ArenaNumbers
<1>2. a \in x .. x + Align - 1 /\ a % Align = 0
  BY <1>1, ForwardIsAligned
<1>3. Region!current_addr = x
  BY <1>1, ModSmall DEF Region!current_addr
<1>4. Region!aligned_addr = a
  BY <1>3 DEF Region!aligned_addr
<1> HIDE DEF x, a
<1>5. a - x \in 0 .. Align - 1 /\ a - x \in 0 .. Modulus - 1
  BY <1>1, <1>2
<1>6. Region!Padding = a - x
  BY <1>1, <1>3, <1>4, <1>5, ModSmall DEF Region!Padding
<1> QED
  BY <1>1, <1>2, <1>4, <1>5, <1>6 DEF x

(* arena_alloc: the block goes behind the others, or the sum has wrapped.  *)
LEMMA ArenaAllocInv ==
  ASSUME ArenaInv, NEW s \in Requests, Region!Alloc(s)
  PROVE  ArenaInv'
<1> DEFINE p == Region!Padding
           at == Region!aligned_addr
           sum == offset + p + s
<1>1. /\ Modulus \in Nat /\ Align \in Nat /\ Align > 0
      /\ buffer \in Nat /\ arena_capacity \in Nat /\ offset \in Nat
      /\ offset <= arena_capacity
      /\ buffer + arena_capacity + Align <= Modulus
      /\ 2 * arena_capacity + Align <= Modulus
  BY ArenaNumbers DEF Region!Alloc
<1>2. p \in 0 .. Align - 1 /\ at = buffer + offset + p /\ at % Align = 0
  BY PaddingIsSmall DEF Region!Alloc
<1>3. s \in 1 .. Modulus - 1
  <2>1. s \in 0 .. Modulus - 1
    BY AllocatorsAssumption
  <2> QED
    BY <1>1, <2>1 DEF Region!Alloc
<1>0. PICK b : b = [at |-> at, size |-> s]     \* a value: primes leave it alone
  OBVIOUS
<1>4. /\ arena_live /\ sum % Modulus <= arena_capacity /\ offset' = sum % Modulus
      /\ given' = given \cup {b}
      /\ arena_live' = arena_live /\ buffer' = buffer
      /\ arena_capacity' = arena_capacity
  BY <1>0 DEF Region!Alloc, Region!Fits
<1> HIDE DEF p, at
<1>5. b.at = at /\ b.size = s
  BY <1>0
<1>6. at \in Nat /\ sum \in Nat /\ sum < 2 * Modulus
  BY <1>1, <1>2, <1>3
<1>7. offset' \in 0 .. arena_capacity
  <2>1. sum % Modulus \in 0 .. Modulus - 1
    BY <1>1, <1>3, <1>6, ModRange
  <2> QED
    BY <1>1, <1>4, <2>1
<1>8. Region!Oversized' = Region!Oversized \cup (IF s > arena_capacity THEN {b} ELSE {})
  BY <1>4, <1>5 DEF Region!Oversized
<1>9. CASE sum < Modulus
  <2>1. offset' = sum /\ sum <= arena_capacity
    <3>1. sum % Modulus = sum
      BY <1>1, <1>6, <1>9, ModSmall
    <3> QED
      BY <1>4, <3>1
  <2>2. Region!Oversized' = Region!Oversized
    BY <1>1, <1>2, <1>3, <1>8, <2>1
  <2>3. \A c \in given' : c.at \in Nat /\ c.size \in Nat
    BY <1>3, <1>4, <1>5, <1>6 DEF ArenaInv, BlocksBefore
  <2>4. \A c \in Region!Oversized' : Wrapped(c)'
    BY <1>4, <2>2 DEF ArenaInv, BlocksBefore, Wrapped
  <2>5. ASSUME Region!Oversized' = {}
        PROVE  /\ \A c \in given' : Before(c)'
               /\ \A c, d \in given' :
                    c # d => Region!Bytes(c) \cap Region!Bytes(d) = {}
    <3>1. /\ \A c \in given : Before(c) /\ c.at \in Nat /\ c.size \in Nat
          /\ \A c, d \in given : c # d => Region!Bytes(c) \cap Region!Bytes(d) = {}
      BY <2>2, <2>5 DEF ArenaInv, BlocksBefore
    <3>2. \A c \in given : Before(c)'
      <4> SUFFICES ASSUME NEW c \in given PROVE Before(c)'
        OBVIOUS
      <4>1. /\ c.at \in Nat /\ c.size \in Nat /\ c.at % Align = 0
            /\ buffer <= c.at /\ c.at + c.size <= buffer + offset
        BY <3>1 DEF Before
      <4>2. c.at + c.size <= buffer + offset'
        BY <1>1, <1>2, <1>3, <2>1, <4>1
      <4> QED
        BY <1>4, <4>1, <4>2 DEF Before
    <3>3. Before(b)'
      <4>1. buffer <= at /\ at + s <= buffer + sum
        BY <1>1, <1>2, <1>3
      <4> QED
        BY <1>2, <1>4, <1>5, <2>1, <4>1 DEF Before
    <3>4. ASSUME NEW c \in given
          PROVE  /\ Region!Bytes(c) \cap Region!Bytes(b) = {}
                 /\ Region!Bytes(b) \cap Region!Bytes(c) = {}
      <4>1. c.at \in Nat /\ c.size \in Nat /\ c.at + c.size <= buffer + offset
        BY <3>1 DEF Before
      <4>2. c.at + c.size - 1 < at
        BY <1>1, <1>2, <4>1
      <4> QED
        BY <1>3, <1>5, <1>6, <4>1, <4>2 DEF Region!Bytes
    <3> QED
      BY <1>4, <3>1, <3>2, <3>3, <3>4
  <2> QED
    BY <1>4, <1>7, <2>3, <2>4, <2>5 DEF ArenaInv, BlocksBefore, Region!Bytes
<1>10. CASE sum >= Modulus
  <2>1. s > arena_capacity
    BY <1>1, <1>2, <1>3, <1>10
  <2>2. Region!Oversized' = Region!Oversized \cup {b} /\ Region!Oversized' # {}
    BY <1>8, <2>1
  <2>3. \A c \in given' : c.at \in Nat /\ c.size \in Nat
    BY <1>3, <1>4, <1>5, <1>6 DEF ArenaInv, BlocksBefore
  <2>4. at - buffer + s >= Modulus
    BY <1>1, <1>2, <1>3, <1>10
  <2>5. \A c \in Region!Oversized' : Wrapped(c)'
    BY <1>4, <1>5, <2>2, <2>4 DEF ArenaInv, BlocksBefore, Wrapped
  <2> QED
    BY <1>4, <1>7, <2>2, <2>3, <2>5 DEF ArenaInv, BlocksBefore
<1> HIDE DEF sum
<1> QED
  BY <1>1, <1>6, <1>9, <1>10

LEMMA NothingGivenInv ==
  ASSUME given' = {},
         arena_live' => /\ buffer' \in Addresses /\ arena_capacity' \in ArenaCapacities
                        /\ offset' \in 0 .. arena_capacity'
  PROVE  ArenaInv'
<1>1. Region!Oversized' = {}
  BY DEF Region!Oversized
<1> QED
  BY <1>1 DEF ArenaInv, BlocksBefore

LEMMA ArenaNextInv == ArenaInv /\ [Region!Next]_arenaVars => ArenaInv'
<1> SUFFICES ASSUME ArenaInv, [Region!Next]_arenaVars PROVE ArenaInv'
  OBVIOUS
<1>1. CASE \E a \in Addresses, c \in ArenaCapacities : Region!Create(a, c)
  <2>1. PICK a \in Addresses, c \in ArenaCapacities : Region!Create(a, c)
    BY <1>1
  <2>2. c \in Nat /\ 0 \in 0 .. c
    BY AllocatorsAssumption
  <2> QED
    BY <2>1, <2>2, NothingGivenInv DEF Region!Create
<1>2. CASE \E s \in Requests : Region!Alloc(s)
  BY <1>2, ArenaAllocInv
<1>3. CASE Region!Reset
  <2>1. 0 \in 0 .. arena_capacity
    BY <1>3, ArenaNumbers DEF Region!Reset
  <2> QED
    BY <1>3, <2>1, NothingGivenInv DEF Region!Reset, ArenaInv
<1>4. CASE Region!Destroy
  BY <1>4, NothingGivenInv DEF Region!Destroy
<1>5. CASE (\E s \in Requests : Region!AllocNull(s)) \/ UNCHANGED arenaVars
  <2>1. UNCHANGED arenaVars
    BY <1>5 DEF Region!AllocNull, Region!vars, arenaVars
  <2> QED
    BY <2>1 DEF arenaVars, ArenaInv, BlocksBefore, Before, Wrapped,
                Region!Oversized, Region!Bytes
<1> QED
  BY <1>1, <1>2, <1>3, <1>4, <1>5 DEF Region!Next

LEMMA StepOfArena == [ANext]_allVars => [Region!Next]_arenaVars
<1> SUFFICES ASSUME [ANext]_allVars PROVE [Region!Next]_arenaVars
  OBVIOUS
<1>1. CASE ClientCall \/ PoolCall \/ StringCall \/ GiveUp
  BY <1>1 DEF ClientCall, PoolCall, StringCall, GiveUp
<1>2. CASE ArenaCall
  BY <1>2 DEF ArenaCall, Region!Next
<1>3. ASSUME NEW b \in Ids,
             \/ \E who \in {"pool", "arena", "string"} : GetStruct(b, who)
             \/ StringData(b)
             \/ \E s \in BlockSizes, c \in PoolCapacities :
                  PoolSlab(b, s, c) \/ PoolSlabShort(b, s, c)
      PROVE  UNCHANGED arenaVars
  BY <1>3 DEF GetStruct, StringData, PoolSlab, PoolSlabShort
<1>4. CASE \E b \in Ids, a \in Addresses, c \in ArenaCapacities : ArenaBuffer(b, a, c)
  BY <1>4 DEF ArenaBuffer, Region!Next
<1>5. ASSUME NEW b \in DOMAIN blocks, FreeSlab(b) \/ FreeData(b) \/ FreeStruct(b)
      PROVE  UNCHANGED arenaVars
  BY <1>5 DEF FreeSlab, FreeData, FreeStruct
<1>6. CASE \E b \in DOMAIN blocks : FreeBuffer(b)
  BY <1>6 DEF FreeBuffer, Region!Next
<1>7. CASE UNCHANGED allVars
  BY <1>7 DEF allVars
<1> QED
  BY <1>1, <1>2, <1>3, <1>4, <1>5, <1>6, <1>7 DEF ANext

LEMMA BeforeGivesApart == ArenaInv => BlocksApart
<1> SUFFICES ASSUME ArenaInv PROVE BlocksApart
  OBVIOUS
<1>1. \A b \in Region!Oversized : b.at - buffer + b.size >= Modulus
  BY DEF ArenaInv, BlocksBefore, Wrapped
<1>2. ASSUME Region!Oversized = {}, NEW b \in given
      PROVE  /\ Region!Bytes(b) \subseteq buffer .. buffer + arena_capacity - 1
             /\ b.at % Align = 0
             /\ \A c \in given \ {b} : Region!Bytes(b) \cap Region!Bytes(c) = {}
  <2>1. /\ b.at \in Nat /\ b.size \in Nat /\ Before(b)
        /\ \A c \in given : b # c => Region!Bytes(b) \cap Region!Bytes(c) = {}
    BY <1>2 DEF ArenaInv, BlocksBefore
  <2>2. /\ buffer \in Nat /\ arena_capacity \in Nat /\ offset \in Nat
        /\ offset <= arena_capacity
    BY <1>2, ArenaNumbers DEF ArenaInv
  <2>3. Region!Bytes(b) \subseteq buffer .. buffer + arena_capacity - 1
    BY <2>1, <2>2 DEF Before, Region!Bytes
  <2> QED
    BY <2>1, <2>3 DEF Before
<1> QED
  BY <1>1, <1>2 DEF BlocksApart, Region!BlocksApart

(* For every alignment, capacity and sequence of requests, the blocks that *)
(* arena_alloc hands out between two resets are in the buffer, aligned and *)
(* disjoint, unless a request was so large that offset + padding + size    *)
(* wrapped, which no request that the capacity covers can do.              *)
THEOREM ArenaCorrect == ASpec => []BlocksApart
<1>1. AInit => ArenaInv
  <2>1. Region!Init => Region!Oversized = {}
    BY DEF Region!Init, Region!Oversized
  <2> QED
    BY <2>1 DEF AInit, Region!Init, ArenaInv, BlocksBefore
<1>2. ArenaInv /\ [ANext]_allVars => ArenaInv'
  BY StepOfArena, ArenaNextInv
<1> QED
  BY <1>1, <1>2, BeforeGivesApart, PTL DEF ASpec

-----------------------------------------------------------------------------
(* Sums over the blocks held.  Total folds their sizes in the order CHOOSE *)
(* takes them; what it comes to does not depend on that order.             *)
SumStep(w, g, s) ==
  IF s = {} THEN 0 ELSE LET x == CHOOSE y \in s : TRUE IN w[x].size + g[s \ {x}]
SumLaw(w, S, g) ==
  g = [s \in SUBSET S |->
         IF s = {} THEN 0
         ELSE LET x == CHOOSE y \in s : TRUE IN w[x].size + g[s \ {x}]]
SumOf(w, S) == (CHOOSE g : SumLaw(w, S, g))[S]
Sized(w, S) == \A x \in S : w[x].size \in Nat

LEMMA TotalIs == Total = SumOf(blocks, DOMAIN blocks)
  BY DEF Total, MapThenSumSet, MapThenFoldSet, SumOf, SumLaw

LEMMA TotalIsNext == Total' = SumOf(blocks', DOMAIN blocks')
  BY DEF Total, MapThenSumSet, MapThenFoldSet, SumOf, SumLaw

LEMMA LawUnfolds ==
  ASSUME NEW w, NEW S, NEW g, SumLaw(w, S, g), NEW s \in SUBSET S
  PROVE  g[s] = SumStep(w, g, s)
  BY DEF SumLaw, SumStep

LEMMA SubsetCount ==
  ASSUME NEW S, IsFiniteSet(S), NEW s \in SUBSET S
  PROVE  /\ IsFiniteSet(s) /\ Cardinality(s) \in Nat /\ Cardinality(s) <= Cardinality(S)
         /\ \A x \in s : /\ s \ {x} \in SUBSET S
                         /\ Cardinality(s \ {x}) = Cardinality(s) - 1
<1>1. IsFiniteSet(s) /\ Cardinality(s) <= Cardinality(S)
  BY FS_Subset
<1>2. Cardinality(s) \in Nat
  BY <1>1, FS_CardinalityType
<1>3. ASSUME NEW x \in s PROVE Cardinality(s \ {x}) = Cardinality(s) - 1
  BY <1>1, FS_RemoveElement
<1> QED
  BY <1>1, <1>2, <1>3

(* Among finite sets there is a smallest.                                  *)
LEMMA SmallestSet ==
  ASSUME NEW S, IsFiniteSet(S), NEW D \in SUBSET (SUBSET S), D # {}
  PROVE  \E s \in D : \A t \in D : Cardinality(s) <= Cardinality(t)
<1> DEFINE N == {Cardinality(t) : t \in D}
<1>1. N \in SUBSET Nat /\ N # {}
  BY SubsetCount
<1>2. PICK n \in N : \A m \in N : n <= m
  BY <1>1, LeastNumber
<1>3. PICK s \in D : n = Cardinality(s)
  BY <1>2
<1>4. \A t \in D : Cardinality(t) \in N
  OBVIOUS
<1> QED
  BY <1>2, <1>3, <1>4

(* The recursion can be solved up to any number of elements.               *)
Solves(w, S, g, n) == \A s \in SUBSET S : Cardinality(s) < n => g[s] = SumStep(w, g, s)

LEMMA SumExists ==
  ASSUME NEW w, NEW S, IsFiniteSet(S)
  PROVE  \E g : SumLaw(w, S, g)
<1> DEFINE Solved(n) == \E g : g = [s \in SUBSET S |-> g[s]] /\ Solves(w, S, g, n)
           D == {n \in Nat : ~Solved(n)}
<1>1. \A s \in SUBSET S : Cardinality(s) \in Nat /\ Cardinality(s) <= Cardinality(S)
  BY SubsetCount
<1>2. Solved(0)
  <2> DEFINE g == [s \in SUBSET S |-> 0]
  <2>1. g = [s \in SUBSET S |-> g[s]]
    OBVIOUS
  <2>2. Solves(w, S, g, 0)
    BY <1>1 DEF Solves
  <2> QED
    BY <2>1, <2>2
<1>3. ASSUME NEW n \in Nat, Solved(n) PROVE Solved(n + 1)
  <2>1. PICK g : g = [s \in SUBSET S |-> g[s]] /\ Solves(w, S, g, n)
    BY <1>3
  <2> DEFINE h == [s \in SUBSET S |-> IF Cardinality(s) < n THEN g[s] ELSE SumStep(w, g, s)]
  <2>2. \A s \in SUBSET S : h[s] = SumStep(w, g, s)
    BY <2>1 DEF Solves
  <2>3. \A s \in SUBSET S : Cardinality(s) < n => h[s] = g[s]
    OBVIOUS
  <2>4. h = [s \in SUBSET S |-> h[s]]
    OBVIOUS
  <2> HIDE DEF h
  <2>5. ASSUME NEW s \in SUBSET S, Cardinality(s) < n + 1
        PROVE  h[s] = SumStep(w, h, s)
    <3>1. CASE s = {}
      BY <2>2, <3>1 DEF SumStep
    <3>2. CASE s # {}
      <4> DEFINE x == CHOOSE y \in s : TRUE
      <4>1. x \in s
        BY <3>2
      <4> HIDE DEF x
      <4>2. s \ {x} \in SUBSET S /\ Cardinality(s \ {x}) = Cardinality(s) - 1
        BY <4>1, SubsetCount
      <4>3. Cardinality(s \ {x}) < n
        BY <1>1, <2>5, <4>2
      <4>4. h[s \ {x}] = g[s \ {x}]
        BY <2>3, <4>2, <4>3
      <4>5. SumStep(w, g, s) = w[x].size + g[s \ {x}]
        BY <3>2 DEF SumStep, x
      <4>6. SumStep(w, h, s) = w[x].size + h[s \ {x}]
        BY <3>2 DEF SumStep, x
      <4> QED
        BY <2>2, <4>4, <4>5, <4>6
    <3> QED
      BY <3>1, <3>2
  <2>6. Solves(w, S, h, n + 1)
    BY <2>5 DEF Solves
  <2> QED
    BY <2>4, <2>6
<1> HIDE DEF Solved
<1>4. D = {}
  <2> SUFFICES ASSUME D # {} PROVE FALSE
    OBVIOUS
  <2>1. PICK n \in D : \A m \in D : n <= m
    BY LeastNumber
  <2>2. n \in Nat /\ ~Solved(n) /\ n # 0
    BY <1>2, <2>1
  <2>3. n - 1 \in Nat /\ n - 1 \notin D /\ (n - 1) + 1 = n
    BY <2>1, <2>2
  <2>4. Solved(n - 1)
    BY <2>3
  <2> QED
    BY <1>3, <2>2, <2>3, <2>4
<1>5. Cardinality(S) + 1 \in Nat
  BY <1>1
<1>6. Solved(Cardinality(S) + 1)
  BY <1>4, <1>5
<1>7. PICK g : g = [s \in SUBSET S |-> g[s]] /\ Solves(w, S, g, Cardinality(S) + 1)
  BY <1>6 DEF Solved
<1>8. \A s \in SUBSET S : g[s] = SumStep(w, g, s)
  <2>1. \A s \in SUBSET S : Cardinality(s) < Cardinality(S) + 1
    BY <1>1
  <2> QED
    BY <1>7, <2>1 DEF Solves
<1>9. SumLaw(w, S, g)
  BY <1>7, <1>8 DEF SumLaw, SumStep
<1> QED
  BY <1>9

LEMMA SumIsNat ==
  ASSUME NEW w, NEW S, IsFiniteSet(S), Sized(w, S), NEW g, SumLaw(w, S, g)
  PROVE  \A s \in SUBSET S : g[s] \in Nat
<1> DEFINE D == {s \in SUBSET S : g[s] \notin Nat}
<1>1. SUFFICES ASSUME D # {} PROVE FALSE
  OBVIOUS
<1>2. PICK s \in D : \A t \in D : Cardinality(s) <= Cardinality(t)
  BY <1>1, SmallestSet
<1>3. s \in SUBSET S /\ g[s] \notin Nat /\ g[s] = SumStep(w, g, s)
  BY <1>2, LawUnfolds
<1>4. s # {}
  BY <1>3 DEF SumStep
<1> DEFINE x == CHOOSE y \in s : TRUE
<1>5. x \in s
  BY <1>4
<1>6. g[s] = w[x].size + g[s \ {x}]
  BY <1>3, <1>4 DEF SumStep
<1> HIDE DEF x
<1>7. /\ s \ {x} \in SUBSET S /\ Cardinality(s \ {x}) = Cardinality(s) - 1
      /\ Cardinality(s) \in Nat
  BY <1>3, <1>5, SubsetCount
<1>8. s \ {x} \notin D
  BY <1>2, <1>7
<1>9. g[s \ {x}] \in Nat /\ w[x].size \in Nat
  BY <1>3, <1>5, <1>7, <1>8 DEF Sized
<1> QED
  BY <1>3, <1>6, <1>9

(* Any element may be taken out first: the least set of which that is      *)
(* false would have two orders of its last two elements.                   *)
LEMMA SumTakes ==
  ASSUME NEW w, NEW S, IsFiniteSet(S), Sized(w, S), NEW g, SumLaw(w, S, g)
  PROVE  \A s \in SUBSET S : \A x \in s : g[s] = w[x].size + g[s \ {x}]
<1> DEFINE Takes(s) == \A x \in s : g[s] = w[x].size + g[s \ {x}]
           D == {s \in SUBSET S : ~Takes(s)}
<1>1. SUFFICES ASSUME D # {} PROVE FALSE
  OBVIOUS
<1>2. PICK s \in D : \A t \in D : Cardinality(s) <= Cardinality(t)
  BY <1>1, SmallestSet
<1>3. s \in SUBSET S /\ g[s] = SumStep(w, g, s)
  BY <1>2, LawUnfolds
<1>4. PICK x \in s : g[s] # w[x].size + g[s \ {x}]
  BY <1>2
<1> DEFINE c == CHOOSE y \in s : TRUE
<1>5. c \in s
  BY <1>4
<1>6. g[s] = w[c].size + g[s \ {c}]
  BY <1>3, <1>4 DEF SumStep
<1> HIDE DEF c
<1>7. x # c
  BY <1>4, <1>6
<1>8. ASSUME NEW y \in s PROVE s \ {y} \in SUBSET S /\ Takes(s \ {y})
  <2>1. /\ s \ {y} \in SUBSET S /\ Cardinality(s \ {y}) = Cardinality(s) - 1
        /\ Cardinality(s) \in Nat
    BY <1>3, <1>8, SubsetCount
  <2>2. s \ {y} \notin D
    BY <1>2, <2>1
  <2> QED
    BY <2>1, <2>2
<1>9. g[s \ {c}] = w[x].size + g[(s \ {c}) \ {x}]
  BY <1>5, <1>7, <1>8
<1>10. g[s \ {x}] = w[c].size + g[(s \ {x}) \ {c}]
  BY <1>5, <1>7, <1>8
<1>11. (s \ {c}) \ {x} = (s \ {x}) \ {c} /\ (s \ {x}) \ {c} \in SUBSET S
  BY <1>3
<1>12. g[(s \ {x}) \ {c}] \in Nat /\ w[x].size \in Nat /\ w[c].size \in Nat
  BY <1>3, <1>5, <1>11, SumIsNat DEF Sized
<1>13. w[c].size + (w[x].size + g[(s \ {x}) \ {c}])
         = w[x].size + (w[c].size + g[(s \ {x}) \ {c}])
  BY <1>12
<1> QED
  BY <1>4, <1>6, <1>9, <1>10, <1>11, <1>13

(* Only the sizes of the elements summed matter.                           *)
LEMMA SumAgrees ==
  ASSUME NEW w, NEW S, IsFiniteSet(S), NEW g, SumLaw(w, S, g),
         NEW v, NEW T, NEW h, SumLaw(v, T, h), S \subseteq T,
         \A x \in S : w[x].size = v[x].size
  PROVE  \A s \in SUBSET S : g[s] = h[s]
<1> DEFINE D == {s \in SUBSET S : g[s] # h[s]}
<1>1. SUFFICES ASSUME D # {} PROVE FALSE
  OBVIOUS
<1>2. PICK s \in D : \A t \in D : Cardinality(s) <= Cardinality(t)
  BY <1>1, SmallestSet
<1>3. /\ s \in SUBSET S /\ s \in SUBSET T /\ g[s] # h[s]
      /\ g[s] = SumStep(w, g, s) /\ h[s] = SumStep(v, h, s)
  BY <1>2, LawUnfolds
<1>4. s # {}
  BY <1>3 DEF SumStep
<1> DEFINE x == CHOOSE y \in s : TRUE
<1>5. x \in s
  BY <1>4
<1>6. g[s] = w[x].size + g[s \ {x}] /\ h[s] = v[x].size + h[s \ {x}]
  BY <1>3, <1>4 DEF SumStep
<1> HIDE DEF x
<1>7. /\ s \ {x} \in SUBSET S /\ Cardinality(s \ {x}) = Cardinality(s) - 1
      /\ Cardinality(s) \in Nat
  BY <1>3, <1>5, SubsetCount
<1>8. s \ {x} \notin D
  BY <1>2, <1>7
<1>9. g[s \ {x}] = h[s \ {x}]
  BY <1>7, <1>8
<1> QED
  BY <1>3, <1>5, <1>6, <1>9

LEMMA SumSame ==
  ASSUME NEW w, NEW S, IsFiniteSet(S), NEW v, \A x \in S : w[x].size = v[x].size
  PROVE  SumOf(w, S) = SumOf(v, S)
<1>1. SumLaw(w, S, CHOOSE g : SumLaw(w, S, g)) /\ SumLaw(v, S, CHOOSE g : SumLaw(v, S, g))
  BY SumExists
<1> QED
  BY <1>1, SumAgrees DEF SumOf

LEMMA SumEmpty == \A w : SumOf(w, {}) = 0
<1> SUFFICES ASSUME NEW w PROVE SumOf(w, {}) = 0
  OBVIOUS
<1>1. SumLaw(w, {}, CHOOSE g : SumLaw(w, {}, g))
  BY SumExists, FS_EmptySet
<1> QED
  BY <1>1, LawUnfolds DEF SumOf, SumStep

LEMMA SumAdds ==
  ASSUME NEW w, NEW S, IsFiniteSet(S), Sized(w, S), NEW x \in S
  PROVE  /\ SumOf(w, S) = w[x].size + SumOf(w, S \ {x})
         /\ SumOf(w, S \ {x}) \in Nat /\ SumOf(w, S) \in Nat
<1> DEFINE g == CHOOSE c : SumLaw(w, S, c)
           h == CHOOSE c : SumLaw(w, S \ {x}, c)
<1>1. IsFiniteSet(S \ {x}) /\ S \ {x} \in SUBSET S /\ Sized(w, S \ {x})
  BY FS_Subset DEF Sized
<1>2. SumLaw(w, S, g) /\ SumLaw(w, S \ {x}, h)
  BY <1>1, SumExists
<1>3. SumOf(w, S) = g[S] /\ SumOf(w, S \ {x}) = h[S \ {x}]
  BY DEF SumOf
<1> HIDE DEF g, h
<1>4. h[S \ {x}] = g[S \ {x}]
  BY <1>1, <1>2, SumAgrees
<1>5. g[S] = w[x].size + g[S \ {x}]
  BY <1>2, SumTakes
<1>6. g[S] \in Nat /\ g[S \ {x}] \in Nat
  BY <1>1, <1>2, SumIsNat
<1> QED
  BY <1>3, <1>4, <1>5, <1>6

-----------------------------------------------------------------------------
Tracks == IsFiniteSet(DOMAIN blocks) /\ TelemetryExact

LEMMA TrackFacts ==
  ASSUME Tracks
  PROVE  /\ Modulus \in Nat /\ Modulus > 0 /\ Word \in Nat /\ Word < Modulus
         /\ IsFiniteSet(DOMAIN blocks) /\ Sized(blocks, DOMAIN blocks)
         /\ \A b \in DOMAIN blocks : blocks[b] \in Block
         /\ Total \in Nat /\ cdsa_global_memory_used = Total % Modulus
         /\ \A b \in DOMAIN blocks : blocks[b].asked + Word < Modulus
              => blocks[b].length >= blocks[b].asked + Word
<1>1. /\ Modulus \in Nat /\ Modulus > 0 /\ Word \in Nat /\ Word < Modulus
  BY TrackedHeapAssumption
<1>2. /\ IsFiniteSet(DOMAIN blocks) /\ \A b \in DOMAIN blocks : blocks[b] \in Block
  BY DEF Tracks, TelemetryExact
<1>3. Sized(blocks, DOMAIN blocks)
  BY <1>1, <1>2 DEF Sized, Block
<1>4. Total \in Nat
  <2>1. CASE DOMAIN blocks = {}
    BY <2>1, TotalIs, SumEmpty
  <2>2. CASE DOMAIN blocks # {}
    BY <1>2, <1>3, <2>2, TotalIs, SumAdds
  <2> QED
    BY <2>1, <2>2
<1> QED
  BY <1>1, <1>2, <1>3, <1>4 DEF Tracks, TelemetryExact, Size_t

(* What a block of asked bytes is once malloc or realloc has given it.     *)
LEMMA TrackedBlock ==
  ASSUME NEW asked \in Nat, NEW k, k = Tracked(asked % Modulus, asked)
  PROVE  /\ k \in Block /\ k.size = asked % Modulus /\ k.size \in Nat
         /\ k.asked + Word < Modulus => k.length >= k.asked + Word
<1>1. Modulus \in Nat /\ Modulus > 0 /\ Word \in Nat
  BY TrackedHeapAssumption
<1> DEFINE s == asked % Modulus
           l == (s + Word) % Modulus
<1>2. s \in 0 .. Modulus - 1
  BY <1>1, ModRange
<1>3. asked + Word < Modulus => s = asked
  BY <1>1, ModSmall
<1> HIDE DEF s
<1>4. l \in 0 .. Modulus - 1 /\ (s + Word < Modulus => l = s + Word)
  <2>1. s + Word \in Nat
    BY <1>1, <1>2
  <2>2. l \in 0 .. Modulus - 1
    BY <1>1, <2>1, ModRange
  <2>3. s + Word < Modulus => s + Word \in 0 .. Modulus - 1
    BY <1>1, <2>1
  <2> QED
    BY <1>1, <2>2, <2>3, ModSmall
<1>5. k = [length |-> l, size |-> s, asked |-> asked]
  BY DEF Tracked, Size_t, s
<1> HIDE DEF l
<1> QED
  BY <1>1, <1>2, <1>3, <1>4, <1>5 DEF Block, s

(* One block more: malloc, calloc and realloc of NULL.                     *)
LEMMA TakeInv ==
  ASSUME Tracks, NEW b, NEW asked \in Nat, Take(b, Size_t(asked), asked)
  PROVE  Tracks'
<1> DEFINE D == DOMAIN blocks
           s == asked % Modulus
<1>1. PICK k : k = Tracked(s, asked)
  OBVIOUS
<1>2. /\ b \notin D /\ blocks' = [c \in D \cup {b} |-> IF c = b THEN k ELSE blocks[c]]
      /\ cdsa_global_memory_used' = (cdsa_global_memory_used + s) % Modulus
  BY <1>1 DEF Take, Holding, Size_t
<1>3. /\ k \in Block /\ k.size = s /\ s \in Nat
      /\ k.asked + Word < Modulus => k.length >= k.asked + Word
  BY <1>1, TrackedBlock
<1>4. /\ DOMAIN blocks' = D \cup {b} /\ blocks'[b] = k
      /\ \A c \in D : blocks'[c] = blocks[c]
  BY <1>2
<1>5. IsFiniteSet(DOMAIN blocks')
  BY <1>4, TrackFacts, FS_AddElement
<1>6. /\ blocks' = [c \in DOMAIN blocks' |-> blocks'[c]]
      /\ \A c \in DOMAIN blocks' : blocks'[c] \in Block
  BY <1>2, <1>3, <1>4, TrackFacts
<1>7. Sized(blocks', DOMAIN blocks')
  BY <1>3, <1>4, TrackFacts DEF Sized
<1>8. Total' = s + Total
  <2>1. DOMAIN blocks' \ {b} = D
    BY <1>2, <1>4
  <2>2. SumOf(blocks', DOMAIN blocks') = blocks'[b].size + SumOf(blocks', D)
    BY <1>4, <1>5, <1>7, <2>1, SumAdds
  <2>3. SumOf(blocks', D) = SumOf(blocks, D)
    BY <1>4, TrackFacts, SumSame
  <2> QED
    BY <1>3, <1>4, <2>2, <2>3, TotalIs, TotalIsNext
<1>9. cdsa_global_memory_used' = Total' % Modulus
  <2> HIDE DEF s
  <2>1. ((Total % Modulus) + s) % Modulus = (Total + s) % Modulus
    BY <1>3, TrackFacts, ModShift
  <2>2. Total' = Total + s
    BY <1>3, <1>8, TrackFacts
  <2> QED
    BY <1>2, <2>1, <2>2, TrackFacts
<1>10. \A c \in DOMAIN blocks' : blocks'[c].asked + Word < Modulus
         => blocks'[c].length >= blocks'[c].asked + Word
  BY <1>3, <1>4, TrackFacts
<1> QED
  BY <1>5, <1>6, <1>9, <1>10 DEF Tracks, TelemetryExact, Size_t

(* One block less: free, and realloc to nothing.                           *)
LEMMA GiveInv ==
  ASSUME Tracks, NEW b \in DOMAIN blocks, Give(b)
  PROVE  Tracks'
<1> DEFINE D == DOMAIN blocks
           s == blocks[b].size
<1>1. /\ blocks' = [c \in D \ {b} |-> blocks[c]]
      /\ cdsa_global_memory_used' = (cdsa_global_memory_used - s) % Modulus
  BY DEF Give, Size_t
<1>2. DOMAIN blocks' = D \ {b} /\ \A c \in D \ {b} : blocks'[c] = blocks[c]
  BY <1>1
<1>3. IsFiniteSet(DOMAIN blocks')
  BY <1>2, TrackFacts, FS_RemoveElement
<1>4. /\ blocks' = [c \in DOMAIN blocks' |-> blocks'[c]]
      /\ \A c \in DOMAIN blocks' : blocks'[c] \in Block
      /\ \A c \in DOMAIN blocks' : blocks'[c].asked + Word < Modulus
           => blocks'[c].length >= blocks'[c].asked + Word
  BY <1>1, <1>2, TrackFacts
<1>5. Total = s + Total' /\ Total' \in Nat
  <2>1. /\ SumOf(blocks, D) = s + SumOf(blocks, D \ {b})
        /\ SumOf(blocks, D \ {b}) \in Nat
    BY TrackFacts, SumAdds
  <2>2. SumOf(blocks', D \ {b}) = SumOf(blocks, D \ {b})
    BY <1>2, <1>3, SumSame
  <2> QED
    BY <1>2, <2>1, <2>2, TotalIs, TotalIsNext
<1>6. s \in Nat
  BY TrackFacts DEF Sized
<1>7. cdsa_global_memory_used' = Total' % Modulus
  <2> DEFINE n == -s
  <2>1. n \in Int /\ Total + n = Total' /\ cdsa_global_memory_used + n = cdsa_global_memory_used - s
    <3>1. cdsa_global_memory_used \in Int
      BY TrackFacts
    <3> QED
      BY <1>5, <1>6, <3>1
  <2> HIDE DEF n
  <2>2. ((Total % Modulus) + n) % Modulus = (Total + n) % Modulus
    BY <2>1, TrackFacts, ModShift
  <2> QED
    BY <1>1, <2>1, <2>2, TrackFacts
<1> QED
  BY <1>3, <1>4, <1>7 DEF Tracks, TelemetryExact, Size_t

(* realloc: the old size off, the new one on.                              *)
LEMMA ResizeInv ==
  ASSUME Tracks, NEW b \in DOMAIN blocks, NEW s \in 0 .. Modulus - 1, Realloc_track(b, s)
  PROVE  Tracks' /\ DOMAIN blocks' = DOMAIN blocks
<1> DEFINE D == DOMAIN blocks
           o == blocks[b].size
<1>1. PICK k : k = Tracked(s, s)
  OBVIOUS
<1>2. /\ blocks' = [c \in D |-> IF c = b THEN k ELSE blocks[c]]
      /\ cdsa_global_memory_used' = (cdsa_global_memory_used - o + s) % Modulus
  BY <1>1 DEF Realloc_track, Retracked, Size_t
<1>3. s \in Nat /\ s % Modulus = s
  BY TrackFacts, ModSmall
<1>4. /\ k \in Block /\ k.size = s
      /\ k.asked + Word < Modulus => k.length >= k.asked + Word
  BY <1>1, <1>3, TrackedBlock
<1>5. /\ DOMAIN blocks' = D /\ blocks'[b] = k
      /\ \A c \in D \ {b} : blocks'[c] = blocks[c]
  BY <1>2
<1>6. /\ blocks' = [c \in DOMAIN blocks' |-> blocks'[c]]
      /\ \A c \in DOMAIN blocks' : blocks'[c] \in Block
      /\ \A c \in DOMAIN blocks' : blocks'[c].asked + Word < Modulus
           => blocks'[c].length >= blocks'[c].asked + Word
  BY <1>2, <1>4, <1>5, TrackFacts
<1>7. Sized(blocks', D)
  BY <1>3, <1>4, <1>5, TrackFacts DEF Sized
<1>8. o \in Nat
  BY TrackFacts DEF Sized
<1>9. Total' = Total + (s - o)
  <2>1. /\ SumOf(blocks, D) = o + SumOf(blocks, D \ {b})
        /\ SumOf(blocks, D \ {b}) \in Nat
    BY TrackFacts, SumAdds
  <2>2. SumOf(blocks', D) = s + SumOf(blocks', D \ {b})
    BY <1>4, <1>5, <1>7, TrackFacts, SumAdds
  <2>3. SumOf(blocks', D \ {b}) = SumOf(blocks, D \ {b})
    <3>1. IsFiniteSet(D \ {b})
      BY TrackFacts, FS_RemoveElement
    <3> QED
      BY <1>5, <3>1, SumSame
  <2>4. Total = o + SumOf(blocks, D \ {b}) /\ Total' = s + SumOf(blocks, D \ {b})
    BY <1>5, <2>1, <2>2, <2>3, TotalIs, TotalIsNext
  <2> HIDE DEF o
  <2> QED
    BY <1>3, <1>8, <2>1, <2>4
<1>10. cdsa_global_memory_used' = Total' % Modulus
  <2> DEFINE n == s - o
  <2>1. n \in Int /\ cdsa_global_memory_used + n = cdsa_global_memory_used - o + s
    <3>1. cdsa_global_memory_used \in Int
      BY TrackFacts
    <3> QED
      BY <1>3, <1>8, <3>1
  <2>2. ((Total % Modulus) + n) % Modulus = (Total + n) % Modulus
    <3> HIDE DEF n
    <3> QED
      BY <2>1, TrackFacts, ModShift
  <2> QED
    BY <1>2, <1>9, <2>1, <2>2, TrackFacts
<1> QED
  BY <1>5, <1>6, <1>10, TrackFacts DEF Tracks, TelemetryExact, Size_t

-----------------------------------------------------------------------------
(* A string as it is between two calls.                                    *)
Chars == UNION {{t[i] : i \in DOMAIN t} : t \in Texts}
Characters == Chars \cup {Nul, Junk}

Stored == /\ size = Len(text) /\ size < Len(data) /\ data[size + 1] = Nul
          /\ \A i \in 1 .. size : data[i] = text[i]

StringInv ==
  /\ text \in Seq(Chars) /\ data \in Seq(Characters) /\ capacity \in 0 .. MaxCapacity
  /\ ~string_live => data = <<>> /\ ~failed /\ ~overrun
  /\ string_live /\ ~overrun => Stored
  /\ ~failed => capacity = Len(data) /\ ~overrun

LEMMA CapacityRange ==
  /\ MaxCapacity \in Nat /\ INITIAL_CAPACITY \in 1 .. MaxCapacity
  /\ INITIAL_CAPACITY \in Nat /\ INITIAL_CAPACITY > 0
  /\ 0 .. MaxCapacity \subseteq 0 .. Modulus - 1
<1>1. MaxCapacity \in 1 .. Modulus - 1 - Word /\ INITIAL_CAPACITY \in 1 .. MaxCapacity
  BY AllocatorsAssumption
<1>2. Modulus \in Nat /\ Word \in Nat
  BY TrackedHeapAssumption
<1> QED
  BY <1>1, <1>2

LEMMA TextIsSeq == \A t \in Texts : t \in Seq(Chars)
<1> SUFFICES ASSUME NEW t \in Texts PROVE t \in Seq(Chars)
  OBVIOUS
<1>1. t \in Seq({t[i] : i \in DOMAIN t})
  BY AllocatorsAssumption
<1>2. Len(t) \in Nat /\ t \in [1 .. Len(t) -> {t[i] : i \in DOMAIN t}]
  BY <1>1, LenProperties
<1>3. t \in [1 .. Len(t) -> Chars]
  BY <1>2 DEF Chars
<1> QED
  BY <1>2, <1>3, SeqDef

LEMMA SeqOf ==
  ASSUME NEW S, NEW n \in Nat, NEW f \in [1 .. n -> S]
  PROVE  f \in Seq(S) /\ Len(f) = n
<1>1. f \in Seq(S)
  BY SeqDef
<1>2. Len(f) \in Nat /\ DOMAIN f = 1 .. Len(f)
  BY <1>1, LenProperties
<1> QED
  BY <1>1, <1>2

LEMMA StringInitInv == String!Init => StringInv
<1> SUFFICES ASSUME String!Init PROVE StringInv
  OBVIOUS
<1>1. /\ text = <<>> /\ data = <<>> /\ capacity = 0
      /\ string_live = FALSE /\ failed = FALSE /\ overrun = FALSE
  BY DEF String!Init
<1>2. text \in Seq(Chars) /\ data \in Seq(Characters) /\ Len(data) = 0
  BY <1>1
<1> QED
  BY <1>1, <1>2, CapacityRange DEF StringInv

LEMMA StringCreateInv == StringInv /\ String!Create => StringInv'
<1> SUFFICES ASSUME StringInv, String!Create PROVE StringInv'
  OBVIOUS
<1> DEFINE n == INITIAL_CAPACITY
<1>1. /\ string_live' = TRUE /\ size' = 0 /\ capacity' = n /\ text' = <<>>
      /\ data' = [i \in 1 .. n |-> IF i = 1 THEN Nul ELSE Junk]
      /\ ~failed /\ ~overrun /\ failed' = failed /\ overrun' = overrun
  BY DEF String!Create, StringInv
<1>2. n \in Nat /\ n > 0 /\ n \in 0 .. MaxCapacity
  BY CapacityRange
<1> HIDE DEF n
<1>3. data' \in [1 .. n -> Characters]
  BY <1>1 DEF Characters
<1>4. data' \in Seq(Characters) /\ Len(data') = n
  BY <1>2, <1>3, SeqOf
<1>5. data'[1] = Nul
  BY <1>1, <1>2
<1>6. text' \in Seq(Chars) /\ Len(text') = 0
  BY <1>1
<1>7. Stored'
  BY <1>1, <1>2, <1>4, <1>5, <1>6 DEF Stored
<1> QED
  BY <1>1, <1>2, <1>4, <1>6, <1>7 DEF StringInv

LEMMA StringFreeInv == StringInv /\ String!Free => StringInv'
<1> SUFFICES ASSUME StringInv, String!Free PROVE StringInv'
  OBVIOUS
<1>1. /\ string_live' = FALSE /\ data' = <<>> /\ capacity' = 0 /\ text' = <<>>
      /\ failed' = FALSE /\ ~overrun /\ overrun' = overrun
  BY DEF String!Free, String!Called
<1>2. text' \in Seq(Chars) /\ data' \in Seq(Characters) /\ Len(data') = 0
  BY <1>1
<1> QED
  BY <1>1, <1>2, CapacityRange DEF StringInv

LEMMA StringClearInv == StringInv /\ String!Clear => StringInv' /\ Len(data') = Len(data)
<1> SUFFICES ASSUME StringInv, String!Clear
             PROVE  StringInv' /\ Len(data') = Len(data)
  OBVIOUS
<1>1. /\ string_live /\ ~overrun /\ size' = 0 /\ text' = <<>>
      /\ data' = [data EXCEPT ![1] = Nul]
      /\ string_live' = string_live /\ capacity' = capacity
      /\ failed' = failed /\ overrun' = overrun
  BY DEF String!Clear, String!Called
<1>2. /\ Stored /\ data \in Seq(Characters) /\ text \in Seq(Chars)
      /\ Len(text) \in Nat /\ Len(data) \in Nat /\ data \in [1 .. Len(data) -> Characters]
  BY <1>1, LenProperties DEF StringInv
<1>3. Len(data) > 0 /\ 1 \in 1 .. Len(data)
  BY <1>2 DEF Stored
<1>4. data' \in [1 .. Len(data) -> Characters] /\ data'[1] = Nul
  BY <1>1, <1>2, <1>3 DEF Characters
<1>5. data' \in Seq(Characters) /\ Len(data') = Len(data)
  BY <1>2, <1>4, SeqOf
<1>6. text' \in Seq(Chars) /\ Len(text') = 0
  BY <1>1
<1>7. Stored'
  BY <1>1, <1>3, <1>4, <1>5, <1>6 DEF Stored
<1> QED
  BY <1>1, <1>5, <1>6, <1>7 DEF StringInv

(* The bytes after a copy of t behind the size bytes, in a block of n.     *)
LEMMA StoreKeeps ==
  ASSUME StringInv, String!Called, NEW t \in Texts, NEW n \in Nat, String!Store(t, n)
  PROVE  /\ data' \in Seq(Characters) /\ Len(data') = n /\ text' \in Seq(Chars)
         /\ ~overrun' => Stored'
         /\ overrun' = (String!required_space(t) > n)
         /\ string_live' = string_live /\ string_live
<1>1. /\ data' = [i \in 1 .. n |->
                    IF i > size /\ i <= size + Len(t) THEN t[i - size]
                    ELSE IF i = size + Len(t) + 1 THEN Nul
                    ELSE IF i <= Len(data) THEN data[i] ELSE Junk]
      /\ overrun' = (size + Len(t) + 1 > n)
      /\ size' = size + Len(t) /\ text' = text \o t /\ string_live' = string_live
  BY DEF String!Store, String!required_space
<1>2. /\ string_live /\ Stored /\ data \in Seq(Characters) /\ text \in Seq(Chars)
      /\ t \in Seq(Chars)
  BY TextIsSeq DEF String!Called, StringInv
<1>3. /\ Len(t) \in Nat /\ t \in [1 .. Len(t) -> Chars]
      /\ Len(text) \in Nat /\ Len(data) \in Nat /\ data \in [1 .. Len(data) -> Characters]
  BY <1>2, LenProperties
<1>4. /\ size = Len(text) /\ size < Len(data) /\ size \in Nat
      /\ \A i \in 1 .. size : data[i] = text[i]
  BY <1>2, <1>3 DEF Stored
<1>5. ASSUME NEW i \in 1 .. n PROVE data'[i] \in Characters
  <2>1. CASE i > size /\ i <= size + Len(t)
    <3>1. i - size \in 1 .. Len(t)
      BY <1>3, <1>4, <2>1
    <3> QED
      BY <1>1, <1>3, <2>1, <3>1 DEF Characters
  <2>2. CASE ~(i > size /\ i <= size + Len(t)) /\ i <= Len(data)
    <3>1. i \in 1 .. Len(data)
      BY <1>3, <2>2
    <3> QED
      BY <1>1, <1>3, <2>2, <3>1 DEF Characters
  <2>3. CASE ~(i > size /\ i <= size + Len(t)) /\ ~(i <= Len(data))
    BY <1>1, <2>3 DEF Characters
  <2> QED
    BY <2>1, <2>2, <2>3
<1>6. data' \in [1 .. n -> Characters]
  BY <1>1, <1>5
<1>7. data' \in Seq(Characters) /\ Len(data') = n
  BY <1>6, SeqOf
<1>8. /\ text' \in Seq(Chars) /\ Len(text') = Len(text) + Len(t)
      /\ \A i \in 1 .. Len(text) + Len(t) :
           text'[i] = IF i <= Len(text) THEN text[i] ELSE t[i - Len(text)]
  BY <1>1, <1>2, ConcatProperties
<1>9. ASSUME ~overrun' PROVE Stored'
  <2>1. size + Len(t) + 1 <= n /\ size + Len(t) + 1 \in 1 .. n
    <3>1. ~(size + Len(t) + 1 > n)
      BY <1>1, <1>9, Zenon
    <3> QED
      BY <1>3, <1>4, <3>1
  <2>2. data'[size + Len(t) + 1] = Nul
    <3>1. ~(size + Len(t) + 1 <= size + Len(t))
      BY <1>3, <1>4
    <3> QED
      BY <1>1, <2>1, <3>1
  <2>3. ASSUME NEW i \in 1 .. size + Len(t) PROVE data'[i] = text'[i]
    <3>1. i \in 1 .. n
      BY <1>3, <1>4, <2>1
    <3>2. CASE i <= size
      <4>1. /\ i \in 1 .. size /\ i <= Len(data) /\ ~(i > size) /\ i # size + Len(t) + 1
        BY <1>3, <1>4, <3>2
      <4>2. data'[i] = data[i]
        BY <1>1, <3>1, <4>1
      <4> QED
        BY <1>3, <1>4, <1>8, <3>2, <4>1, <4>2
    <3>3. CASE ~(i <= size)
      <4>1. i > size /\ i <= size + Len(t)
        BY <1>3, <1>4, <3>3
      <4> QED
        BY <1>1, <1>3, <1>4, <1>8, <3>1, <3>3, <4>1
    <3> QED
      BY <3>2, <3>3
  <2> QED
    BY <1>1, <1>3, <1>4, <1>7, <1>8, <2>1, <2>2, <2>3 DEF Stored
<1> QED
  BY <1>1, <1>2, <1>7, <1>8, <1>9 DEF String!required_space
LEMMA AppendFitsInv ==
  ASSUME StringInv, NEW t \in Texts, String!AppendFits(t)
  PROVE  StringInv' /\ Len(data') = Len(data)
<1>1. Len(data) \in Nat
  BY LenProperties DEF StringInv
<1>2. /\ String!Called /\ String!Store(t, Len(data))
      /\ String!required_space(t) <= capacity
      /\ capacity' = capacity /\ failed' = failed
  BY DEF String!AppendFits
<1>3. /\ data' \in Seq(Characters) /\ Len(data') = Len(data) /\ text' \in Seq(Chars)
      /\ ~overrun' => Stored'
      /\ overrun' = (String!required_space(t) > Len(data))
      /\ string_live' = string_live /\ string_live
  BY <1>1, <1>2, StoreKeeps
<1>4. ASSUME ~failed' PROVE capacity' = Len(data') /\ ~overrun'
  <2>1. capacity = Len(data) /\ ~failed
    BY <1>2, <1>4 DEF StringInv
  <2>2. String!required_space(t) \in Int
    <3>1. Len(t) \in Nat
      BY TextIsSeq, LenProperties
    <3>2. size \in Nat
      <4>1. Stored /\ text \in Seq(Chars)
        BY <1>2 DEF String!Called, StringInv
      <4> QED
        BY <4>1, LenProperties DEF Stored
    <3> QED
      BY <3>1, <3>2 DEF String!required_space
  <2>3. ~(String!required_space(t) > Len(data))
    BY <1>1, <1>2, <2>1, <2>2
  <2>4. ~overrun'
    BY <1>3, <2>3, Zenon
  <2> QED
    BY <1>2, <1>3, <2>1, <2>4
<1> QED
  BY <1>2, <1>3, <1>4 DEF StringInv

LEMMA DoubledRange ==
  ASSUME StringInv, NEW n, NEW c \in String!Doubled(n)
  PROVE  c \in Nat /\ c \in 0 .. MaxCapacity /\ c >= capacity /\ c >= n
<1>1. capacity \in Nat /\ MaxCapacity \in Nat
  BY CapacityRange DEF StringInv
<1>2. c \in capacity .. MaxCapacity /\ c >= n
  BY DEF String!Doubled
<1> QED
  BY <1>1, <1>2

LEMMA AppendGrowsInv ==
  ASSUME StringInv, NEW t \in Texts, String!AppendGrows(t)
  PROVE  /\ StringInv' /\ Len(data') = capacity' /\ capacity' # 0
         /\ capacity' \in 0 .. Modulus - 1
<1> DEFINE n == String!required_space(t)
<1>1. /\ String!Called /\ n > capacity /\ capacity' \in String!Doubled(n)
      /\ failed' = FALSE /\ String!Store(t, capacity')
  BY DEF String!AppendGrows
<1>2. /\ capacity' \in Nat /\ capacity' \in 0 .. MaxCapacity
      /\ capacity' >= capacity /\ capacity' >= n
  BY <1>1, DoubledRange
<1>3. n \in Nat /\ n > 0
  <2>1. Stored /\ text \in Seq(Chars) /\ t \in Seq(Chars)
    BY <1>1, TextIsSeq DEF String!Called, StringInv
  <2>2. size \in Nat /\ Len(t) \in Nat
    BY <2>1, LenProperties DEF Stored
  <2> QED
    BY <2>2 DEF String!required_space
<1>4. /\ data' \in Seq(Characters) /\ Len(data') = capacity' /\ text' \in Seq(Chars)
      /\ ~overrun' => Stored'
      /\ overrun' = (n > capacity')
      /\ string_live' = string_live /\ string_live
  BY <1>1, <1>2, StoreKeeps
<1>5. ~overrun'
  <2>1. ~(n > capacity')
    BY <1>2, <1>3
  <2> QED
    BY <1>4, <2>1, Zenon
<1>6. capacity' # 0 /\ capacity' \in 0 .. Modulus - 1
  BY <1>2, <1>3, CapacityRange
<1> QED
  BY <1>1, <1>2, <1>4, <1>5, <1>6 DEF StringInv

LEMMA AppendOOMInv ==
  ASSUME StringInv, NEW t \in Texts, String!AppendOOM(t)
  PROVE  StringInv' /\ data' = data
<1>1. /\ capacity' \in String!Doubled(String!required_space(t)) /\ failed' = TRUE
      /\ UNCHANGED <<string_live, data, size, text, overrun>> /\ string_live
  BY DEF String!AppendOOM, String!Called
<1>2. capacity' \in 0 .. MaxCapacity
  BY <1>1, DoubledRange
<1>3. Stored' = Stored
  BY <1>1 DEF Stored
<1> QED
  BY <1>1, <1>2, <1>3 DEF StringInv

LEMMA StringInvGivesExact == StringInv => String!StringExact
<1> SUFFICES ASSUME StringInv PROVE String!StringExact
  OBVIOUS
<1>1. ASSUME string_live, ~overrun
      PROVE  size < Len(data) /\ SubSeq(data, 1, size + 1) = Append(text, Nul)
  <2>1. Stored /\ data \in Seq(Characters) /\ text \in Seq(Chars)
    BY <1>1 DEF StringInv
  <2>2. /\ Len(text) \in Nat /\ Len(data) \in Nat /\ size = Len(text)
        /\ size < Len(data) /\ data[size + 1] = Nul
        /\ \A i \in 1 .. size : data[i] = text[i]
        /\ text \in [1 .. Len(text) -> Chars]
    BY <2>1, LenProperties DEF Stored
  <2> DEFINE d == SubSeq(data, 1, size + 1)
             e == Append(text, Nul)
  <2>3. text \in Seq(Characters) /\ Nul \in Characters
    <3>1. text \in [1 .. Len(text) -> Characters]
      BY <2>2 DEF Characters
    <3> QED
      BY <2>2, <3>1, SeqOf DEF Characters
  <2>4. /\ e \in Seq(Characters) /\ Len(e) = size + 1 /\ e[size + 1] = Nul
        /\ \A i \in 1 .. size : e[i] = text[i]
    BY <2>2, <2>3, AppendProperties
  <2>5. /\ d \in Seq(Characters) /\ Len(d) = size + 1
        /\ \A i \in 1 .. size + 1 : d[i] = data[i]
    <3>1. 1 \in 1 .. Len(data) + 1 /\ size + 1 \in 0 .. Len(data) /\ 1 <= size + 1
      BY <2>2
    <3>2. /\ d = [i \in 1 .. size + 1 |-> data[i]]
      BY <2>1, <2>2, <3>1, SubSeqProperties
    <3>3. d \in [1 .. size + 1 -> Characters]
      <4>1. \A i \in 1 .. size + 1 : data[i] \in Characters
        BY <2>1, <2>2, LenProperties
      <4> QED
        BY <3>2, <4>1
    <3>4. size + 1 \in Nat
      BY <2>2
    <3> HIDE DEF d
    <3> QED
      BY <3>2, <3>3, <3>4, SeqOf
  <2>6. \A i \in 1 .. size + 1 : d[i] = e[i]
    <3> HIDE DEF d, e
    <3> TAKE i \in 1 .. size + 1
    <3>1. CASE i \in 1 .. size
      BY <2>2, <2>4, <2>5, <3>1
    <3>2. CASE i = size + 1
      BY <2>2, <2>4, <2>5, <3>2
    <3> QED
      BY <2>2, <3>1, <3>2
  <2> HIDE DEF d, e
  <2>7. d = e
    BY <2>4, <2>5, <2>6, SeqEqual
  <2> QED
    BY <2>2, <2>7 DEF d, e
<1> QED
  BY <1>1 DEF StringInv, String!StringExact

-----------------------------------------------------------------------------
(* Whose the blocks are.  The struct of a pool, an arena or a string is    *)
(* there from the first call of its creation to the last of its            *)
(* destruction, its memory in between, each in one block.                  *)
Labels == {"pool", "slab", "arena", "buffer", "string", "data"}

Present(w) ==
  \/ w \in {"pool", "slab"} /\ pool_capacity > 0
  \/ w \in {"arena", "buffer"} /\ arena_live
  \/ w \in {"string", "data"} /\ string_live
  \/ w = "pool" /\ building \in {"pool", "free pool", "outside"}
  \/ w = "slab" /\ building = "outside"
  \/ w = "arena" /\ building \in {"arena", "free arena"}
  \/ w = "string" /\ building \in {"string", "free string"}

One(w) ==
  /\ Present(w) <=> \E b \in DOMAIN owner : owner[b] = w
  /\ \A b, c \in DOMAIN owner : owner[b] = w /\ owner[c] = w => b = c

(* Between the two calls of a creation or a destruction the object is not  *)
(* there, and a pool whose slab is too short never is.                     *)
NotLive ==
  /\ building \in {"no", "pool", "free pool", "outside",
                   "arena", "free arena", "string", "free string"}
  /\ building \in {"pool", "free pool", "outside"} => pool_capacity = 0
  /\ building \in {"arena", "free arena"} => ~arena_live
  /\ building \in {"string", "free string"} => ~string_live

SlabFor(n) == \E s \in BlockSizes : n = Padded(s) * pool_capacity /\ Padded(s) >= s
SizesRight ==
  \A b \in DOMAIN owner : /\ owner[b] = "slab" /\ pool_capacity > 0 => SlabFor(blocks[b].size)
                          /\ owner[b] = "buffer" => blocks[b].size = arena_capacity
                          /\ owner[b] = "data" => blocks[b].size = Len(data)

OwnerInv ==
  /\ DOMAIN owner = DOMAIN blocks /\ pool_capacity \in Nat
  /\ \A w \in Labels : One(w)
  /\ NotLive /\ SizesRight

LEMMA TakeOwned ==
  ASSUME Tracks, OwnerInv, NEW b, NEW asked \in Nat, Take(b, Size_t(asked), asked),
         NEW who, Owned(b, who),
         \A w \in Labels \ {who} : Present(w)' <=> Present(w),
         who \in Labels => ~Present(who) /\ Present(who)'
  PROVE  /\ Tracks' /\ DOMAIN owner' = DOMAIN blocks' /\ DOMAIN owner' = DOMAIN owner \cup {b}
         /\ \A w \in Labels : One(w)'
         /\ b \notin DOMAIN owner /\ owner'[b] = who /\ blocks'[b].size = asked % Modulus
         /\ \A c \in DOMAIN owner : owner'[c] = owner[c] /\ blocks'[c] = blocks[c]
<1>1. Tracks'
  BY TakeInv
<1>2. DOMAIN owner = DOMAIN blocks /\ \A w \in Labels : One(w)
  BY DEF OwnerInv
<1>3. /\ b \notin DOMAIN blocks
      /\ blocks' = Holding(b, Tracked(asked % Modulus, asked))
  BY DEF Take, Size_t
<1>4. /\ DOMAIN blocks' = DOMAIN blocks \cup {b} /\ blocks'[b].size = asked % Modulus
      /\ \A c \in DOMAIN blocks : blocks'[c] = blocks[c]
  BY <1>3 DEF Holding, Tracked
<1>5. /\ DOMAIN owner' = DOMAIN owner \cup {b} /\ owner'[b] = who
      /\ \A c \in DOMAIN owner : owner'[c] = owner[c]
  BY <1>2, <1>3 DEF Owned
<1>6. ASSUME NEW w \in Labels PROVE One(w)'
  <2>1. One(w)
    BY <1>2
  <2>2. CASE w = who
    <3>1. \A c \in DOMAIN owner : owner[c] # who
      BY <2>1, <2>2 DEF One
    <3> QED
      BY <1>5, <2>2, <3>1 DEF One
  <2>3. CASE w # who
    <3>1. Present(w)' <=> Present(w)
      BY <2>3
    <3>2. \A c \in DOMAIN owner' : owner'[c] = w => c \in DOMAIN owner /\ owner[c] = w
      BY <1>5, <2>3
    <3> QED
      BY <1>5, <2>1, <3>1, <3>2 DEF One
  <2> QED
    BY <2>2, <2>3
<1> QED
  BY <1>1, <1>2, <1>3, <1>4, <1>5, <1>6

LEMMA GiveOwned ==
  ASSUME Tracks, OwnerInv, NEW b \in DOMAIN blocks, Give(b), Disowned(b),
         NEW who, owner[b] = who,
         \A w \in Labels \ {who} : Present(w)' <=> Present(w),
         who \in Labels => ~Present(who)'
  PROVE  /\ Tracks' /\ DOMAIN owner' = DOMAIN blocks' /\ DOMAIN owner' = DOMAIN owner \ {b}
         /\ \A w \in Labels : One(w)'
         /\ \A c \in DOMAIN owner' : owner'[c] = owner[c] /\ blocks'[c] = blocks[c]
         /\ \A c \in DOMAIN owner' : who \in Labels => owner[c] # who
<1>1. Tracks'
  BY GiveInv
<1>2. DOMAIN owner = DOMAIN blocks /\ \A w \in Labels : One(w)
  BY DEF OwnerInv
<1>3. /\ DOMAIN blocks' = DOMAIN blocks \ {b}
      /\ \A c \in DOMAIN blocks' : blocks'[c] = blocks[c]
  BY DEF Give
<1>4. /\ DOMAIN owner' = DOMAIN owner \ {b}
      /\ \A c \in DOMAIN owner' : owner'[c] = owner[c]
  BY DEF Disowned
<1>5. ASSUME NEW w \in Labels PROVE One(w)'
  <2>1. One(w)
    BY <1>2
  <2>2. CASE w = who
    <3>1. \A c \in DOMAIN owner' : owner'[c] # w
      BY <1>2, <1>4, <2>1, <2>2 DEF One
    <3> QED
      BY <2>2, <3>1 DEF One
  <2>3. CASE w # who
    <3>1. Present(w)' <=> Present(w)
      BY <2>3
    <3>2. (\E c \in DOMAIN owner : owner[c] = w) <=> (\E c \in DOMAIN owner' : owner'[c] = w)
      BY <1>4, <2>3
    <3>3. \A c \in DOMAIN owner' : c \in DOMAIN owner /\ owner'[c] = owner[c]
      BY <1>4
    <3> QED
      BY <2>1, <3>1, <3>2, <3>3 DEF One
  <2> QED
    BY <2>2, <2>3
<1>6. ASSUME NEW c \in DOMAIN owner', who \in Labels PROVE owner[c] # who
  <2>1. One(who)
    BY <1>2, <1>6
  <2> QED
    BY <1>2, <1>4, <1>6, <2>1 DEF One
<1> QED
  BY <1>1, <1>2, <1>3, <1>4, <1>5, <1>6

(* Calls that take and give no block.                                      *)
LEMMA OwnersStay ==
  ASSUME OwnerInv, UNCHANGED owner, \A w \in Labels : Present(w)' <=> Present(w)
  PROVE  \A w \in Labels : One(w)'
  BY DEF OwnerInv, One

LEMMA BytesAreSize == \A s \in 0 .. Modulus - 1 : s \in Nat /\ s = Size_t(s) /\ s % Modulus = s
<1> SUFFICES ASSUME NEW s \in 0 .. Modulus - 1 PROVE s \in Nat /\ s % Modulus = s
  BY DEF Size_t
<1>1. Modulus \in Nat /\ Modulus > 0
  BY TrackedHeapAssumption
<1> QED
  BY <1>1, ModSmall
HeapInv == Tracks /\ OwnerInv /\ StringInv

LEMMA StringStays == StringInv /\ UNCHANGED stringVars => StringInv'
  BY DEF stringVars, StringInv, Stored

LEMMA PresentStays ==
  UNCHANGED <<pool_capacity, arena_live, string_live, building>>
    => \A w : Present(w)' <=> Present(w)
  BY DEF Present

(* A call that leaves the heap alone.                                      *)
LEMMA HeapStays ==
  ASSUME HeapInv, UNCHANGED <<vars, owner>>, StringInv',
         UNCHANGED <<pool_capacity, arena_live, arena_capacity, string_live, building>>,
         Len(data') = Len(data)
  PROVE  HeapInv'
<1>1. /\ Tracks /\ DOMAIN owner = DOMAIN blocks /\ pool_capacity \in Nat
      /\ NotLive /\ SizesRight /\ OwnerInv
  BY DEF HeapInv, OwnerInv
<1>2. Tracks'
  <2>1. Total' = Total
    BY TotalIs, TotalIsNext DEF vars
  <2> QED
    BY <1>1, <2>1 DEF vars, Tracks, TelemetryExact
<1>3. blocks' = blocks
  BY DEF vars
<1>4. NotLive' /\ SizesRight'
  BY <1>1, <1>3 DEF NotLive, SizesRight, SlabFor
<1>5. \A w \in Labels : One(w)'
  BY <1>1, PresentStays, OwnersStay
<1> QED
  BY <1>1, <1>2, <1>3, <1>4, <1>5 DEF HeapInv, OwnerInv

(* What a client's own call is: to the heap, and to the owners.            *)
LEMMA ClientCallInv == HeapInv /\ ClientCall => HeapInv'
<1> SUFFICES ASSUME HeapInv, ClientCall PROVE HeapInv'
  OBVIOUS
<1>1. /\ Tracks /\ OwnerInv /\ StringInv
      /\ UNCHANGED <<pool_capacity, arena_live, arena_capacity, string_live, data, building>>
      /\ StringInv'
  BY StringStays DEF HeapInv, ClientCall, poolVars, arenaVars, stringVars
<1>2. /\ DOMAIN owner = DOMAIN blocks /\ pool_capacity \in Nat
      /\ \A w \in Labels : One(w)
      /\ NotLive /\ SizesRight
  BY <1>1 DEF OwnerInv
<1>3. NotLive'
  BY <1>1, <1>2 DEF NotLive
<1>4. \A w : Present(w)' <=> Present(w)
  BY <1>1, PresentStays
<1>5. "client" \notin Labels
  BY DEF Labels
<1>6. CASE \E b \in Ids : ClientTakes(b)
  <2>1. PICK b \in Ids : ClientTakes(b)
    BY <1>6
  <2>2. \E asked \in Nat : Take(b, Size_t(asked), asked)
    <3>1. CASE \E s \in Sizes : Malloc_track(b, s)
      <4>1. PICK s \in Sizes : Take(b, s, s)
        BY <3>1 DEF Malloc_track
      <4>2. s \in Nat /\ s = Size_t(s)
        BY BytesAreSize, TrackedHeapAssumption
      <4> QED
        BY <4>1, <4>2
    <3>2. CASE \E s \in Sizes, n \in Counts : Calloc_track(b, n, s)
      <4>1. PICK s \in Sizes, n \in Counts : Take(b, Size_t(n * s), n * s)
        BY <3>2 DEF Calloc_track
      <4>2. s \in Nat /\ n \in Nat
        BY BytesAreSize, TrackedHeapAssumption
      <4>3. n * s \in Nat
        BY <4>2
      <4> QED
        BY <4>1, <4>3
    <3> QED
      BY <2>1, <3>1, <3>2 DEF ClientTakes
  <2>3. PICK asked \in Nat : Take(b, Size_t(asked), asked)
    BY <2>2
  <2>4. Owned(b, "client")
    BY <2>1 DEF ClientTakes
  <2>5. /\ Tracks' /\ DOMAIN owner' = DOMAIN blocks' /\ DOMAIN owner' = DOMAIN owner \cup {b}
        /\ \A w \in Labels : One(w)'
        /\ owner'[b] = "client"
        /\ \A c \in DOMAIN owner : owner'[c] = owner[c] /\ blocks'[c] = blocks[c]
    BY <1>1, <1>4, <1>5, <2>3, <2>4, TakeOwned
  <2>6. SizesRight'
    BY <1>1, <1>2, <2>5 DEF SizesRight, SlabFor
  <2> QED
    BY <1>1, <1>2, <1>3, <2>5, <2>6 DEF HeapInv, OwnerInv
<1>7. CASE \E b \in DOMAIN blocks : owner[b] = "client" /\ ClientGives(b)
  <2>1. PICK b \in DOMAIN blocks : owner[b] = "client" /\ ClientGives(b)
    BY <1>7
  <2>2. Give(b) /\ Disowned(b)
    BY <2>1 DEF ClientGives, Free_track, Realloc_trackZero
  <2>3. /\ Tracks' /\ DOMAIN owner' = DOMAIN blocks' /\ DOMAIN owner' = DOMAIN owner \ {b}
        /\ \A w \in Labels : One(w)'
        /\ \A c \in DOMAIN owner' : owner'[c] = owner[c] /\ blocks'[c] = blocks[c]
    BY <1>1, <1>4, <1>5, <2>1, <2>2, GiveOwned
  <2>4. SizesRight'
    BY <1>1, <1>2, <2>3 DEF SizesRight, SlabFor
  <2> QED
    BY <1>1, <1>2, <1>3, <2>3, <2>4 DEF HeapInv, OwnerInv
<1>8. CASE \E b \in DOMAIN blocks : owner[b] = "client" /\ ClientResizes(b)
  <2>1. PICK b \in DOMAIN blocks, s \in Sizes :
          owner[b] = "client" /\ Realloc_track(b, s) /\ owner' = owner
    BY <1>8 DEF ClientResizes
  <2>2. s \in 0 .. Modulus - 1
    BY TrackedHeapAssumption
  <2>3. Tracks' /\ DOMAIN blocks' = DOMAIN blocks
    BY <1>1, <2>1, <2>2, ResizeInv
  <2>4. \A c \in DOMAIN blocks : c # b => blocks'[c] = blocks[c]
    BY <2>1 DEF Realloc_track
  <2>5. SizesRight'
    BY <1>1, <1>2, <2>1, <2>4 DEF SizesRight, SlabFor
  <2>6. \A w \in Labels : One(w)'
    BY <1>1, <1>4, <2>1, OwnersStay
  <2> QED
    BY <1>1, <1>2, <1>3, <2>1, <2>3, <2>5, <2>6 DEF HeapInv, OwnerInv
<1>9. CASE TrackOOM /\ UNCHANGED owner
  BY <1>1, <1>9, HeapStays DEF TrackOOM
<1> QED
  BY <1>6, <1>7, <1>8, <1>9 DEF ClientCall

LEMMA PoolAndArenaCallInv == HeapInv /\ (PoolCall \/ ArenaCall) => HeapInv'
<1> SUFFICES ASSUME HeapInv, PoolCall \/ ArenaCall PROVE HeapInv'
  OBVIOUS
<1>1. CASE PoolCall
  <2>1. pool_capacity' = pool_capacity
    BY <1>1 DEF PoolCall, Pool!Alloc, Pool!AllocExhausted, Pool!Use, Pool!Free
  <2> QED
    BY <1>1, <2>1, StringStays, HeapStays DEF PoolCall, arenaVars, stringVars, HeapInv
<1>2. CASE ArenaCall
  <2>1. arena_live' = arena_live /\ arena_capacity' = arena_capacity
    BY <1>2 DEF ArenaCall, Region!Reset, Region!Alloc, Region!AllocNull, Region!vars
  <2> QED
    BY <1>2, <2>1, StringStays, HeapStays DEF ArenaCall, poolVars, stringVars, HeapInv
<1> QED
  BY <1>1, <1>2

(* An append may resize the block of the text: it stays the string's, and  *)
(* is as long as the capacity.                                             *)
LEMMA StringCallInv == HeapInv /\ StringCall => HeapInv'
<1> SUFFICES ASSUME HeapInv, StringCall PROVE HeapInv'
  OBVIOUS
<1>1. /\ UNCHANGED <<pool_capacity, arena_live, arena_capacity, owner, building>>
      /\ Tracks /\ OwnerInv /\ StringInv
  BY DEF StringCall, poolVars, arenaVars, HeapInv
<1>2. CASE TrackOOM /\ (String!Clear \/ \E t \in Texts : String!AppendFits(t) \/ String!AppendOOM(t))
  <2>1. StringInv' /\ Len(data') = Len(data)
    BY <1>1, <1>2, StringClearInv, AppendFitsInv, AppendOOMInv
  <2>2. string_live' = string_live
    BY <1>2 DEF String!Clear, String!AppendFits, String!AppendOOM, String!Store
  <2> QED
    BY <1>1, <1>2, <2>1, <2>2, HeapStays DEF TrackOOM
<1>3. CASE \E b \in DOMAIN owner, t \in Texts :
             owner[b] = "data" /\ String!AppendGrows(t) /\ Realloc_track(b, capacity')
  <2>1. PICK b \in DOMAIN owner, t \in Texts :
               owner[b] = "data" /\ String!AppendGrows(t) /\ Realloc_track(b, capacity')
    BY <1>3
  <2>2. /\ DOMAIN owner = DOMAIN blocks /\ pool_capacity \in Nat
        /\ One("data") /\ NotLive /\ SizesRight
    BY <1>1 DEF OwnerInv, Labels
  <2>3. /\ StringInv' /\ Len(data') = capacity' /\ capacity' \in 0 .. Modulus - 1
    BY <1>1, <2>1, AppendGrowsInv
  <2>4. string_live' = string_live
    BY <2>1 DEF String!AppendGrows, String!Store
  <2>5. PICK s \in 0 .. Modulus - 1 : s = capacity'
    BY <2>3
  <2>6. Realloc_track(b, s)
    BY <2>1, <2>5
  <2>7. Tracks' /\ DOMAIN blocks' = DOMAIN blocks
    BY <1>1, <2>2, <2>6, ResizeInv
  <2>8. /\ \A c \in DOMAIN blocks : c # b => blocks'[c] = blocks[c]
        /\ blocks'[b].size = s
    BY <2>2, <2>6 DEF Realloc_track, Retracked, Tracked
  <2>9. SizesRight'
    <3>1. \A c \in DOMAIN owner : owner[c] = "data" => c = b
      BY <2>1, <2>2 DEF One
    <3> QED
      BY <1>1, <2>1, <2>2, <2>3, <2>5, <2>8, <3>1 DEF SizesRight, SlabFor
  <2>10. \A w \in Labels : One(w)'
    BY <1>1, <2>4, PresentStays, OwnersStay
  <2>11. NotLive'
    BY <1>1, <2>2, <2>4 DEF NotLive
  <2> QED
    BY <1>1, <2>2, <2>3, <2>7, <2>9, <2>10, <2>11 DEF HeapInv, OwnerInv
<1> QED
  BY <1>2, <1>3 DEF StringCall

(* The first call of a creation.  Nobody but the client has a block, so    *)
(* there is no pool, no arena and no string.                               *)
LEMMA GetStructInv ==
  ASSUME HeapInv, NEW b \in Ids, NEW who \in {"pool", "arena", "string"}, GetStruct(b, who)
  PROVE  HeapInv'
<1>1. /\ Tracks /\ OwnerInv /\ StringInv
      /\ UNCHANGED <<pool_capacity, arena_live, arena_capacity, string_live, data>>
      /\ StringInv' /\ building = "no" /\ building' = who
      /\ \A c \in DOMAIN owner : owner[c] = "client"
      /\ Take(b, StructSize, StructSize) /\ Owned(b, who)
  BY StringStays DEF HeapInv, GetStruct, Idle, poolVars, arenaVars, stringVars, Malloc_track
<1>2. StructSize \in Nat /\ StructSize = Size_t(StructSize)
  <2>1. StructSize \in 0 .. Modulus - 1
    BY AllocatorsAssumption, TrackedHeapAssumption
  <2> QED
    BY <2>1, BytesAreSize
<1>3. \A w \in Labels : ~Present(w)
  BY <1>1 DEF OwnerInv, One, Labels
<1>4. pool_capacity = 0 /\ ~arena_live /\ ~string_live
  BY <1>1, <1>3 DEF Present, Labels, OwnerInv
<1>5. who \in Labels /\ Present(who)' /\ \A w \in Labels \ {who} : ~Present(w)'
  <2>1. pool_capacity' = 0 /\ ~arena_live' /\ ~string_live' /\ building' = who
    BY <1>1, <1>4
  <2>2. who \in Labels
    BY DEF Labels
  <2>3. Present(who)'
    BY <2>1 DEF Present
  <2>4. ASSUME NEW w \in Labels \ {who} PROVE ~Present(w)'
    <3>1. CASE who = "pool"
      BY <2>1, <3>1 DEF Present
    <3>2. CASE who = "arena"
      BY <2>1, <3>2 DEF Present
    <3>3. CASE who = "string"
      BY <2>1, <3>3 DEF Present
    <3> QED
      BY <3>1, <3>2, <3>3
  <2> QED
    BY <2>2, <2>3, <2>4
<1>6. /\ Tracks' /\ DOMAIN owner' = DOMAIN blocks' /\ DOMAIN owner' = DOMAIN owner \cup {b}
      /\ \A w \in Labels : One(w)'
      /\ owner'[b] = who
      /\ \A c \in DOMAIN owner : owner'[c] = owner[c] /\ blocks'[c] = blocks[c]
  BY <1>1, <1>2, <1>3, <1>5, TakeOwned
<1>7. SizesRight'
  BY <1>1, <1>6 DEF SizesRight
<1>8. NotLive'
  BY <1>1, <1>4 DEF NotLive
<1> QED
  BY <1>1, <1>4, <1>6, <1>7, <1>8 DEF HeapInv, OwnerInv

(* The second call of a creation: the memory.                              *)
LEMMA PaddedFacts ==
  ASSUME NEW s \in BlockSizes
  PROVE  /\ Padded(s) \in Nat
         /\ Padded(s) > 0 => Padded(s) >= s
<1> DEFINE t == IF s < 8 THEN 8 ELSE s
           p == (8 - (t % 8)) % 8
           u == t + p
<1>1. s \in 0 .. Modulus - 1 /\ Modulus \in Nat /\ Modulus > 0 /\ Modulus % 8 = 0
  BY AllocatorsAssumption, TrackedHeapAssumption
<1>2. t \in Nat /\ t >= s /\ t >= 8 /\ t <= Modulus
  <2>1. Modulus >= 8
    BY <1>1
  <2> QED
    BY <1>1, <2>1
<1>3. Padded(s) = u % Modulus
  BY DEF Padded, Size_t
<1> HIDE DEF t
<1>4. u \in Nat /\ u >= t /\ u < t + 8 /\ u % 8 = 0
  BY <1>2
<1> HIDE DEF u
<1>5. u <= Modulus
  BY <1>1, <1>2, <1>4
<1>6. CASE u = Modulus
  <2>1. u % Modulus = 0
    BY <1>1, <1>6
  <2> QED
    BY <1>3, <2>1
<1>7. CASE u < Modulus
  <2>1. u % Modulus = u
    BY <1>1, <1>4, <1>7
  <2> QED
    BY <1>1, <1>2, <1>3, <1>4, <2>1
<1> QED
  BY <1>1, <1>4, <1>5, <1>6, <1>7

LEMMA PoolSlabInv ==
  ASSUME HeapInv, NEW b \in Ids, NEW s \in BlockSizes, NEW c \in PoolCapacities,
         PoolSlab(b, s, c) \/ PoolSlabShort(b, s, c)
  PROVE  HeapInv'
<1> DEFINE n == Padded(s) * c
<1>1. /\ Tracks /\ OwnerInv /\ StringInv /\ NotLive
      /\ UNCHANGED <<arena_live, arena_capacity, string_live, data>>
      /\ StringInv' /\ building = "pool" /\ pool_capacity = 0
      /\ Owned(b, "slab")
      /\ \/ building' = "no" /\ pool_capacity' = c /\ c > 0 /\ SlabFits(s, c)
         \/ building' = "outside" /\ pool_capacity' = 0
  BY StringStays DEF HeapInv, OwnerInv, NotLive, PoolSlab, PoolSlabShort, poolVars, arenaVars,
                     stringVars, Pool!Create
<1>2. c \in Nat /\ Padded(s) \in Nat /\ n \in Nat
  <2>1. c \in Nat /\ Padded(s) \in Nat
    BY AllocatorsAssumption, PaddedFacts
  <2>2. \A x, y \in Nat : x * y \in Nat
    OBVIOUS
  <2> QED
    BY <2>1, <2>2
<1>3. SlabFits(s, c) => n \in 0 .. Modulus - 1 /\ n % Modulus = n /\ Padded(s) >= s
  <2>1. Modulus \in Nat /\ Word \in Nat
    BY TrackedHeapAssumption
  <2> SUFFICES ASSUME SlabFits(s, c)
               PROVE  n \in 0 .. Modulus - 1 /\ n % Modulus = n /\ Padded(s) >= s
    OBVIOUS
  <2>2. n + Word < Modulus /\ Padded(s) > 0
    BY DEF SlabFits
  <2> HIDE DEF n
  <2>3. n \in 0 .. Modulus - 1
    BY <1>2, <2>1, <2>2
  <2> QED
    BY <2>2, <2>3, BytesAreSize, PaddedFacts
<1>4. Take(b, Size_t(n), n)
  <2>1. CASE PoolSlab(b, s, c)
    BY <1>3, <2>1 DEF PoolSlab, Malloc_track, Size_t
  <2>2. CASE PoolSlabShort(b, s, c)
    BY <2>2 DEF PoolSlabShort
  <2> QED
    BY <2>1, <2>2
<1> HIDE DEF n
<1>5. /\ ~Present("slab") /\ Present("slab")'
  BY <1>1 DEF Present
<1>6. ASSUME NEW w \in Labels \ {"slab"} PROVE Present(w)' <=> Present(w)
  <2>1. CASE w = "pool"
    BY <1>1, <2>1 DEF Present
  <2>2. CASE w # "pool"
    BY <1>1, <2>2 DEF Present
  <2> QED
    BY <2>1, <2>2
<1>7. /\ Tracks' /\ DOMAIN owner' = DOMAIN blocks' /\ DOMAIN owner' = DOMAIN owner \cup {b}
      /\ \A w \in Labels : One(w)'
      /\ owner'[b] = "slab" /\ blocks'[b].size = n % Modulus
      /\ \A d \in DOMAIN owner : owner'[d] = owner[d] /\ blocks'[d] = blocks[d]
  BY <1>1, <1>2, <1>4, <1>5, <1>6, TakeOwned
<1>8. \A d \in DOMAIN owner : owner[d] # "slab"
  BY <1>1, <1>5 DEF OwnerInv, One, Labels
<1>9. pool_capacity' > 0 => SlabFor(blocks[b].size)'
  <2> SUFFICES ASSUME pool_capacity' > 0 PROVE SlabFor(blocks[b].size)'
    OBVIOUS
  <2>1. pool_capacity' = c /\ SlabFits(s, c)
    BY <1>1
  <2> QED
    BY <1>3, <1>7, <2>1 DEF SlabFor, n
<1>10. SizesRight'
  BY <1>1, <1>7, <1>8, <1>9 DEF SizesRight, OwnerInv
<1>11. NotLive'
  BY <1>1 DEF NotLive
<1> QED
  BY <1>1, <1>2, <1>7, <1>10, <1>11 DEF HeapInv, OwnerInv

LEMMA ArenaBufferInv ==
  ASSUME HeapInv, NEW b \in Ids, NEW a \in Addresses, NEW c \in ArenaCapacities,
         ArenaBuffer(b, a, c)
  PROVE  HeapInv'
<1>1. /\ Tracks /\ OwnerInv /\ StringInv
      /\ UNCHANGED <<pool_capacity, string_live, data>>
      /\ StringInv' /\ building = "arena" /\ building' = "no"
      /\ ~arena_live /\ arena_live' /\ arena_capacity' = c
      /\ Take(b, c, c) /\ Owned(b, "buffer")
  BY StringStays DEF HeapInv, ArenaBuffer, poolVars, stringVars, Region!Create, Malloc_track
<1>2. c \in 0 .. Modulus - 1
  <2>1. /\ Modulus \in Nat /\ a \in Nat /\ c \in Nat /\ Align \in Nat \ {0}
        /\ a + c + Align <= Modulus
    BY AllocatorsAssumption, TrackedHeapAssumption
  <2> QED
    BY <2>1
<1>3. c \in Nat /\ c = Size_t(c) /\ c % Modulus = c
  BY <1>2, BytesAreSize
<1>4. ~Present("buffer") /\ Present("buffer")'
  BY <1>1 DEF Present
<1>5. ASSUME NEW w \in Labels \ {"buffer"} PROVE Present(w)' <=> Present(w)
  <2>1. CASE w = "arena"
    BY <1>1, <2>1 DEF Present
  <2>2. CASE w # "arena"
    BY <1>1, <2>2 DEF Present
  <2> QED
    BY <2>1, <2>2
<1>6. /\ Tracks' /\ DOMAIN owner' = DOMAIN blocks' /\ DOMAIN owner' = DOMAIN owner \cup {b}
      /\ \A w \in Labels : One(w)'
      /\ b \notin DOMAIN owner /\ owner'[b] = "buffer" /\ blocks'[b].size = c % Modulus
      /\ \A d \in DOMAIN owner : owner'[d] = owner[d] /\ blocks'[d] = blocks[d]
  BY <1>1, <1>3, <1>4, <1>5, TakeOwned
<1>7. SizesRight'
  <2>1. \A d \in DOMAIN owner : owner[d] # "buffer"
    BY <1>1, <1>4 DEF OwnerInv, One, Labels
  <2> QED
    BY <1>1, <1>3, <1>6, <2>1 DEF SizesRight, SlabFor, OwnerInv
<1>8. NotLive'
  BY <1>1 DEF NotLive
<1> QED
  BY <1>1, <1>6, <1>7, <1>8 DEF HeapInv, OwnerInv

LEMMA StringDataInv ==
  ASSUME HeapInv, NEW b \in Ids, StringData(b)
  PROVE  HeapInv'
<1> DEFINE c == INITIAL_CAPACITY
<1>1. /\ Tracks /\ OwnerInv /\ StringInv /\ String!Create
      /\ UNCHANGED <<pool_capacity, arena_live, arena_capacity>>
      /\ StringInv' /\ building = "string" /\ building' = "no"
      /\ ~string_live /\ string_live' /\ capacity' = c
      /\ Take(b, c, c) /\ Owned(b, "data")
  BY StringCreateInv DEF HeapInv, StringData, poolVars, arenaVars, String!Create, Malloc_track
<1>2. Len(data') = c
  BY <1>1 DEF String!Create, StringInv
<1>3. c \in Nat /\ c = Size_t(c) /\ c % Modulus = c
  <2>1. c \in 0 .. Modulus - 1
    BY CapacityRange
  <2> QED
    BY <2>1, BytesAreSize
<1>4. ~Present("data") /\ Present("data")'
  BY <1>1 DEF Present
<1>5. ASSUME NEW w \in Labels \ {"data"} PROVE Present(w)' <=> Present(w)
  <2>1. CASE w = "string"
    BY <1>1, <2>1 DEF Present
  <2>2. CASE w # "string"
    BY <1>1, <2>2 DEF Present
  <2> QED
    BY <2>1, <2>2
<1>6. /\ Tracks' /\ DOMAIN owner' = DOMAIN blocks' /\ DOMAIN owner' = DOMAIN owner \cup {b}
      /\ \A w \in Labels : One(w)'
      /\ b \notin DOMAIN owner /\ owner'[b] = "data" /\ blocks'[b].size = c % Modulus
      /\ \A d \in DOMAIN owner : owner'[d] = owner[d] /\ blocks'[d] = blocks[d]
  BY <1>1, <1>3, <1>4, <1>5, TakeOwned
<1>7. SizesRight'
  <2>1. \A d \in DOMAIN owner : owner[d] # "data"
    BY <1>1, <1>4 DEF OwnerInv, One, Labels
  <2> QED
    BY <1>1, <1>2, <1>3, <1>6, <2>1 DEF SizesRight, SlabFor, OwnerInv
<1>8. NotLive'
  BY <1>1 DEF NotLive
<1> QED
  BY <1>1, <1>6, <1>7, <1>8 DEF HeapInv, OwnerInv

(* Giving back the memory, then the struct, or the struct alone when there *)
(* was no memory to be had.                                                *)
LEMMA GiveUpInv == HeapInv /\ GiveUp => HeapInv'
<1> SUFFICES ASSUME HeapInv, GiveUp PROVE HeapInv'
  OBVIOUS
<1>1. /\ Tracks /\ OwnerInv /\ StringInv
      /\ UNCHANGED <<pool_capacity, arena_live, arena_capacity, string_live, data>>
      /\ StringInv' /\ building \in {"pool", "arena", "string"} /\ building' = "no"
  BY StringStays DEF HeapInv, GiveUp, arenaVars, stringVars, Pool!CreateFails, Pool!vars
<1>2. PICK b \in DOMAIN owner, who \in {"pool", "arena", "string"} :
        owner[b] = who /\ building = who /\ Free_track(b) /\ Disowned(b)
  BY <1>1 DEF GiveUp
<1>3. /\ DOMAIN owner = DOMAIN blocks /\ NotLive /\ SizesRight /\ pool_capacity \in Nat
  BY <1>1 DEF OwnerInv
<1>4. ~Present(who)'
  <2>1. CASE who = "pool"
    <3>1. pool_capacity' = 0 /\ building' = "no"
      BY <1>1, <1>2, <1>3, <2>1 DEF NotLive
    <3> QED
      BY <2>1, <3>1 DEF Present
  <2>2. CASE who = "arena"
    <3>1. ~arena_live' /\ building' = "no"
      BY <1>1, <1>2, <1>3, <2>2 DEF NotLive
    <3> QED
      BY <2>2, <3>1 DEF Present
  <2>3. CASE who = "string"
    <3>1. ~string_live' /\ building' = "no"
      BY <1>1, <1>2, <1>3, <2>3 DEF NotLive
    <3> QED
      BY <2>3, <3>1 DEF Present
  <2> QED
    BY <2>1, <2>2, <2>3
<1>5. ASSUME NEW w \in Labels \ {who} PROVE Present(w)' <=> Present(w)
  <2>1. CASE who = "pool"
    BY <1>1, <1>2, <2>1 DEF Present
  <2>2. CASE who = "arena"
    BY <1>1, <1>2, <2>2 DEF Present
  <2>3. CASE who = "string"
    BY <1>1, <1>2, <2>3 DEF Present
  <2> QED
    BY <2>1, <2>2, <2>3
<1>6. /\ Tracks' /\ DOMAIN owner' = DOMAIN blocks' /\ DOMAIN owner' = DOMAIN owner \ {b}
      /\ \A w \in Labels : One(w)'
      /\ \A c \in DOMAIN owner' : owner'[c] = owner[c] /\ blocks'[c] = blocks[c]
  BY <1>1, <1>2, <1>3, <1>4, <1>5, GiveOwned DEF Free_track
<1>7. SizesRight'
  BY <1>1, <1>3, <1>6 DEF SizesRight, SlabFor
<1>8. NotLive'
  BY <1>1 DEF NotLive
<1> QED
  BY <1>1, <1>3, <1>6, <1>7, <1>8 DEF HeapInv, OwnerInv

LEMMA FreeSlabInv ==
  ASSUME HeapInv, NEW b \in DOMAIN blocks, FreeSlab(b)
  PROVE  HeapInv'
<1>1. /\ Tracks /\ OwnerInv /\ StringInv
      /\ UNCHANGED <<arena_live, arena_capacity, string_live, data>>
      /\ StringInv' /\ building = "no" /\ building' = "free pool"
      /\ pool_capacity > 0 /\ pool_capacity' = 0
      /\ owner[b] = "slab" /\ Give(b) /\ Disowned(b)
  BY StringStays DEF HeapInv, FreeSlab, arenaVars, stringVars, Pool!Destroy, Idle, Free_track
<1>2. DOMAIN owner = DOMAIN blocks /\ SizesRight
  BY <1>1 DEF OwnerInv
<1>. ~(pool_capacity' > 0)
  <2>1. pool_capacity' = 0
    BY <1>1
  <2> QED
    BY <2>1
<1>3. ~Present("slab")'
  <2>1. building' # "outside"
    BY <1>1
  <2> QED
    BY <2>1 DEF Present
<1>4. ASSUME NEW w \in Labels \ {"slab"} PROVE Present(w)' <=> Present(w)
  <2>1. CASE w = "pool"
    BY <1>1, <2>1 DEF Present
  <2>2. CASE w # "pool"
    BY <1>1, <2>2 DEF Present
  <2> QED
    BY <2>1, <2>2
<1>5. /\ Tracks' /\ DOMAIN owner' = DOMAIN blocks' /\ DOMAIN owner' = DOMAIN owner \ {b}
      /\ \A w \in Labels : One(w)'
      /\ \A c \in DOMAIN owner' : owner'[c] = owner[c] /\ blocks'[c] = blocks[c]
  BY <1>1, <1>3, <1>4, GiveOwned
<1>6. SizesRight'
  BY <1>1, <1>2, <1>5 DEF SizesRight, SlabFor
<1>7. NotLive'
  BY <1>1 DEF NotLive
<1> QED
  BY <1>1, <1>5, <1>6, <1>7 DEF HeapInv, OwnerInv

LEMMA FreeBufferInv ==
  ASSUME HeapInv, NEW b \in DOMAIN blocks, FreeBuffer(b)
  PROVE  HeapInv'
<1>1. /\ Tracks /\ OwnerInv /\ StringInv
      /\ UNCHANGED <<pool_capacity, string_live, data>>
      /\ StringInv' /\ building = "no" /\ building' = "free arena"
      /\ arena_live /\ ~arena_live'
      /\ owner[b] = "buffer" /\ Give(b) /\ Disowned(b)
  BY StringStays DEF HeapInv, FreeBuffer, poolVars, stringVars, Region!Destroy, Idle, Free_track
<1>2. DOMAIN owner = DOMAIN blocks /\ SizesRight /\ pool_capacity \in Nat
  BY <1>1 DEF OwnerInv
<1>3. ~Present("buffer")'
  BY <1>1 DEF Present
<1>4. ASSUME NEW w \in Labels \ {"buffer"} PROVE Present(w)' <=> Present(w)
  <2>1. CASE w = "arena"
    BY <1>1, <2>1 DEF Present
  <2>2. CASE w # "arena"
    BY <1>1, <2>2 DEF Present
  <2> QED
    BY <2>1, <2>2
<1>5. "buffer" \in Labels
  BY DEF Labels
<1>6. /\ Tracks' /\ DOMAIN owner' = DOMAIN blocks' /\ DOMAIN owner' = DOMAIN owner \ {b}
      /\ \A w \in Labels : One(w)'
      /\ \A c \in DOMAIN owner' : owner'[c] = owner[c] /\ blocks'[c] = blocks[c]
      /\ \A c \in DOMAIN owner' : owner[c] # "buffer"
  BY <1>1, <1>3, <1>4, <1>5, GiveOwned
<1>7. SizesRight'
  BY <1>1, <1>2, <1>6 DEF SizesRight, SlabFor
<1>8. NotLive'
  BY <1>1 DEF NotLive
<1> QED
  BY <1>1, <1>2, <1>6, <1>7, <1>8 DEF HeapInv, OwnerInv

LEMMA FreeDataInv ==
  ASSUME HeapInv, NEW b \in DOMAIN blocks, FreeData(b)
  PROVE  HeapInv'
<1>1. /\ Tracks /\ OwnerInv /\ StringInv
      /\ UNCHANGED <<pool_capacity, arena_live, arena_capacity>>
      /\ StringInv' /\ building = "no" /\ building' = "free string"
      /\ string_live /\ ~string_live'
      /\ owner[b] = "data" /\ Give(b) /\ Disowned(b)
  BY StringFreeInv DEF HeapInv, FreeData, poolVars, arenaVars, String!Free, String!Called,
                       Idle, Free_track
<1>2. DOMAIN owner = DOMAIN blocks /\ SizesRight /\ pool_capacity \in Nat
  BY <1>1 DEF OwnerInv
<1>3. ~Present("data")'
  BY <1>1 DEF Present
<1>4. ASSUME NEW w \in Labels \ {"data"} PROVE Present(w)' <=> Present(w)
  <2>1. CASE w = "string"
    BY <1>1, <2>1 DEF Present
  <2>2. CASE w # "string"
    BY <1>1, <2>2 DEF Present
  <2> QED
    BY <2>1, <2>2
<1>5. "data" \in Labels
  BY DEF Labels
<1>6. /\ Tracks' /\ DOMAIN owner' = DOMAIN blocks' /\ DOMAIN owner' = DOMAIN owner \ {b}
      /\ \A w \in Labels : One(w)'
      /\ \A c \in DOMAIN owner' : owner'[c] = owner[c] /\ blocks'[c] = blocks[c]
      /\ \A c \in DOMAIN owner' : owner[c] # "data"
  BY <1>1, <1>3, <1>4, <1>5, GiveOwned
<1>7. SizesRight'
  BY <1>1, <1>2, <1>6 DEF SizesRight, SlabFor
<1>8. NotLive'
  BY <1>1 DEF NotLive
<1> QED
  BY <1>1, <1>2, <1>6, <1>7, <1>8 DEF HeapInv, OwnerInv

LEMMA FreeStructInv ==
  ASSUME HeapInv, NEW b \in DOMAIN blocks, FreeStruct(b)
  PROVE  HeapInv'
<1>1. /\ Tracks /\ OwnerInv /\ StringInv
      /\ UNCHANGED <<pool_capacity, arena_live, arena_capacity, string_live, data>>
      /\ StringInv' /\ building' = "no"
      /\ Give(b) /\ Disowned(b)
  BY StringStays DEF HeapInv, FreeStruct, poolVars, arenaVars, stringVars, Free_track
<1>2. PICK who \in {"pool", "arena", "string"} :
        /\ owner[b] = who
        /\ who = "pool" => building = "free pool"
        /\ who = "arena" => building = "free arena"
        /\ who = "string" => building = "free string"
  BY DEF FreeStruct
<1>3. /\ DOMAIN owner = DOMAIN blocks /\ NotLive /\ SizesRight /\ pool_capacity \in Nat
  BY <1>1 DEF OwnerInv
<1>4. ~Present(who)'
  <2>1. CASE who = "pool"
    <3>1. pool_capacity' = 0 /\ building' = "no"
      BY <1>1, <1>2, <1>3, <2>1 DEF NotLive
    <3> QED
      BY <2>1, <3>1 DEF Present
  <2>2. CASE who = "arena"
    <3>1. ~arena_live' /\ building' = "no"
      BY <1>1, <1>2, <1>3, <2>2 DEF NotLive
    <3> QED
      BY <2>2, <3>1 DEF Present
  <2>3. CASE who = "string"
    <3>1. ~string_live' /\ building' = "no"
      BY <1>1, <1>2, <1>3, <2>3 DEF NotLive
    <3> QED
      BY <2>3, <3>1 DEF Present
  <2> QED
    BY <2>1, <2>2, <2>3
<1>5. ASSUME NEW w \in Labels \ {who} PROVE Present(w)' <=> Present(w)
  <2>1. CASE who = "pool"
    BY <1>1, <1>2, <2>1 DEF Present
  <2>2. CASE who = "arena"
    BY <1>1, <1>2, <2>2 DEF Present
  <2>3. CASE who = "string"
    BY <1>1, <1>2, <2>3 DEF Present
  <2> QED
    BY <2>1, <2>2, <2>3
<1>6. /\ Tracks' /\ DOMAIN owner' = DOMAIN blocks' /\ DOMAIN owner' = DOMAIN owner \ {b}
      /\ \A w \in Labels : One(w)'
      /\ \A c \in DOMAIN owner' : owner'[c] = owner[c] /\ blocks'[c] = blocks[c]
  BY <1>1, <1>2, <1>4, <1>5, GiveOwned
<1>7. SizesRight'
  BY <1>1, <1>3, <1>6 DEF SizesRight, SlabFor
<1>8. NotLive'
  BY <1>1 DEF NotLive
<1> QED
  BY <1>1, <1>3, <1>6, <1>7, <1>8 DEF HeapInv, OwnerInv

LEMMA HeapNextInv == HeapInv /\ [ANext]_allVars => HeapInv'
<1> SUFFICES ASSUME HeapInv, [ANext]_allVars PROVE HeapInv'
  OBVIOUS
<1>1. CASE ClientCall \/ PoolCall \/ ArenaCall \/ StringCall \/ GiveUp
  BY <1>1, ClientCallInv, PoolAndArenaCallInv, StringCallInv, GiveUpInv
<1>2. CASE \E b \in Ids, who \in {"pool", "arena", "string"} : GetStruct(b, who)
  BY <1>2, GetStructInv
<1>3. CASE \E b \in Ids : StringData(b)
  BY <1>3, StringDataInv
<1>4. CASE \E b \in Ids, s \in BlockSizes, c \in PoolCapacities :
             PoolSlab(b, s, c) \/ PoolSlabShort(b, s, c)
  BY <1>4, PoolSlabInv
<1>5. CASE \E b \in Ids, a \in Addresses, c \in ArenaCapacities : ArenaBuffer(b, a, c)
  BY <1>5, ArenaBufferInv
<1>6. CASE \E b \in DOMAIN blocks : FreeSlab(b) \/ FreeBuffer(b) \/ FreeData(b) \/ FreeStruct(b)
  BY <1>6, FreeSlabInv, FreeBufferInv, FreeDataInv, FreeStructInv
<1>7. CASE UNCHANGED allVars
  BY <1>7, StringStays, HeapStays
     DEF allVars, poolVars, arenaVars, stringVars, HeapInv
<1> QED
  BY <1>1, <1>2, <1>3, <1>4, <1>5, <1>6, <1>7 DEF ANext

LEMMA HeapInitInv == AInit => HeapInv
<1> SUFFICES ASSUME AInit PROVE HeapInv
  OBVIOUS
<1>1. /\ blocks = [b \in {} |-> 0] /\ cdsa_global_memory_used = 0
      /\ owner = [b \in {} |-> "client"] /\ building = "no"
      /\ pool_capacity = 0 /\ arena_live = FALSE /\ string_live = FALSE
      /\ String!Init
  BY DEF AInit, Init, Pool!Init, Region!Init, String!Init
<1>2. DOMAIN blocks = {} /\ DOMAIN owner = {}
  BY <1>1
<1>3. Total = 0
  BY <1>2, TotalIs, SumEmpty
<1>4. 0 % Modulus = 0
  BY TrackedHeapAssumption, BytesAreSize
<1>5. blocks \in [DOMAIN blocks -> Block]
  BY <1>1
<1>6. Tracks
  BY <1>1, <1>2, <1>3, <1>4, <1>5, FS_EmptySet DEF Tracks, TelemetryExact, Size_t
<1>7. \A w \in Labels : One(w)
  BY <1>1, <1>2 DEF One, Present
<1>8. NotLive /\ SizesRight
  BY <1>1, <1>2 DEF NotLive, SizesRight
<1> QED
  BY <1>1, <1>2, <1>6, <1>7, <1>8, StringInitInv DEF HeapInv, OwnerInv

(* One block of each kind there is, counted as the property counts it.     *)
LEMMA OneIsCounted ==
  ASSUME NEW w, One(w), NEW live, Present(w) <=> live
  PROVE  Cardinality({b \in DOMAIN owner : owner[b] = w}) = IF live THEN 1 ELSE 0
<1> DEFINE B == {b \in DOMAIN owner : owner[b] = w}
<1>1. CASE live
  <2>1. PICK b \in DOMAIN owner : owner[b] = w
    BY <1>1 DEF One
  <2>2. B = {b}
    BY <2>1 DEF One
  <2> QED
    BY <1>1, <2>2, FS_Singleton
<1>2. CASE ~live
  <2>1. B = {}
    BY <1>2 DEF One
  <2> QED
    BY <1>2, <2>1, FS_EmptySet
<1> QED
  BY <1>1, <1>2

LEMMA HeapInvGivesOwned == HeapInv => HeapOwned
<1> SUFFICES ASSUME HeapInv PROVE HeapOwned
  OBVIOUS
<1>1. /\ OwnerInv /\ StringInv /\ DOMAIN owner = DOMAIN blocks
      /\ \A w \in Labels : One(w)
      /\ SizesRight
  BY DEF HeapInv, OwnerInv
<1>2. String!StringExact
  BY <1>1, StringInvGivesExact
<1> DEFINE Has(live, who) ==
             Cardinality({b \in DOMAIN owner : owner[b] = who}) = IF live THEN 1 ELSE 0
<1>3. ASSUME Idle
      PROVE  /\ Has(pool_capacity > 0, "pool") /\ Has(pool_capacity > 0, "slab")
             /\ Has(arena_live, "arena") /\ Has(arena_live, "buffer")
             /\ Has(string_live, "string") /\ Has(string_live, "data")
  <2>1. building = "no"
    BY <1>3 DEF Idle
  <2>2. Has(pool_capacity > 0, "pool") /\ Has(pool_capacity > 0, "slab")
    <3>1. (Present("pool") <=> pool_capacity > 0) /\ (Present("slab") <=> pool_capacity > 0)
      BY <2>1 DEF Present
    <3>2. One("pool") /\ One("slab")
      BY <1>1 DEF Labels
    <3> QED
      BY <3>1, <3>2, OneIsCounted
  <2>3. Has(arena_live, "arena") /\ Has(arena_live, "buffer")
    <3>1. (Present("arena") <=> arena_live) /\ (Present("buffer") <=> arena_live)
      BY <2>1 DEF Present
    <3>2. One("arena") /\ One("buffer")
      BY <1>1 DEF Labels
    <3> QED
      BY <3>1, <3>2, OneIsCounted
  <2>4. Has(string_live, "string") /\ Has(string_live, "data")
    <3>1. (Present("string") <=> string_live) /\ (Present("data") <=> string_live)
      BY <2>1 DEF Present
    <3>2. One("string") /\ One("data")
      BY <1>1 DEF Labels
    <3> QED
      BY <3>1, <3>2, OneIsCounted
  <2> QED
    BY <2>2, <2>3, <2>4
<1>4. /\ pool_capacity > 0 =>
           \A b \in {c \in DOMAIN owner : owner[c] = "slab"} :
             \E s \in BlockSizes : blocks[b].size = Padded(s) * pool_capacity /\ Padded(s) >= s
      /\ \A b \in {c \in DOMAIN owner : owner[c] = "buffer"} : blocks[b].size = arena_capacity
      /\ \A b \in {c \in DOMAIN owner : owner[c] = "data"} : blocks[b].size = Len(data)
  BY <1>1 DEF SizesRight, SlabFor
<1>5. Idle /\ (\E b \in DOMAIN owner : owner[b] = "slab") => pool_capacity > 0
  BY <1>1 DEF Idle, One, Present, Labels
<1> QED
  BY <1>1, <1>2, <1>3, <1>4, <1>5 DEF HeapOwned

(* The counter of the tracking allocator is the sum of the sizes of the    *)
(* blocks held, modulo the width of size_t, and no block is shorter than   *)
(* what its client asked for unless that size wrapped: cdsa_malloc_track,  *)
(* cdsa_calloc_track, cdsa_realloc_track and cdsa_free_track, any number   *)
(* of blocks of any sizes, called by clients, pools, arenas and strings.   *)
THEOREM TelemetryCorrect == ASpec => []TelemetryExact
<1>1. HeapInv => TelemetryExact
  BY DEF HeapInv, Tracks
<1> QED
  BY <1>1, HeapInitInv, HeapNextInv, PTL DEF ASpec

(* Between two calls the heap holds the struct and the memory of each      *)
(* pool, arena and string there is, one block of each, and nothing that    *)
(* no client knows of: a creation that fails half-way and a destruction    *)
(* leave nothing behind; the memory has the size its owner takes it to     *)
(* have, until the wiring of a slab that is short because its size wrapped *)
(* (PoolSlabShort); and the string reads back what was appended.           *)
THEOREM OwnershipCorrect == ASpec => []HeapOwned
  BY HeapInitInv, HeapNextInv, HeapInvGivesOwned, PTL DEF ASpec
=============================================================================

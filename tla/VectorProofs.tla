---------------------------- MODULE VectorProofs -----------------------------
(***************************************************************************)
(* Proofs about Vector, Stack and PriorityQueue for every set of elements, *)
(* every capacity and every number of iterators: where memory outside the  *)
(* block is reached, what an iterator that goes on has missed, that a      *)
(* stack gives back the sequence it was given, and, for every comparison   *)
(* that ranks the elements, what a sift may leave out of order and where,  *)
(* that the heap is in order between calls, and that a pop hands out an    *)
(* element of highest priority.                                            *)
(***************************************************************************)
EXTENDS Stack, PriorityQueue, ModArith, FiniteSetTheorems, SequenceTheorems, TLAPS

Slot == Elems \cup {Junk}

(* The part of the invariant about the block.  OverrunNeedsFailure alone   *)
(* is not inductive: a reallocation that succeeds after one that failed    *)
(* ends the exemption of "failed", so what holds until the first write     *)
(* outside the block has to be known while "failed" is still true.         *)
HasCapacity == live => capacity > 0
InsideUntilOverrun == ~overrun => size <= block
Untouched == ~overrun /\ ~dangled
WrittenUntilLost == Untouched => \A i \in 0 .. size - 1 : At(i) # Junk
BlockInv == OverrunNeedsFailure /\ HasCapacity /\ InsideUntilOverrun /\ WrittenUntilLost

(* The part about one iterator: an addition or removal leaves it an older  *)
(* version, or, when it was a clear, nothing to yield before the next.     *)
Exact(i) == /\ Len(i.seen) = i.current_index
            /\ Untouched => \A n \in 1 .. Len(i.seen) : i.seen[n] # Junk
Spent(i) == i.snapshot_version = version => i.current_index >= size
IterInv ==
  \A it \in Iters : iters[it].open =>
    /\ live /\ iters[it].snapshot_version <= version
    /\ IF iters[it].stale THEN Spent(iters[it]) ELSE Exact(iters[it])

VInv == BlockInv /\ IterInv

-----------------------------------------------------------------------------
(* What the helpers of the model return.                                   *)
LEMMA TypeFacts ==
  ASSUME TypeOK
  PROVE  /\ live \in BOOLEAN /\ capacity \in Nat /\ version \in Nat
         /\ block \in Nat /\ size \in Nat /\ data \in [0 .. block - 1 -> Slot]
         /\ failed \in BOOLEAN /\ overrun \in BOOLEAN /\ dangled \in BOOLEAN
         /\ iters \in [Iters -> Iterator] /\ status \in Statuses
  BY DEF TypeOK, Slot

LEMMA AtType == ASSUME TypeOK, NEW i \in Nat PROVE At(i) \in Slot
  BY TypeFacts DEF At, Slot

LEMMA MovedLaw ==
  ASSUME TypeOK, NEW n \in Nat
  PROVE  /\ Moved(n) \in [0 .. n - 1 -> Slot]
         /\ \A i \in 0 .. n - 1 : Moved(n)[i] = At(i)
  BY AtType DEF Moved

LEMMA NewBlockLaw == ASSUME NEW n \in Nat PROVE NewBlock(n) \in [0 .. n - 1 -> Slot]
  BY DEF NewBlock, Slot

LEMMA ClosedType == ClosedIter \in Iterator /\ ~ClosedIter.open
<1>1. <<>> \in Seq(Slot)
  BY EmptySeq
<1> QED
  BY <1>1 DEF ClosedIter, Iterator, Slot

LEMMA AllStaleLaw ==
  ASSUME iters \in [Iters -> Iterator]
  PROVE  /\ AllStale \in [Iters -> Iterator]
         /\ \A it \in Iters :
              /\ AllStale[it].open = iters[it].open
              /\ AllStale[it].snapshot_version = iters[it].snapshot_version
              /\ AllStale[it].current_index = iters[it].current_index
              /\ AllStale[it].stale = iters[it].open
<1>1. <<>> \in Seq(Slot)
  BY EmptySeq
<1> QED
  BY <1>1 DEF AllStale, Iterator, Slot

-----------------------------------------------------------------------------
(* What every push does, whether or not it had to grow: the elements stay  *)
(* where they were, and the new one lies above them unless its slot is not *)
(* one of the block's.                                                     *)
PushLaw(e) ==
  /\ live /\ live' /\ size' = size + 1 /\ version' = version + 1
  /\ capacity' \in Nat /\ capacity' >= size' /\ capacity' > 0
  /\ block' \in Nat /\ block' <= capacity'
  /\ failed' \in BOOLEAN /\ (~failed' => block' = capacity')
  /\ data' \in [0 .. block' - 1 -> Slot]
  /\ overrun' = (overrun \/ size >= block')
  /\ iters' = AllStale /\ status' = "CDSA_OK"
  /\ \A i \in 0 .. size :
       At(i)' = IF i < size THEN At(i) ELSE IF size < block' THEN e ELSE Junk

LEMMA StoreEffect ==
  ASSUME TypeOK, NEW e \in Slot, NEW blk \in Nat, NEW d \in [0 .. blk - 1 -> Slot],
         block' = blk, Store(e, d, blk)
  PROVE  /\ data' \in [0 .. blk - 1 -> Slot]
         /\ \A i \in 0 .. size :
              At(i)' = IF i < blk THEN (IF i = size THEN e ELSE d[i]) ELSE Junk
<1>1. size \in Nat
  BY TypeFacts
<1>2. data' = IF size < blk THEN [d EXCEPT ![size] = e] ELSE d
  BY DEF Store
<1>3. data' \in [0 .. blk - 1 -> Slot]
  BY <1>1, <1>2
<1>4. ASSUME NEW i \in 0 .. size
      PROVE  At(i)' = IF i < blk THEN (IF i = size THEN e ELSE d[i]) ELSE Junk
  BY <1>1, <1>2 DEF At
<1> QED
  BY <1>1, <1>3, <1>4

LEMMA PushFitsLaw ==
  ASSUME BlockInv, NEW e \in Slot, PushFits(e)
  PROVE  PushLaw(e)
<1>1. TypeOK /\ block <= capacity /\ (~failed => block = capacity)
  BY DEF BlockInv, OverrunNeedsFailure
<1>2. /\ size \in Nat /\ block \in Nat /\ capacity \in Nat /\ failed \in BOOLEAN
      /\ data \in [0 .. block - 1 -> Slot]
  BY <1>1, TypeFacts
<1>3. /\ block' = block /\ capacity' = capacity /\ failed' = failed
      /\ size < capacity /\ Store(e, data, block)
  BY DEF PushFits, Room
<1>4. /\ data' \in [0 .. block - 1 -> Slot]
      /\ \A i \in 0 .. size :
           At(i)' = IF i < block THEN (IF i = size THEN e ELSE data[i]) ELSE Junk
  BY <1>1, <1>2, <1>3, StoreEffect
<1>5. \A i \in 0 .. size :
        At(i)' = IF i < size THEN At(i) ELSE IF size < block' THEN e ELSE Junk
  BY <1>2, <1>3, <1>4 DEF At
<1>6. /\ live /\ live' /\ size' = size + 1 /\ version' = version + 1
      /\ overrun' = (overrun \/ size >= block) /\ iters' = AllStale
      /\ status' = "CDSA_OK"
  BY <1>3 DEF Store
<1> QED
  BY <1>1, <1>2, <1>3, <1>4, <1>5, <1>6 DEF PushLaw

LEMMA PushGrowsLaw ==
  ASSUME BlockInv, NEW e \in Slot, PushGrows(e)
  PROVE  PushLaw(e)
<1> DEFINE n == capacity * 2
<1>1. TypeOK /\ size <= capacity /\ live /\ capacity > 0
  BY DEF BlockInv, OverrunNeedsFailure, HasCapacity, PushGrows, Store
<1>2. size \in Nat /\ capacity \in Nat /\ n \in Nat /\ size < n
  BY <1>1, TypeFacts
<1>3. block' = n /\ capacity' = n /\ failed' = FALSE /\ Store(e, Moved(n), n)
  BY DEF PushGrows
<1>4. Moved(n) \in [0 .. n - 1 -> Slot] /\ \A i \in 0 .. n - 1 : Moved(n)[i] = At(i)
  BY <1>1, <1>2, MovedLaw
<1>5. /\ data' \in [0 .. n - 1 -> Slot]
      /\ \A i \in 0 .. size :
           At(i)' = IF i < n THEN (IF i = size THEN e ELSE Moved(n)[i]) ELSE Junk
  BY <1>1, <1>2, <1>3, <1>4, StoreEffect
<1>6. \A i \in 0 .. size :
        At(i)' = IF i < size THEN At(i) ELSE IF size < block' THEN e ELSE Junk
  BY <1>2, <1>3, <1>4, <1>5
<1>7. /\ live /\ live' /\ size' = size + 1 /\ version' = version + 1
      /\ overrun' = (overrun \/ size >= n) /\ iters' = AllStale
      /\ status' = "CDSA_OK"
  BY <1>3 DEF Store
<1> HIDE DEF n
<1>8. n \in Nat /\ n >= size + 1 /\ n > 0
  BY <1>2
<1>9. /\ capacity' \in Nat /\ capacity' >= size' /\ capacity' > 0
      /\ block' \in Nat /\ block' = capacity' /\ block' <= capacity'
  BY <1>3, <1>7, <1>8
<1>11. failed' \in BOOLEAN /\ (~failed' => block' = capacity')
  BY <1>3
<1>10. /\ data' \in [0 .. block' - 1 -> Slot]
       /\ overrun' = (overrun \/ size >= block')
  BY <1>3, <1>5, <1>7
<1> QED
  BY <1>6, <1>7, <1>9, <1>10, <1>11 DEF PushLaw

(* A push preserves the invariant: of an element of the client's, or of    *)
(* the content of a slot that a push of an own element copies.             *)
LEMMA PushInv ==
  ASSUME VInv, NEW e \in Slot, PushLaw(e),
         dangled' \in BOOLEAN, dangled => dangled',
         Untouched' => e # Junk
  PROVE  VInv'
<1>1. TypeOK /\ BlockInv /\ IterInv
  BY DEF VInv, BlockInv, OverrunNeedsFailure
<1>2. /\ size \in Nat /\ version \in Nat /\ overrun \in BOOLEAN
      /\ iters \in [Iters -> Iterator]
  BY <1>1, TypeFacts
<1>3. TypeOK'
  <2>1. live' \in BOOLEAN /\ overrun' \in BOOLEAN /\ iters' \in [Iters -> Iterator]
    BY <1>2, AllStaleLaw DEF PushLaw
  <2>2. status' \in Statuses
    BY DEF PushLaw, Statuses
  <2>3. size' \in Nat /\ version' \in Nat /\ dangled' \in BOOLEAN
    BY <1>2 DEF PushLaw
  <2> QED
    BY <2>1, <2>2, <2>3 DEF PushLaw, TypeOK, Slot
<1>4. InsideUntilOverrun'
  BY <1>1, <1>2 DEF PushLaw, InsideUntilOverrun
<1>5. WrittenUntilLost'
  <2> SUFFICES ASSUME Untouched', NEW i \in 0 .. size PROVE At(i)' # Junk
    BY <1>2 DEF WrittenUntilLost, PushLaw
  <2>1. CASE i \in 0 .. size - 1
    <3>1. Untouched /\ i < size
      BY <1>2, <2>1 DEF Untouched, PushLaw
    <3>2. At(i) # Junk
      BY <1>1, <2>1, <3>1 DEF BlockInv, WrittenUntilLost
    <3> QED
      BY <3>1, <3>2 DEF PushLaw
  <2>2. CASE i = size
    <3>1. size < block'
      BY <1>2, <1>4 DEF PushLaw, InsideUntilOverrun, Untouched
    <3> QED
      BY <2>2, <3>1, <1>2 DEF PushLaw, Untouched
  <2> QED
    BY <2>1, <2>2, <1>2
<1>6. OverrunNeedsFailure'
  <2>1. ~failed' => block' = capacity' /\ size' <= block'
    BY <1>2 DEF PushLaw
  <2>2. size' > block' => failed'
    BY <1>2, <2>1 DEF PushLaw
  <2>3. (~failed /\ ~overrun /\ ~dangled => \A i \in 0 .. size - 1 : At(i) # Junk)'
    BY <1>5 DEF WrittenUntilLost, Untouched
  <2> QED
    BY <1>3, <2>1, <2>2, <2>3 DEF OverrunNeedsFailure, PushLaw
<1>7. BlockInv'
  BY <1>4, <1>5, <1>6 DEF BlockInv, HasCapacity, PushLaw
<1>8. IterInv'
  <2> SUFFICES ASSUME NEW it \in Iters, iters'[it].open
               PROVE  /\ live' /\ iters'[it].snapshot_version <= version'
                      /\ iters'[it].stale /\ Spent(iters[it])'
    BY DEF IterInv
  <2>1. /\ iters[it].open /\ iters'[it].stale
        /\ iters'[it].snapshot_version = iters[it].snapshot_version
    BY <1>2, AllStaleLaw DEF PushLaw
  <2>2. iters[it].snapshot_version <= version /\ iters[it].snapshot_version \in Nat
    BY <1>1, <1>2, <2>1 DEF IterInv, Iterator
  <2> QED
    BY <1>2, <2>1, <2>2 DEF PushLaw, Spent
<1> QED
  BY <1>7, <1>8 DEF VInv

-----------------------------------------------------------------------------
(* The other calls.                                                        *)
LEMMA Unfold ==
  ASSUME VInv
  PROVE  /\ TypeOK /\ size <= capacity /\ block <= capacity
         /\ (~failed => block = capacity) /\ (live => capacity > 0)
         /\ (~overrun => size <= block)
         /\ (Untouched => \A i \in 0 .. size - 1 : At(i) # Junk)
         /\ IterInv
  BY DEF VInv, BlockInv, OverrunNeedsFailure, HasCapacity, InsideUntilOverrun,
         WrittenUntilLost

(* The invariant again, from its parts.                                    *)
LEMMA FoldNext ==
  ASSUME TypeOK', (size <= capacity)', (block <= capacity)',
         (~failed => block = capacity)', (live => capacity > 0)',
         (~overrun => size <= block)',
         (Untouched => \A i \in 0 .. size - 1 : At(i) # Junk)',
         IterInv'
  PROVE  VInv'
<1>1. (size > block => failed)'
  <2>1. size' \in Nat /\ block' \in Nat /\ capacity' \in Nat /\ failed' \in BOOLEAN
    BY DEF TypeOK
  <2> QED
    BY <2>1
<1> QED
  BY <1>1 DEF VInv, BlockInv, OverrunNeedsFailure, HasCapacity, InsideUntilOverrun,
         WrittenUntilLost, Untouched

LEMMA InitVInv == Init => VInv
<1> SUFFICES ASSUME Init PROVE VInv
  OBVIOUS
<1>1. /\ live = FALSE /\ data = NewBlock(0) /\ size = 0 /\ capacity = 0
      /\ version = 0 /\ block = 0 /\ failed = FALSE /\ overrun = FALSE
      /\ dangled = FALSE /\ iters = [it \in Iters |-> ClosedIter] /\ status \in Statuses
  BY DEF Init, Statuses
<1>2. data \in [0 .. block - 1 -> Slot] /\ iters \in [Iters -> Iterator]
  BY <1>1, NewBlockLaw, ClosedType
<1>3. TypeOK
  BY <1>1, <1>2 DEF TypeOK, Slot
<1>4. IterInv
  BY <1>1, ClosedType DEF IterInv
<1>5. OverrunNeedsFailure
  BY <1>1, <1>3 DEF OverrunNeedsFailure
<1>6. HasCapacity /\ InsideUntilOverrun /\ WrittenUntilLost
  BY <1>1 DEF HasCapacity, InsideUntilOverrun, WrittenUntilLost
<1> QED
  BY <1>4, <1>5, <1>6 DEF VInv, BlockInv

(* Calls that change nothing but status.                                   *)
LEMMA KeepInv ==
  ASSUME VInv, UNCHANGED <<live, vecVars, historyVars, iters>>, status' \in Statuses
  PROVE  VInv'
<1>1. /\ live' = live /\ data' = data /\ size' = size /\ capacity' = capacity
      /\ version' = version /\ block' = block /\ failed' = failed
      /\ overrun' = overrun /\ dangled' = dangled /\ iters' = iters
  BY DEF vecVars, historyVars
<1> QED
  BY <1>1 DEF VInv, BlockInv, OverrunNeedsFailure, TypeOK, HasCapacity,
    InsideUntilOverrun, WrittenUntilLost, Untouched, At, IterInv, Spent, Exact

LEMMA CreateInv == VInv /\ Create => VInv'
<1> SUFFICES ASSUME VInv, Create PROVE VInv'
  OBVIOUS
<1>1. TypeOK /\ IterInv /\ ~live
  BY Unfold DEF Create
<1>2. InitialCapacity \in Nat /\ InitialCapacity > 0
  BY VectorAssumption
<1>3. /\ live' = TRUE /\ size' = 0 /\ capacity' = InitialCapacity /\ version' = 0
      /\ block' = InitialCapacity /\ data' = NewBlock(InitialCapacity)
      /\ failed' = failed /\ overrun' = overrun /\ dangled' = dangled
      /\ iters' = iters /\ status' \in Statuses
  BY DEF Create, historyVars, Statuses
<1>4. TypeOK'
  <2>1. data' \in [0 .. block' - 1 -> Slot]
    BY <1>2, <1>3, NewBlockLaw
  <2> QED
    BY <1>1, <1>2, <1>3, <2>1, TypeFacts DEF TypeOK, Slot
<1>5. IterInv'
  BY <1>1, <1>3 DEF IterInv
<1>6. (Untouched => \A i \in 0 .. size - 1 : At(i) # Junk)'
  BY <1>3
<1> QED
  BY <1>2, <1>3, <1>4, <1>5, <1>6, FoldNext

LEMMA FreeInv == VInv /\ Free => VInv'
<1> SUFFICES ASSUME VInv, Free PROVE VInv'
  OBVIOUS
<1>1. TypeOK /\ \A it \in Iters : ~iters[it].open
  BY Unfold DEF Free
<1>2. /\ live' = FALSE /\ size' = 0 /\ capacity' = 0 /\ version' = 0
      /\ block' = 0 /\ data' = NewBlock(0)
      /\ failed' = FALSE /\ overrun' = FALSE /\ dangled' = FALSE
      /\ iters' = iters /\ status' \in Statuses
  BY DEF Free, Statuses
<1>3. TypeOK'
  <2>1. data' \in [0 .. block' - 1 -> Slot]
    BY <1>2, NewBlockLaw
  <2> QED
    BY <1>1, <1>2, <2>1, TypeFacts DEF TypeOK, Slot
<1>4. IterInv'
  BY <1>1, <1>2 DEF IterInv
<1>5. (Untouched => \A i \in 0 .. size - 1 : At(i) # Junk)'
  BY <1>2
<1> QED
  BY <1>2, <1>3, <1>4, <1>5, FoldNext

(* The failed reallocation: capacity no longer tells the block's size.     *)
LEMMA PushOOMInv == VInv /\ PushOOM => VInv'
<1> SUFFICES ASSUME VInv, PushOOM PROVE VInv'
  OBVIOUS
<1>1. /\ TypeOK /\ size <= capacity /\ block <= capacity /\ live /\ capacity > 0
      /\ (~overrun => size <= block)
      /\ (Untouched => \A i \in 0 .. size - 1 : At(i) # Junk) /\ IterInv
  BY Unfold DEF PushOOM
<1>2. /\ live' = live /\ data' = data /\ size' = size /\ capacity' = capacity * 2
      /\ version' = version /\ block' = block /\ failed' = TRUE
      /\ overrun' = overrun /\ dangled' = dangled /\ iters' = iters
      /\ status' \in Statuses
  BY DEF PushOOM, Statuses
<1>3. /\ capacity \in Nat /\ size \in Nat /\ block \in Nat
  BY <1>1, TypeFacts
<1>4. TypeOK'
  BY <1>1, <1>2, <1>3, TypeFacts DEF TypeOK, Slot
<1>5. (size <= capacity)' /\ (block <= capacity)' /\ (live => capacity > 0)'
  BY <1>1, <1>2, <1>3
<1>6. IterInv'
  BY <1>1, <1>2 DEF IterInv, Spent, Exact, Untouched
<1>7. (Untouched => \A i \in 0 .. size - 1 : At(i) # Junk)'
  BY <1>1, <1>2 DEF Untouched, At
<1> QED
  BY <1>1, <1>2, <1>4, <1>5, <1>6, <1>7, FoldNext

(* An element removed from the end, and all of them.                       *)
LEMMA ShrinkInv ==
  ASSUME VInv, live, NEW n \in Nat, n < size, size' = n, iters' = AllStale,
         version' = version + 1 \/ (version' = version /\ n = 0),
         UNCHANGED <<live, data, capacity, block, historyVars>>, status' \in Statuses
  PROVE  VInv'
<1>1. /\ TypeOK /\ size <= capacity /\ block <= capacity /\ capacity > 0
      /\ (~failed => block = capacity) /\ (~overrun => size <= block)
      /\ (Untouched => \A i \in 0 .. size - 1 : At(i) # Junk) /\ IterInv
  BY Unfold
<1>2. /\ live' = live /\ data' = data /\ capacity' = capacity /\ block' = block
      /\ failed' = failed /\ overrun' = overrun /\ dangled' = dangled
  BY DEF historyVars
<1>3. /\ capacity \in Nat /\ size \in Nat /\ block \in Nat /\ version \in Nat
      /\ overrun \in BOOLEAN /\ iters \in [Iters -> Iterator]
  BY <1>1, TypeFacts
<1>4. TypeOK'
  <2>1. iters' \in [Iters -> Iterator] /\ version' \in Nat
    BY <1>3, AllStaleLaw
  <2> QED
    BY <1>1, <1>2, <2>1, TypeFacts DEF TypeOK, Slot
<1>5. (size <= capacity)' /\ (~overrun => size <= block)'
  BY <1>1, <1>2, <1>3
<1>6. IterInv'
  <2> SUFFICES ASSUME NEW it \in Iters, iters'[it].open
               PROVE  /\ live' /\ iters'[it].snapshot_version <= version'
                      /\ iters'[it].stale /\ Spent(iters[it])'
    BY DEF IterInv
  <2>1. /\ iters[it].open /\ iters'[it].stale
        /\ iters'[it].snapshot_version = iters[it].snapshot_version
        /\ iters'[it].current_index = iters[it].current_index
    BY <1>3, AllStaleLaw
  <2>2. /\ iters[it].snapshot_version <= version
        /\ iters[it].snapshot_version \in Nat /\ iters[it].current_index \in Nat
    BY <1>1, <1>3, <2>1 DEF IterInv, Iterator
  <2> QED
    BY <1>2, <1>3, <2>1, <2>2 DEF Spent
<1>7. (Untouched => \A i \in 0 .. size - 1 : At(i) # Junk)'
  <2> SUFFICES ASSUME Untouched, NEW i \in 0 .. n - 1 PROVE At(i) # Junk
    BY <1>2 DEF Untouched, At
  <2> QED
    BY <1>1, <1>3
<1> QED
  BY <1>1, <1>2, <1>4, <1>5, <1>6, <1>7, FoldNext

LEMMA PopInv == VInv /\ Pop => VInv'
<1> SUFFICES ASSUME VInv, Pop PROVE VInv'
  OBVIOUS
<1>1. size \in Nat
  BY Unfold, TypeFacts
<1>2. size - 1 \in Nat /\ size - 1 < size
  BY <1>1 DEF Pop
<1> QED
  BY <1>2, ShrinkInv DEF Pop, Statuses

LEMMA ClearInv == VInv /\ Clear => VInv'
<1> SUFFICES ASSUME VInv, Clear PROVE VInv'
  OBVIOUS
<1>1. size \in Nat
  BY Unfold, TypeFacts
<1>2. CASE size > 0
  BY <1>1, <1>2, ShrinkInv DEF Clear, Statuses, historyVars
<1>3. CASE size = 0
  BY <1>3, KeepInv DEF Clear, Statuses, vecVars
<1> QED
  BY <1>1, <1>2, <1>3

(* An element written in place.                                            *)
LEMMA SetInv ==
  ASSUME VInv, NEW i \in 0 .. size - 1, NEW e \in Elems, Set(i, e)
  PROVE  VInv'
<1>1. /\ TypeOK /\ size <= capacity /\ block <= capacity /\ capacity > 0
      /\ (~failed => block = capacity) /\ (~overrun => size <= block)
      /\ (Untouched => \A n \in 0 .. size - 1 : At(n) # Junk) /\ IterInv
  BY Unfold DEF Set
<1>2. /\ live' = live /\ size' = size /\ capacity' = capacity /\ block' = block
      /\ version' = version /\ failed' = failed /\ dangled' = dangled
      /\ overrun' = (overrun \/ i >= block) /\ iters' = iters
      /\ data' = Written(i, e) /\ status' \in Statuses
  BY DEF Set, Statuses
<1>3. /\ capacity \in Nat /\ size \in Nat /\ block \in Nat /\ overrun \in BOOLEAN
      /\ data \in [0 .. block - 1 -> Slot]
  BY <1>1, TypeFacts
<1>4. TypeOK'
  <2>1. data' \in [0 .. block' - 1 -> Slot]
    BY <1>2, <1>3 DEF Written, Slot
  <2>2. overrun' \in BOOLEAN
    BY <1>2
  <2> QED
    BY <1>1, <1>2, <2>1, <2>2, TypeFacts DEF TypeOK, Slot
<1>5. (~overrun => size <= block)'
  BY <1>1, <1>2, <1>3
<1>6. IterInv'
  BY <1>1, <1>2 DEF IterInv, Spent, Exact, Untouched
<1>7. (Untouched => \A n \in 0 .. size - 1 : At(n) # Junk)'
  <2> SUFFICES ASSUME Untouched', NEW n \in 0 .. size - 1 PROVE At(n)' # Junk
    BY <1>2
  <2>0. Untouched /\ ~(i >= block)
    BY <1>2 DEF Untouched
  <2>1. Untouched /\ i < block
    BY <1>3, <2>0
  <2>2. At(n) # Junk /\ e # Junk
    BY <1>1, <2>1, VectorAssumption
  <2>3. n < block
    BY <1>1, <1>3, <2>1 DEF Untouched
  <2> QED
    BY <1>2, <1>3, <2>1, <2>2, <2>3 DEF At, Written
<1> QED
  BY <1>1, <1>2, <1>4, <1>5, <1>6, <1>7, FoldNext

(* The calls on an iterator change that iterator only.                     *)
LEMMA IterInvNext ==
  ASSUME VInv, NEW it \in Iters, NEW i \in Iterator,
         iters' = [iters EXCEPT ![it] = i], status' \in Statuses,
         UNCHANGED <<live, vecVars, historyVars>>,
         i.open => /\ live /\ i.snapshot_version <= version
                   /\ IF i.stale THEN Spent(i) ELSE Exact(i)
  PROVE  VInv'
<1>1. /\ TypeOK /\ size <= capacity /\ block <= capacity
      /\ (live => capacity > 0)
      /\ (~failed => block = capacity) /\ (~overrun => size <= block)
      /\ (Untouched => \A n \in 0 .. size - 1 : At(n) # Junk) /\ IterInv
  BY Unfold
<1>2. /\ live' = live /\ size' = size /\ capacity' = capacity /\ block' = block
      /\ version' = version /\ failed' = failed /\ dangled' = dangled
      /\ overrun' = overrun /\ data' = data
  BY DEF vecVars, historyVars
<1>3. iters \in [Iters -> Iterator]
  BY <1>1, TypeFacts
<1>4. TypeOK'
  BY <1>1, <1>2, <1>3, TypeFacts DEF TypeOK, Slot
<1>5. IterInv'
  <2> SUFFICES ASSUME NEW j \in Iters, iters'[j].open
               PROVE  /\ live' /\ iters'[j].snapshot_version <= version'
                      /\ (IF iters[j].stale THEN Spent(iters[j]) ELSE Exact(iters[j]))'
    BY DEF IterInv
  <2>1. CASE j = it
    <3>1. iters'[j] = i
      BY <1>3, <2>1
    <3>2. /\ (iters[j].stale)' = i.stale
          /\ Spent(iters[j])' = Spent(i) /\ Exact(iters[j])' = Exact(i)
      BY <1>2, <3>1 DEF Spent, Exact, Untouched
    <3> QED
      BY <1>2, <3>1, <3>2
  <2>2. CASE j # it
    <3>1. iters'[j] = iters[j]
      BY <1>3, <2>2
    <3>2. /\ (iters[j].stale)' = iters[j].stale
          /\ Spent(iters[j])' = Spent(iters[j]) /\ Exact(iters[j])' = Exact(iters[j])
      BY <1>2, <3>1 DEF Spent, Exact, Untouched
    <3> QED
      BY <1>1, <1>2, <3>1, <3>2 DEF IterInv
  <2> QED
    BY <2>1, <2>2
<1>6. (Untouched => \A n \in 0 .. size - 1 : At(n) # Junk)'
  BY <1>1, <1>2 DEF Untouched, At
<1> QED
  BY <1>1, <1>2, <1>4, <1>5, <1>6, FoldNext

LEMMA NewIterInv == ASSUME VInv, NEW it \in Iters, NewIter(it) PROVE VInv'
<1> DEFINE i == [ClosedIter EXCEPT !.open = TRUE, !.snapshot_version = version]
<1>1. version \in Nat /\ <<>> \in Seq(Slot) /\ Len(<<>>) = 0
  BY Unfold, TypeFacts, EmptySeq
<1>2. i \in Iterator
  BY <1>1 DEF ClosedIter, Iterator, Slot
<1>3. /\ i.open /\ i.snapshot_version = version /\ ~i.stale
      /\ i.current_index = 0 /\ i.seen = <<>>
  BY DEF ClosedIter
<1>4. iters' = [iters EXCEPT ![it] = i] /\ live /\ status' \in Statuses
      /\ UNCHANGED <<live, vecVars, historyVars>>
  BY DEF NewIter, Statuses
<1> HIDE DEF i
<1>5. Exact(i) /\ i.snapshot_version <= version
  BY <1>1, <1>3 DEF Exact
<1> QED
  BY <1>2, <1>3, <1>4, <1>5, IterInvNext

LEMMA FreeIterInv == ASSUME VInv, NEW it \in Iters, FreeIter(it) PROVE VInv'
  BY IterInvNext, ClosedType DEF FreeIter, Statuses

(* An iterator that may go on has not been left stale: what it yields next *)
(* is an element of the block.                                             *)
LEMMA IterNextInv == ASSUME VInv, NEW it \in Iters, IterNext(it) PROVE VInv'
<1> DEFINE x == At(iters[it].current_index)
<1> DEFINE i == [iters[it] EXCEPT !.current_index = @ + 1, !.seen = Append(@, x)]
<1>1. /\ TypeOK /\ IterInv /\ (~overrun => size <= block)
      /\ (Untouched => \A n \in 0 .. size - 1 : At(n) # Junk)
  BY Unfold
<1>2. /\ iters \in [Iters -> Iterator] /\ iters[it] \in Iterator
      /\ size \in Nat
  BY <1>1, TypeFacts
<1>3. /\ iters[it].seen \in Seq(Slot) /\ iters[it].current_index \in Nat
      /\ iters[it].snapshot_version \in Nat
  BY <1>2 DEF Iterator, Slot
<1>4. x \in Slot
  BY <1>1, <1>3, AtType
<1>6. /\ live /\ iters[it].open /\ iters[it].snapshot_version = version
      /\ iters[it].current_index < size
  BY DEF IterNext, HasNext, Valid
<1>9. Untouched => x # Junk
  BY <1>1, <1>2, <1>3, <1>6
<1> HIDE DEF x
<1>5. i \in Iterator
  <2>1. Append(iters[it].seen, x) \in Seq(Slot)
    BY <1>3, <1>4, AppendProperties
  <2>2. iters[it].current_index + 1 \in Nat
    BY <1>3
  <2>3. ASSUME NEW r \in Iterator, NEW c \in Nat, NEW s \in Seq(Slot)
        PROVE  [r EXCEPT !.current_index = c, !.seen = s] \in Iterator
    BY DEF Iterator, Slot
  <2> QED
    BY <1>2, <2>1, <2>2, <2>3
<1>7. Exact(iters[it]) /\ ~iters[it].stale
  BY <1>1, <1>2, <1>3, <1>6 DEF IterInv, Spent
<1>8. /\ i.open /\ ~i.stale /\ i.snapshot_version = version
      /\ i.current_index = iters[it].current_index + 1
      /\ i.seen = Append(iters[it].seen, x)
  BY <1>2, <1>6, <1>7 DEF Iterator
<1>10. /\ Len(i.seen) = Len(iters[it].seen) + 1
       /\ \A n \in 1 .. Len(i.seen) :
            i.seen[n] = IF n <= Len(iters[it].seen) THEN iters[it].seen[n] ELSE x
  BY <1>3, <1>4, <1>8, AppendProperties
<1>11. /\ iters' = [iters EXCEPT ![it] = i] /\ status' \in Statuses
       /\ UNCHANGED <<live, vecVars, historyVars>>
  BY <1>2 DEF IterNext, Statuses, x
<1> HIDE DEF i
<1>12. Exact(i)
  <2>1. Len(iters[it].seen) \in Nat
    BY <1>3, LenProperties
  <2>2. Len(i.seen) = i.current_index
    BY <1>7, <1>8, <1>10 DEF Exact
  <2>3. ASSUME Untouched, NEW n \in 1 .. Len(i.seen) PROVE i.seen[n] # Junk
    <3>1. CASE n <= Len(iters[it].seen)
      <4>1. n \in 1 .. Len(iters[it].seen) /\ i.seen[n] = iters[it].seen[n]
        BY <1>10, <2>1, <2>3, <3>1
      <4> QED
        BY <1>7, <2>3, <4>1 DEF Exact
    <3>2. CASE n > Len(iters[it].seen)
      BY <1>9, <1>10, <2>1, <2>3, <3>2
    <3> QED
      BY <2>1, <3>1, <3>2
  <2> QED
    BY <2>2, <2>3 DEF Exact
<1>13. i.snapshot_version <= version
  BY <1>6, <1>3, <1>8
<1> QED
  BY <1>5, <1>6, <1>8, <1>11, <1>12, <1>13, IterInvNext

-----------------------------------------------------------------------------
(* Every call preserves the invariant.                                     *)
LEMMA PushElemInv ==
  ASSUME VInv, NEW e \in Elems, Push(e)
  PROVE  VInv' /\ PushLaw(e)
<1>1. BlockInv /\ TypeOK /\ e \in Slot /\ e # Junk
  BY VectorAssumption DEF VInv, BlockInv, OverrunNeedsFailure, Slot
<1>2. PushLaw(e)
  BY <1>1, PushFitsLaw, PushGrowsLaw DEF Push
<1>3. dangled' = dangled /\ dangled \in BOOLEAN
  BY <1>1, TypeFacts DEF Push
<1> QED
  BY <1>1, <1>2, <1>3, PushInv

(* The push of an own element: its value, or anything if its memory has    *)
(* been given back.                                                        *)
LEMMA PushOwnInv ==
  ASSUME VInv, NEW i \in 0 .. size - 1, PushOwn(i)
  PROVE  /\ VInv'
         /\ dangled => dangled'
         /\ \E e \in {At(i), Junk} : PushLaw(e) /\ (e = At(i) \/ dangled')
<1>1. /\ BlockInv /\ TypeOK /\ (Untouched => \A n \in 0 .. size - 1 : At(n) # Junk)
  BY Unfold DEF VInv
<1>2. At(i) \in Slot /\ Junk \in Slot /\ dangled \in BOOLEAN /\ overrun \in BOOLEAN
  <2>1. i \in Nat
    BY <1>1, TypeFacts
  <2> QED
    BY <1>1, <2>1, AtType, TypeFacts DEF Slot
<1>3. CASE PushFits(At(i)) /\ dangled' = dangled
  <2>1. PushLaw(At(i))
    BY <1>1, <1>2, <1>3, PushFitsLaw
  <2>2. Untouched' => At(i) # Junk
    <3>1. Untouched' => Untouched
      BY <1>2, <1>3, <2>1 DEF Untouched, PushLaw
    <3> QED
      BY <1>1, <3>1
  <2>3. VInv'
    BY <1>2, <1>3, <2>1, <2>2, PushInv
  <2> QED
    BY <1>3, <2>1, <2>3
<1>4. CASE \E e \in {At(i), Junk} : PushGrows(e) /\ dangled' = TRUE
  <2>1. PICK e \in {At(i), Junk} : PushGrows(e) /\ dangled' = TRUE
    BY <1>4
  <2>2. e \in Slot
    BY <1>2
  <2>3. PushLaw(e)
    BY <1>1, <2>1, <2>2, PushGrowsLaw
  <2>4. ~Untouched' /\ dangled' \in BOOLEAN
    BY <2>1 DEF Untouched
  <2>5. VInv'
    BY <2>1, <2>2, <2>3, <2>4, PushInv
  <2> QED
    BY <2>1, <2>3, <2>5
<1> QED
  BY <1>3, <1>4 DEF PushOwn

LEMMA IterCallInv == VInv /\ IterCall => VInv'
<1> SUFFICES ASSUME VInv, NEW it \in Iters,
                    NewIter(it) \/ IterNext(it) \/ IterFails(it) \/ FreeIter(it)
             PROVE  VInv'
  BY DEF IterCall
<1>1. CASE NewIter(it)
  BY <1>1, NewIterInv
<1>2. CASE IterNext(it)
  BY <1>2, IterNextInv
<1>3. CASE IterFails(it)
  BY <1>3, KeepInv DEF IterFails, Statuses
<1>4. CASE FreeIter(it)
  BY <1>4, FreeIterInv
<1> QED
  BY <1>1, <1>2, <1>3, <1>4

LEMMA NextVInv == VInv /\ [Next]_vars => VInv'
<1> SUFFICES ASSUME VInv, [Next]_vars PROVE VInv'
  OBVIOUS
<1>1. CASE \E e \in Elems : Push(e)
  BY <1>1, PushElemInv
<1>2. CASE \E i \in 0 .. size - 1 : PushOwn(i)
  BY <1>2, PushOwnInv
<1>3. CASE \E i \in 0 .. size - 1, e \in Elems : Set(i, e)
  BY <1>3, SetInv
<1>4. CASE Create
  BY <1>4, CreateInv
<1>5. CASE CreateOOM
  BY <1>5, KeepInv DEF CreateOOM, Statuses
<1>6. CASE Free
  BY <1>6, FreeInv
<1>7. CASE PushOOM
  BY <1>7, PushOOMInv
<1>8. CASE Pop
  BY <1>8, PopInv
<1>9. CASE PopEmpty
  BY <1>9, KeepInv DEF PopEmpty, Statuses
<1>10. CASE Clear
  BY <1>10, ClearInv
<1>11. CASE IterCall
  BY <1>11, IterCallInv
<1>12. CASE UNCHANGED vars
  <2>1. status' = status /\ status \in Statuses
    BY <1>12, Unfold, TypeFacts DEF vars
  <2> QED
    BY <1>12, <2>1, KeepInv DEF vars
<1> QED
  BY <1>1, <1>2, <1>3, <1>4, <1>5, <1>6, <1>7, <1>8, <1>9, <1>10, <1>11, <1>12
     DEF Next

(* The invariant gives the property of the iterators.                      *)
LEMMA IteratorFromInv == VInv => IteratorExact
<1> SUFFICES ASSUME VInv, Untouched, NEW it \in Iters, HasNext(it)
             PROVE  /\ Len(iters[it].seen) = iters[it].current_index
                    /\ ~iters[it].stale
                    /\ \A n \in 1 .. Len(iters[it].seen) : iters[it].seen[n] # Junk
  BY DEF IteratorExact, Untouched
<1>1. /\ iters[it].open /\ iters[it].snapshot_version = version
      /\ iters[it].current_index < size
  BY DEF HasNext, Valid
<1>2. /\ IterInv /\ size \in Nat /\ iters[it].current_index \in Nat
  BY Unfold, TypeFacts DEF Iterator
<1> QED
  BY <1>1, <1>2 DEF IterInv, Spent, Exact

(* A vector touches memory outside its block only after a reallocation     *)
(* has failed, and until then every slot it counts has been written:       *)
(* cdsa_push_vector and what it does to capacity.                          *)
THEOREM OverrunCorrect == Spec => []OverrunNeedsFailure
<1>1. Spec => []VInv
  BY InitVInv, NextVInv, PTL DEF Spec
<1>2. VInv => OverrunNeedsFailure
  BY DEF VInv, BlockInv
<1> QED
  BY <1>1, <1>2, PTL

(* An iterator of a vector that would yield an element has missed no       *)
(* change of structure: the version check of cdsa_has_next_vector is       *)
(* enough, the clear that leaves version alone included.                   *)
THEOREM VectorIteratorCorrect == Spec => []IteratorExact
<1>1. Spec => []VInv
  BY InitVInv, NextVInv, PTL DEF Spec
<1> QED
  BY <1>1, IteratorFromInv, PTL

-----------------------------------------------------------------------------
(* Every step of a stack is a step of the vector below it, so what is      *)
(* proved of the vector holds under a stack.                               *)
THEOREM StackIsVector == SSpec => Spec
<1>1. SInit => Init
  BY DEF SInit
<1>2. [SNext]_svars => [Next]_vars
  <2> SUFFICES ASSUME [SNext]_svars PROVE [Next]_vars
    OBVIOUS
  <2>1. CASE \E e \in Elems : Push_stack(e)
    BY <2>1 DEF Push_stack, Next
  <2>2. CASE Pop_stack \/ Clear_stack \/ Free_stack \/ Unmoved
    BY <2>2 DEF Pop_stack, Clear_stack, Free_stack, Unmoved, Next
  <2>3. CASE \E i \in 0 .. size - 1 :
               PushOwnCall(i) \/ \E e \in Elems : SetCall(i, e)
    BY <2>3 DEF PushOwnCall, SetCall, Next
  <2>4. CASE WalkVector
    BY <2>4 DEF WalkVector, Next
  <2>5. CASE UNCHANGED svars
    BY <2>5 DEF svars
  <2> QED
    BY <2>1, <2>2, <2>3, <2>4, <2>5 DEF SNext
<1> QED
  BY <1>1, <1>2, PTL DEF SSpec, Spec

(* The slots of the vector against the client's stack, which is empty      *)
(* before it is created.                                                   *)
Lost == overrun \/ dangled
StackInv ==
  stack \in Seq(Elems) /\ (live \/ stack = <<>>) /\ LastInFirstOut

(* A push, of an element of the client's or of a copy of one below.        *)
LEMMA PushStack ==
  ASSUME VInv, StackInv, NEW v \in Slot, NEW e \in Elems, PushLaw(v),
         stack' = Append(stack, e), dangled => dangled',
         v = e \/ (v = Junk /\ Lost')
  PROVE  StackInv'
<1>1. /\ stack \in Seq(Elems) /\ size = Len(stack) /\ size \in Nat
      /\ overrun \in BOOLEAN
  BY Unfold, TypeFacts DEF StackInv, LastInFirstOut
<1>2. /\ stack' \in Seq(Elems) /\ Len(stack') = size + 1
      /\ \A n \in 1 .. size : stack'[n] = stack[n]
      /\ stack'[size + 1] = e
  BY <1>1, AppendProperties
<1>3. Lost => Lost'
  BY DEF PushLaw, Lost
<1>4. ASSUME NEW n \in 1 .. size + 1
      PROVE  At(n - 1)' = stack'[n] \/ (Lost' /\ At(n - 1)' = Junk)
  <2>1. CASE n \in 1 .. size
    <3>1. n - 1 \in 0 .. size /\ n - 1 < size
      BY <1>1, <2>1
    <3>2. \A i \in 0 .. size : i < size => At(i)' = At(i)
      BY DEF PushLaw
    <3>3. At(n - 1)' = At(n - 1)
      BY <3>1, <3>2
    <3>4. At(n - 1) = stack[n] \/ (Lost /\ At(n - 1) = Junk)
      BY <2>1 DEF StackInv, LastInFirstOut, Lost
    <3> QED
      BY <1>2, <1>3, <2>1, <3>3, <3>4
  <2>2. CASE n = size + 1
    <3>1. n - 1 \in 0 .. size /\ n - 1 = size
      BY <1>1, <2>2
    <3>2. \A i \in 0 .. size :
            i = size => At(i)' = IF size < block' THEN v ELSE Junk
      BY <1>1 DEF PushLaw
    <3>3. At(n - 1)' = IF size < block' THEN v ELSE Junk
      BY <3>1, <3>2
    <3>4. ~(size < block') => Lost'
      <4>1. block' \in Nat /\ overrun' = (overrun \/ size >= block')
        BY DEF PushLaw
      <4>2. ~(size < block') => size >= block'
        BY <1>1, <4>1
      <4> QED
        BY <4>1, <4>2 DEF Lost
    <3> QED
      BY <1>2, <2>2, <3>3, <3>4
  <2> QED
    BY <1>1, <2>1, <2>2
<1>5. size' = Len(stack') /\ size' = size + 1 /\ live'
  BY <1>2 DEF PushLaw
<1> QED
  BY <1>2, <1>4, <1>5 DEF StackInv, LastInFirstOut, Lost

(* A pop drops the last element; the slots below it stay as they are.      *)
LEMMA PopStack == VInv /\ StackInv /\ Pop_stack => StackInv'
<1> SUFFICES ASSUME VInv, StackInv, Pop_stack PROVE StackInv'
  OBVIOUS
<1>1. /\ stack \in Seq(Elems) /\ size = Len(stack) /\ size \in Nat /\ size > 0
      /\ stack' = SubSeq(stack, 1, size - 1) /\ size' = size - 1
      /\ data' = data /\ block' = block /\ overrun' = overrun /\ dangled' = dangled
      /\ live'
  BY Unfold, TypeFacts DEF StackInv, LastInFirstOut, Pop_stack, Pop, historyVars
<1>2. /\ stack' \in Seq(Elems) /\ Len(stack') = size - 1
      /\ \A n \in 1 .. size - 1 : stack'[n] = stack[n]
  <2>1. \A n \in 1 .. size - 1 : stack[n] \in Elems
    BY <1>1, ElementOfSeq
  <2> QED
    BY <1>1, <2>1, SubSeqProperties
<1>3. ASSUME NEW n \in 1 .. size - 1
      PROVE  At(n - 1)' = stack'[n] \/ (Lost' /\ At(n - 1)' = Junk)
  <2>1. n \in 1 .. size /\ At(n - 1)' = At(n - 1) /\ Lost' = Lost
    BY <1>1 DEF At, Lost
  <2> QED
    BY <1>2, <2>1 DEF StackInv, LastInFirstOut, Lost
<1> QED
  BY <1>1, <1>2, <1>3 DEF StackInv, LastInFirstOut, Lost

(* The stack below the calls that empty it, and those that leave it alone. *)
LEMMA EmptyStack == ASSUME size' = 0, stack' = <<>> PROVE StackInv'
<1>1. <<>> \in Seq(Elems) /\ Len(<<>>) = 0
  BY EmptySeq
<1> QED
  BY <1>1 DEF StackInv, LastInFirstOut

LEMMA KeepStack ==
  ASSUME StackInv, UNCHANGED <<live, data, size, block, overrun, dangled, stack>>
  PROVE  StackInv'
  BY DEF StackInv, LastInFirstOut, At

LEMMA UnmovedStack == VInv /\ StackInv /\ Unmoved => StackInv'
<1> SUFFICES ASSUME VInv, StackInv, Unmoved PROVE StackInv'
  OBVIOUS
<1>1. CASE Create
  <2>1. size' = 0 /\ stack' = <<>>
    BY <1>1 DEF Create, StackInv, Unmoved
  <2> QED
    BY <2>1, EmptyStack
<1>2. CASE CreateOOM \/ PushOOM \/ PopEmpty
  BY <1>2, KeepStack DEF Unmoved, CreateOOM, PushOOM, PopEmpty, vecVars, historyVars
<1> QED
  BY <1>1, <1>2 DEF Unmoved

LEMMA SetStack ==
  ASSUME VInv, StackInv, NEW i \in 0 .. size - 1, NEW e \in Elems, SetCall(i, e)
  PROVE  StackInv'
<1>1. /\ stack \in Seq(Elems) /\ size = Len(stack) /\ size \in Nat /\ block \in Nat
      /\ data \in [0 .. block - 1 -> Slot]
      /\ size' = size /\ block' = block /\ live' /\ dangled' = dangled
      /\ overrun' = (overrun \/ i >= block) /\ data' = Written(i, e)
      /\ stack' = [stack EXCEPT ![i + 1] = e]
  BY Unfold, TypeFacts DEF StackInv, LastInFirstOut, SetCall, Set
<1>2. i \in Nat /\ i + 1 \in 1 .. size
  BY <1>1
<1>3. /\ stack' \in Seq(Elems) /\ Len(stack') = size
      /\ \A n \in 1 .. size : stack'[n] = IF n = i + 1 THEN e ELSE stack[n]
  BY <1>1, <1>2, ExceptSeq
<1>4. ASSUME NEW n \in 1 .. size
      PROVE  At(n - 1)' = stack'[n] \/ (Lost' /\ At(n - 1)' = Junk)
  <2>1. At(n - 1) = stack[n] \/ (Lost /\ At(n - 1) = Junk)
    BY DEF StackInv, LastInFirstOut, Lost
  <2>2. Lost => Lost'
    BY <1>1 DEF Lost
  <2>3. n - 1 \in Nat
    BY <1>1
  <2>4. CASE n = i + 1 /\ i < block
    <3>1. At(n - 1)' = e
      BY <1>1, <1>2, <2>3, <2>4 DEF At, Written
    <3> QED
      BY <1>3, <2>4, <3>1
  <2>5. CASE n = i + 1 /\ ~(i < block)
    <3>1. At(n - 1)' = Junk
      BY <1>1, <1>2, <2>3, <2>5 DEF At
    <3>2. i >= block
      BY <1>1, <1>2, <2>5
    <3>3. Lost'
      BY <1>1, <3>2 DEF Lost
    <3> QED
      BY <3>1, <3>3
  <2>6. CASE n # i + 1
    <3>1. At(n - 1)' = At(n - 1)
      BY <1>1, <1>2, <2>3, <2>6 DEF At, Written
    <3> QED
      BY <1>3, <2>1, <2>2, <2>6, <3>1
  <2> QED
    BY <2>4, <2>5, <2>6
<1> QED
  BY <1>1, <1>3, <1>4 DEF StackInv, LastInFirstOut, Lost

LEMMA NextStack == VInv /\ StackInv /\ [SNext]_svars => StackInv'
<1> SUFFICES ASSUME VInv, StackInv, [SNext]_svars PROVE StackInv'
  OBVIOUS
<1>1. ASSUME NEW e \in Elems, Push_stack(e) PROVE StackInv'
  <2>1. PushLaw(e) /\ e \in Slot /\ dangled' = dangled
    BY <1>1, PushElemInv DEF Push_stack, Push, Slot
  <2> QED
    BY <1>1, <2>1, PushStack DEF Push_stack
<1>2. CASE Pop_stack
  BY <1>2, PopStack
<1>3. CASE Clear_stack \/ Free_stack
  BY <1>3, EmptyStack DEF Clear_stack, Free_stack, Clear, Free
<1>4. CASE Unmoved
  BY <1>4, UnmovedStack
<1>5. ASSUME NEW i \in 0 .. size - 1, PushOwnCall(i) PROVE StackInv'
  <2>1. /\ stack \in Seq(Elems) /\ size = Len(stack) /\ size \in Nat
        /\ stack' = Append(stack, stack[i + 1])
    BY <1>5, Unfold, TypeFacts DEF StackInv, LastInFirstOut, PushOwnCall
  <2>2. i + 1 \in 1 .. size /\ (i + 1) - 1 = i
    BY <2>1
  <2>3. stack[i + 1] \in Elems
    BY <2>1, <2>2, ElementOfSeq
  <2>4. At(i) = stack[i + 1] \/ (Lost /\ At(i) = Junk)
    BY <2>2 DEF StackInv, LastInFirstOut, Lost
  <2>5. PICK v \in {At(i), Junk} : PushLaw(v) /\ (v = At(i) \/ dangled')
    BY <1>5, PushOwnInv DEF PushOwnCall
  <2>6. dangled => dangled'
    BY <1>5, PushOwnInv DEF PushOwnCall
  <2>7. Lost => Lost'
    BY <2>5, <2>6 DEF PushLaw, Lost
  <2>8. v = stack[i + 1] \/ (v = Junk /\ Lost')
    BY <2>4, <2>5, <2>7 DEF Lost
  <2>9. v \in Slot
    BY <2>3, <2>8 DEF Slot
  <2> QED
    BY <2>1, <2>3, <2>5, <2>6, <2>8, <2>9, PushStack
<1>6. ASSUME NEW i \in 0 .. size - 1, NEW e \in Elems, SetCall(i, e) PROVE StackInv'
  BY <1>6, SetStack
<1>7. CASE WalkVector
  BY <1>7, KeepStack
     DEF WalkVector, IterCall, NewIter, IterNext, IterFails, FreeIter, vecVars, historyVars
<1>8. CASE UNCHANGED svars
  BY <1>8, KeepStack DEF svars, vars, vecVars, historyVars
<1> QED
  BY <1>1, <1>2, <1>3, <1>4, <1>5, <1>6, <1>7, <1>8 DEF SNext

LEMMA InitStack == SInit => StackInv
<1>1. <<>> \in Seq(Elems) /\ Len(<<>>) = 0
  BY EmptySeq
<1> QED
  BY <1>1 DEF SInit, Init, StackInv, LastInFirstOut

(* A stack of stack.c gives back the client's sequence, last in first out: *)
(* a slot is right, or its memory was lost to a write outside the block or *)
(* to the push of an own element that moved the block.                     *)
THEOREM StackCorrect == SSpec => []LastInFirstOut
<1>1. SInit => VInv
  BY InitVInv DEF SInit
<1>2. SSpec => []VInv
  BY StackIsVector, InitVInv, NextVInv, PTL DEF Spec
<1>3. SSpec => []StackInv
  BY <1>2, InitStack, NextStack, PTL DEF SSpec
<1>4. StackInv => LastInFirstOut
  BY DEF StackInv
<1> QED
  BY <1>3, <1>4, PTL

-----------------------------------------------------------------------------
(* The priority queue.  Its order is first proved of the ranks alone, as a *)
(* function r of the n slots.                                              *)

(* The heap order; the order but for the edge above k; and but for those   *)
(* below k.  In the last two the parent of k is in order with the children *)
(* of k.                                                                   *)
HeapOrder(r, n) == \A j \in 1 .. n - 1 : r[j] <= r[Parent(j)]

AcrossOrder(r, n, k) ==
  k > 0 => \A j \in 1 .. n - 1 : Parent(j) = k => r[j] <= r[Parent(k)]

UpOrder(r, n, k) ==
  /\ \A j \in 1 .. n - 1 : j # k => r[j] <= r[Parent(j)]
  /\ AcrossOrder(r, n, k)

DownOrder(r, n, k) ==
  /\ \A j \in 1 .. n - 1 : Parent(j) # k => r[j] <= r[Parent(j)]
  /\ AcrossOrder(r, n, k)

Swapped(r, i, j) == [r EXCEPT ![i] = r[j], ![j] = r[i]]

LEMMA ParentFacts ==
  ASSUME NEW j \in Nat, j > 0
  PROVE  /\ Parent(j) \in Nat /\ Parent(j) < j
         /\ j = 2 * Parent(j) + 1 \/ j = 2 * Parent(j) + 2
<1>1. j - 1 \in Nat
  OBVIOUS
<1> DEFINE p == (j - 1) \div 2
<1>2. p \in Int /\ 2 * p <= j - 1 /\ j - 1 < 2 * p + 2
  BY <1>1
<1> HIDE DEF p
<1>3. Parent(j) = p
  BY DEF Parent, p
<1> QED
  BY <1>1, <1>2, <1>3

LEMMA ChildFacts ==
  ASSUME NEW i \in Nat
  PROVE  Parent(2 * i + 1) = i /\ Parent(2 * i + 2) = i
  BY DEF Parent

LEMMA SwappedLaw ==
  ASSUME NEW n \in Nat, NEW S, NEW r \in [0 .. n - 1 -> S],
         NEW i \in 0 .. n - 1, NEW j \in 0 .. n - 1, i # j
  PROVE  /\ Swapped(r, i, j) \in [0 .. n - 1 -> S]
         /\ Swapped(r, i, j)[i] = r[j] /\ Swapped(r, i, j)[j] = r[i]
         /\ \A k \in 0 .. n - 1 : k # i /\ k # j => Swapped(r, i, j)[k] = r[k]
  BY DEF Swapped

(* A swap with a parent of lower rank moves the disorder up one level.     *)
LEMMA RiseKeepsOrder ==
  ASSUME NEW n \in Nat, NEW r \in [0 .. n - 1 -> Int], NEW k \in 1 .. n - 1,
         UpOrder(r, n, k), r[k] > r[Parent(k)]
  PROVE  UpOrder(Swapped(r, k, Parent(k)), n, Parent(k))
<1> DEFINE p == Parent(k)
           s == Swapped(r, k, p)
<1>1. p \in 0 .. n - 1 /\ p < k /\ k \in 0 .. n - 1
  BY ParentFacts
<1>2. /\ s[k] = r[p] /\ s[p] = r[k] /\ r[k] > r[p]
      /\ \A j \in 0 .. n - 1 : j # k /\ j # p => s[j] = r[j]
  BY <1>1 DEF Swapped
<1>3. \A j \in 0 .. n - 1 : r[j] \in Int
  OBVIOUS
<1>4. /\ \A j \in 1 .. n - 1 : j # k => r[j] <= r[Parent(j)]
      /\ \A j \in 1 .. n - 1 : Parent(j) = k => r[j] <= r[p]
  BY DEF UpOrder, AcrossOrder
<1>5. \A j \in 1 .. n - 1 : j \in 0 .. n - 1 /\ Parent(j) \in 0 .. n - 1 /\ Parent(j) < j
  BY ParentFacts
<1>6. Parent(k) = p
  OBVIOUS
<1> HIDE DEF p, s
<1>7. ASSUME NEW j \in 1 .. n - 1, j # p
      PROVE  s[j] <= s[Parent(j)]
  <2>1. CASE j = k
    BY <1>1, <1>2, <1>3, <1>6, <2>1
  <2>2. CASE j # k /\ Parent(j) = p
    <3>1. s[j] = r[j] /\ r[j] <= r[p] /\ s[Parent(j)] = r[k]
      BY <1>2, <1>4, <1>5, <1>7, <2>2
    <3> QED
      BY <1>1, <1>2, <1>3, <1>5, <3>1
  <2>3. CASE j # k /\ Parent(j) = k
    <3>1. s[j] = r[j] /\ r[j] <= r[p] /\ s[Parent(j)] = r[p]
      BY <1>2, <1>4, <1>5, <1>7, <2>3
    <3> QED
      BY <3>1
  <2>4. CASE j # k /\ Parent(j) # p /\ Parent(j) # k
    <3>1. s[j] = r[j] /\ s[Parent(j)] = r[Parent(j)]
      BY <1>2, <1>5, <1>7, <2>4
    <3> QED
      BY <1>4, <2>4, <3>1
  <2> QED
    BY <2>1, <2>2, <2>3, <2>4
<1>8. AcrossOrder(s, n, p)
  <2> SUFFICES ASSUME p > 0, NEW j \in 1 .. n - 1, Parent(j) = p
               PROVE  s[j] <= s[Parent(p)]
    BY DEF AcrossOrder
  <2>1. p \in 1 .. n - 1 /\ Parent(p) \in 0 .. n - 1 /\ Parent(p) < p
    BY <1>1, <1>5
  <2>2. s[Parent(p)] = r[Parent(p)] /\ r[p] <= r[Parent(p)]
    BY <1>1, <1>2, <1>4, <2>1
  <2>3. CASE j = k
    BY <1>2, <2>2, <2>3
  <2>4. CASE j # k
    <3>1. s[j] = r[j] /\ r[j] <= r[p]
      BY <1>2, <1>4, <1>5, <2>4
    <3> QED
      BY <1>1, <1>3, <1>5, <2>1, <2>2, <3>1
  <2> QED
    BY <2>3, <2>4
<1> QED
  BY <1>7, <1>8 DEF UpOrder, p, s

(* A swap with the child that outranks the entry and its sibling moves the *)
(* disorder down one level.                                                *)
LEMMA SinkKeepsOrder ==
  ASSUME NEW n \in Nat, NEW r \in [0 .. n - 1 -> Int], NEW k \in 0 .. n - 1,
         NEW h \in 1 .. n - 1, Parent(h) = k, DownOrder(r, n, k), r[h] > r[k],
         \A j \in 1 .. n - 1 : Parent(j) = k => r[j] <= r[h]
  PROVE  DownOrder(Swapped(r, k, h), n, h)
<1> DEFINE s == Swapped(r, k, h)
<1>1. h \in 0 .. n - 1 /\ k < h
  BY ParentFacts
<1>2. /\ s[k] = r[h] /\ s[h] = r[k]
      /\ \A j \in 0 .. n - 1 : j # k /\ j # h => s[j] = r[j]
  BY <1>1 DEF Swapped
<1>3. \A j \in 0 .. n - 1 : r[j] \in Int
  OBVIOUS
<1>4. /\ \A j \in 1 .. n - 1 : Parent(j) # k => r[j] <= r[Parent(j)]
      /\ k > 0 => \A j \in 1 .. n - 1 : Parent(j) = k => r[j] <= r[Parent(k)]
  BY DEF DownOrder, AcrossOrder
<1>5. \A j \in 1 .. n - 1 : j \in 0 .. n - 1 /\ Parent(j) \in 0 .. n - 1 /\ Parent(j) < j
  BY ParentFacts
<1> HIDE DEF s
<1>7. ASSUME NEW j \in 1 .. n - 1, Parent(j) # h
      PROVE  s[j] <= s[Parent(j)]
  <2>1. CASE j = h
    BY <1>1, <1>2, <1>3, <2>1
  <2>2. CASE j # h /\ Parent(j) = k
    <3>1. s[j] = r[j] /\ r[j] <= r[h] /\ s[Parent(j)] = r[h]
      BY <1>2, <1>5, <2>2
    <3> QED
      BY <3>1
  <2>3. CASE j = k
    <3>1. k > 0 /\ Parent(k) \in 0 .. n - 1 /\ Parent(k) < k
      BY <1>5, <2>3
    <3>2. s[Parent(k)] = r[Parent(k)] /\ r[h] <= r[Parent(k)]
      BY <1>1, <1>2, <1>4, <3>1
    <3> QED
      BY <1>2, <2>3, <3>2
  <2>4. CASE j # k /\ j # h /\ Parent(j) # k
    <3>1. s[j] = r[j] /\ s[Parent(j)] = r[Parent(j)]
      BY <1>2, <1>5, <1>7, <2>4
    <3> QED
      BY <1>4, <2>4, <3>1
  <2> QED
    BY <2>1, <2>2, <2>3, <2>4
<1>8. AcrossOrder(s, n, h)
  <2> SUFFICES ASSUME NEW j \in 1 .. n - 1, Parent(j) = h
               PROVE  s[j] <= s[Parent(h)]
    BY DEF AcrossOrder
  <2>1. j # h /\ j # k /\ j \in 0 .. n - 1
    BY <1>1, <1>5
  <2>2. s[j] = r[j] /\ r[j] <= r[h]
    BY <1>1, <1>2, <1>4, <2>1
  <2> QED
    BY <1>2, <2>2
<1> QED
  BY <1>7, <1>8 DEF DownOrder, s

(* A sift that stops leaves the heap in order.                             *)
LEMMA RisenIsOrder ==
  ASSUME NEW r, NEW n \in Nat, NEW k \in Nat, UpOrder(r, n, k),
         k = 0 \/ r[k] <= r[Parent(k)]
  PROVE  HeapOrder(r, n)
  BY DEF UpOrder, HeapOrder

LEMMA SunkIsOrder ==
  ASSUME NEW r, NEW n \in Nat, NEW k \in Nat, DownOrder(r, n, k),
         \A j \in 1 .. n - 1 : Parent(j) = k => r[j] <= r[k]
  PROVE  HeapOrder(r, n)
  BY DEF DownOrder, HeapOrder

(* In a heap in order no entry outranks the root: the least slot that did  *)
(* would have a parent that does.                                          *)
LEMMA RootIsHighest ==
  ASSUME NEW n \in Nat, NEW r \in [0 .. n - 1 -> Int], HeapOrder(r, n),
         NEW j \in 0 .. n - 1
  PROVE  r[j] <= r[0]
<1> DEFINE D == {i \in 0 .. n - 1 : r[i] > r[0]}
<1>1. SUFFICES ASSUME D # {} PROVE FALSE
  OBVIOUS
<1>2. D \in SUBSET Nat
  OBVIOUS
<1>3. PICK i \in D : \A m \in D : i <= m
  <2> HIDE DEF D
  <2> QED
    BY <1>1, <1>2, LeastNumber
<1>4. i \in 0 .. n - 1 /\ r[i] > r[0] /\ 0 \in 0 .. n - 1
  BY <1>3
<1>5. i \in 1 .. n - 1
  BY <1>4
<1>6. Parent(i) \in 0 .. n - 1 /\ Parent(i) < i
  BY <1>5, ParentFacts
<1>7. r[i] <= r[Parent(i)]
  BY <1>5 DEF HeapOrder
<1>8. r[Parent(i)] > r[0]
  BY <1>4, <1>6, <1>7
<1>9. Parent(i) \in D
  BY <1>6, <1>8
<1> QED
  BY <1>3, <1>4, <1>6, <1>9

-----------------------------------------------------------------------------
(* The invariant.  The vector below keeps its own, and as no element is    *)
(* pushed into a block that lacks the slot, nothing is lost; a sift runs   *)
(* on a heap that is not empty and that no iterator goes on over; the      *)
(* order is the heap's between calls and, in a sift, all but the edge or   *)
(* the two edges at index; an iterator that is not stale has yielded the   *)
(* first slots.                                                            *)
Rising == pc \in {"up_malloc", "up"}
Sinking == pc \in {"down_malloc", "down"}
Ranks == [i \in 0 .. size - 1 |-> Rank[At(i)]]

SiftInv ==
  /\ pc = "idle" \/ Rising \/ Sinking
  /\ index \in Nat /\ unsifted \in BOOLEAN
  /\ pc # "idle" => /\ live /\ index < size
                    /\ \A it \in Iters : iters[it].open => iters[it].stale

OrderInv ==
  ~unsifted => /\ pc = "idle" => HeapOrder(Ranks, size)
               /\ Rising => UpOrder(Ranks, size, index)
               /\ Sinking => DownOrder(Ranks, size, index)

Yielded(i) == [n \in 1 .. i.current_index |-> At(n - 1)]
WalkInv ==
  \A it \in Iters : iters[it].open /\ ~iters[it].stale =>
    iters[it].seen = Yielded(iters[it])

PQInv == VInv /\ Untouched /\ SiftInv /\ OrderInv /\ WalkInv

LEMMA PQFacts ==
  ASSUME PQInv
  PROVE  /\ TypeOK /\ IterInv /\ size \in Nat /\ block \in Nat /\ capacity \in Nat
         /\ version \in Nat /\ size <= block /\ size <= capacity /\ block <= capacity
         /\ data \in [0 .. block - 1 -> Slot] /\ iters \in [Iters -> Iterator]
         /\ ~overrun /\ ~dangled /\ (live => capacity > 0)
         /\ \A i \in 0 .. size - 1 : At(i) = data[i] /\ At(i) \in Elems
<1>1. /\ TypeOK /\ size <= capacity /\ block <= capacity /\ (live => capacity > 0)
      /\ (~overrun => size <= block) /\ IterInv
      /\ (Untouched => \A i \in 0 .. size - 1 : At(i) # Junk)
  BY Unfold DEF PQInv
<1>2. ~overrun /\ ~dangled /\ Untouched
  BY DEF PQInv, Untouched
<1>3. /\ capacity \in Nat /\ version \in Nat /\ block \in Nat /\ size \in Nat
      /\ data \in [0 .. block - 1 -> Slot] /\ iters \in [Iters -> Iterator]
  BY <1>1, TypeFacts
<1>4. ASSUME NEW i \in 0 .. size - 1 PROVE At(i) = data[i] /\ At(i) \in Elems
  <2>1. i \in 0 .. block - 1 /\ i < block /\ At(i) # Junk
    BY <1>1, <1>2, <1>3
  <2> QED
    BY <1>3, <2>1 DEF At, Slot
<1> QED
  BY <1>1, <1>2, <1>3, <1>4

LEMMA RanksType ==
  ASSUME size \in Nat, \A i \in 0 .. size - 1 : At(i) \in Elems
  PROVE  /\ Ranks \in [0 .. size - 1 -> Int]
         /\ \A i \in 0 .. size - 1 : Ranks[i] = Rank[At(i)]
  BY PriorityQueueAssumption DEF Ranks

(* Calls that leave the elements where they are.                           *)
LEMMA SameRanks ==
  ASSUME UNCHANGED <<data, size, block>>
  PROVE  Ranks' = Ranks /\ \A n : At(n)' = At(n)
<1>1. \A n : At(n)' = At(n)
  BY DEF At
<1> QED
  BY <1>1 DEF Ranks

LEMMA SameWalk ==
  ASSUME WalkInv, UNCHANGED <<data, size, block, iters>>
  PROVE  WalkInv'
  BY DEF WalkInv, Yielded, At

LEMMA KeepPQ ==
  ASSUME PQInv, VInv', pc = "idle", UNCHANGED <<data, size, block, overrun, dangled>>,
         UNCHANGED <<siftVars, unsifted>>, WalkInv'
  PROVE  PQInv'
<1>1. Untouched' /\ pc' = pc /\ index' = index /\ unsifted' = unsifted /\ size' = size
  BY DEF PQInv, Untouched, siftVars
<1>2. SiftInv'
  BY <1>1 DEF PQInv, SiftInv, Rising, Sinking
<1>3. Ranks' = Ranks
  BY SameRanks
<1>4. OrderInv'
  BY <1>1, <1>3 DEF PQInv, OrderInv, HeapOrder, Rising, Sinking
<1> QED
  BY <1>1, <1>2, <1>4 DEF PQInv

LEMMA EmptyPQ ==
  ASSUME PQInv, VInv', Untouched', pc = "idle", size' = 0, unsifted' = FALSE,
         UNCHANGED siftVars, WalkInv'
  PROVE  PQInv'
<1>1. pc' = "idle" /\ index' = index
  BY DEF siftVars
<1>2. SiftInv'
  BY <1>1 DEF PQInv, SiftInv
<1>3. OrderInv'
  BY <1>1 DEF OrderInv, HeapOrder, Rising, Sinking
<1> QED
  BY <1>2, <1>3 DEF PQInv

LEMMA CreatePQ == PQInv /\ Create_pq => PQInv'
<1> SUFFICES ASSUME PQInv, Create_pq PROVE PQInv'
  OBVIOUS
<1>1. VInv' /\ ~live /\ IterInv /\ pc = "idle"
  BY CreateInv, PQFacts DEF PQInv, SiftInv, Create_pq, Create
<1>2. WalkInv'
  BY <1>1 DEF IterInv, WalkInv, Create_pq, Create
<1>3. Untouched'
  BY DEF PQInv, Untouched, Create_pq, Create, historyVars
<1> QED
  BY <1>1, <1>2, <1>3, EmptyPQ DEF Create_pq, Create

LEMMA FreePQ == PQInv /\ Free_pq => PQInv'
<1> SUFFICES ASSUME PQInv, Free_pq PROVE PQInv'
  OBVIOUS
<1>1. VInv'
  BY FreeInv DEF PQInv, Free_pq
<1>2. WalkInv' /\ Untouched'
  BY DEF WalkInv, Untouched, Free_pq, Free
<1> QED
  BY <1>1, <1>2, EmptyPQ DEF Free_pq, Free

LEMMA ClearPQ == PQInv /\ Clear_pq => PQInv'
<1> SUFFICES ASSUME PQInv, Clear_pq PROVE PQInv'
  OBVIOUS
<1>1. VInv'
  BY ClearInv DEF PQInv, Clear_pq
<1>2. Untouched'
  BY DEF PQInv, Untouched, Clear_pq, Clear, historyVars
<1>3. WalkInv'
  <2>1. CASE size > 0
    <3>1. \A it \in Iters : iters'[it].open => iters'[it].stale
      BY <2>1, PQFacts, AllStaleLaw DEF Clear_pq, Clear
    <3> QED
      BY <3>1 DEF WalkInv
  <2>2. CASE ~(size > 0)
    <3>1. UNCHANGED <<data, block, iters>> /\ size' = size
      BY <2>2, PQFacts DEF Clear_pq, Clear
    <3> QED
      BY <3>1, SameWalk DEF PQInv
  <2> QED
    BY <2>1, <2>2
<1> QED
  BY <1>1, <1>2, <1>3, EmptyPQ DEF Clear_pq, Clear

(* A push stores the element in a slot of the block, behind the others,    *)
(* and the edge above it is the one that may be out of order.              *)
LEMMA PushEffect ==
  ASSUME PQInv, NEW e \in Elems, Push_pq(e)
  PROVE  /\ VInv' /\ Untouched' /\ size' = size + 1 /\ live' /\ iters' = AllStale
         /\ \A i \in 0 .. size : At(i)' = IF i < size THEN At(i) ELSE e
<1>1. /\ size \in Nat /\ capacity \in Nat /\ size <= capacity
      /\ (live => capacity > 0) /\ ~overrun /\ ~dangled
  BY PQFacts
<1>2. Push(e) /\ (Room => size < block)
  BY DEF Push_pq
<1>3. VInv' /\ PushLaw(e)
  BY <1>2, PushElemInv DEF PQInv
<1>4. size < block'
  <2>1. CASE PushFits(e)
    BY <1>2, <2>1 DEF PushFits
  <2>2. CASE PushGrows(e)
    <3>1. live /\ block' = capacity * 2
      BY <2>2 DEF PushGrows, Store
    <3> QED
      BY <1>1, <3>1
  <2> QED
    BY <1>2, <2>1, <2>2 DEF Push
<1>5. block' \in Nat /\ ~(size >= block')
  BY <1>1, <1>3, <1>4 DEF PushLaw
<1>6. Untouched'
  BY <1>1, <1>2, <1>3, <1>5 DEF PushLaw, Push, Untouched
<1>7. \A i \in 0 .. size :
        At(i)' = IF i < size THEN At(i) ELSE IF size < block' THEN e ELSE Junk
  BY <1>3 DEF PushLaw
<1> QED
  BY <1>1, <1>3, <1>4, <1>6, <1>7 DEF PushLaw

LEMMA PushPQ ==
  ASSUME PQInv, NEW e \in Elems, Push_pq(e)
  PROVE  PQInv'
<1>1. /\ VInv' /\ Untouched' /\ size' = size + 1 /\ live' /\ iters' = AllStale
      /\ \A i \in 0 .. size - 1 : At(i)' = At(i)
  BY PushEffect, PQFacts
<1>2. /\ size \in Nat /\ iters \in [Iters -> Iterator]
      /\ \A i \in 0 .. size - 1 : At(i) \in Elems
  BY PQFacts
<1>3. /\ pc = "idle" /\ index' = size /\ unsifted' = unsifted
      /\ pc' = IF size = 0 THEN "idle" ELSE "up_malloc"
  BY DEF Push_pq
<1>4. \A it \in Iters : iters'[it].open => iters'[it].stale
  BY <1>1, <1>2, AllStaleLaw
<1>5. WalkInv'
  BY <1>4 DEF WalkInv
<1>6. SiftInv'
  BY <1>1, <1>2, <1>3, <1>4 DEF PQInv, SiftInv, Rising
<1>7. \A i \in 0 .. size - 1 : Ranks'[i] = Ranks[i]
  BY <1>1, <1>2 DEF Ranks
<1>8. OrderInv'
  <2> SUFFICES ASSUME ~unsifted
               PROVE  /\ size = 0 => HeapOrder(Ranks', 1)
                      /\ size > 0 => UpOrder(Ranks', size + 1, size)
    BY <1>1, <1>2, <1>3 DEF OrderInv, Rising, Sinking
  <2>1. HeapOrder(Ranks, size)
    BY <1>3 DEF PQInv, OrderInv
  <2>2. \A j \in 1 .. size : Parent(j) \in 0 .. size - 1 /\ Parent(j) < j
    BY <1>2, ParentFacts
  <2>3. HeapOrder(Ranks', 1)
    BY DEF HeapOrder
  <2>4. ASSUME NEW j \in 1 .. (size + 1) - 1, j # size
        PROVE  Ranks'[j] <= Ranks'[Parent(j)]
    <3>1. j \in 1 .. size - 1 /\ j \in 0 .. size - 1 /\ Parent(j) \in 0 .. size - 1
      BY <1>2, <2>2, <2>4
    <3> QED
      BY <1>7, <2>1, <3>1 DEF HeapOrder
  <2>5. AcrossOrder(Ranks', size + 1, size)
    BY <1>2, <2>2 DEF AcrossOrder
  <2> QED
    BY <2>3, <2>4, <2>5 DEF UpOrder
<1> QED
  BY <1>1, <1>5, <1>6, <1>8 DEF PQInv

(* Slots rewritten, and perhaps the last one given up.  The iterators that *)
(* are open have been left behind or are from now on.                      *)
LEMMA RewriteInv ==
  ASSUME PQInv, NEW d \in [0 .. block - 1 -> Slot], NEW n \in Nat, n <= size,
         data' = d, size' = n, \A i \in 0 .. n - 1 : d[i] # Junk,
         UNCHANGED <<live, capacity, block, historyVars>>, status' \in Statuses,
         \/ version' = version /\ iters' = iters /\ n = size
         \/ version' = version + 1 /\ iters' = AllStale
  PROVE  VInv' /\ Untouched'
<1>1. /\ TypeOK /\ IterInv /\ size \in Nat /\ block \in Nat /\ capacity \in Nat
      /\ version \in Nat /\ size <= block /\ size <= capacity /\ block <= capacity
      /\ iters \in [Iters -> Iterator]
      /\ ~overrun /\ ~dangled /\ (live => capacity > 0) /\ (~failed => block = capacity)
  BY PQFacts, Unfold DEF PQInv
<1>2. /\ live' = live /\ capacity' = capacity /\ block' = block
      /\ failed' = failed /\ overrun' = overrun /\ dangled' = dangled
  BY DEF historyVars
<1>3. Untouched'
  BY <1>1, <1>2 DEF Untouched
<1>4. TypeOK'
  <2>1. iters' \in [Iters -> Iterator] /\ version' \in Nat
    BY <1>1, AllStaleLaw
  <2> QED
    BY <1>1, <1>2, <2>1, TypeFacts DEF TypeOK, Slot
<1>5. (Untouched => \A i \in 0 .. size - 1 : At(i) # Junk)'
  BY <1>1, <1>2 DEF At
<1>6. IterInv'
  <2> SUFFICES ASSUME NEW it \in Iters, iters'[it].open
               PROVE  /\ live' /\ iters'[it].snapshot_version <= version'
                      /\ (IF iters[it].stale THEN Spent(iters[it]) ELSE Exact(iters[it]))'
    BY DEF IterInv
  <2>1. CASE version' = version /\ iters' = iters /\ n = size
    BY <1>1, <1>2, <2>1 DEF IterInv, Spent, Exact, Untouched
  <2>2. CASE version' = version + 1 /\ iters' = AllStale
    <3>1. /\ iters[it].open /\ iters'[it].stale
          /\ iters'[it].snapshot_version = iters[it].snapshot_version
      BY <1>1, <2>2, AllStaleLaw
    <3>2. /\ iters[it].snapshot_version <= version
          /\ iters[it].snapshot_version \in Nat
      BY <1>1, <3>1 DEF IterInv, Iterator
    <3> QED
      BY <1>1, <1>2, <2>2, <3>1, <3>2 DEF Spent, IterInv
  <2> QED
    BY <2>1, <2>2
<1>7. (size <= capacity)' /\ (block <= capacity)' /\ (~failed => block = capacity)'
      /\ (live => capacity > 0)' /\ (~overrun => size <= block)'
  BY <1>1, <1>2
<1> QED
  BY <1>3, <1>4, <1>5, <1>6, <1>7, FoldNext

(* A pop puts the last element in place of the root.                       *)
LEMMA PopEffect ==
  ASSUME PQInv, Pop_pq
  PROVE  /\ VInv' /\ Untouched' /\ live' /\ size' = size - 1 /\ iters' = AllStale
         /\ \A i \in 0 .. size - 2 :
              At(i)' = IF i = 0 THEN At(size - 1) ELSE At(i)
<1> DEFINE d == [data EXCEPT ![0] = At(size - 1)]
<1>1. /\ size \in Nat /\ block \in Nat /\ size <= block
      /\ data \in [0 .. block - 1 -> Slot]
      /\ \A i \in 0 .. size - 1 : At(i) = data[i] /\ At(i) \in Elems
  BY PQFacts
<1>2. /\ live /\ size > 0 /\ data' = Written(0, At(size - 1)) /\ size' = size - 1
      /\ version' = version + 1 /\ iters' = AllStale /\ status' = "CDSA_OK"
      /\ UNCHANGED <<live, capacity, block, historyVars>>
  BY DEF Pop_pq
<1>3. data' = d /\ block' = block
  BY <1>1, <1>2 DEF Written
<1>4. size - 1 \in 0 .. size - 1 /\ 0 \in 0 .. size - 1 /\ At(size - 1) \in Elems
  BY <1>1, <1>2
<1>5. d \in [0 .. block - 1 -> Slot]
  BY <1>1, <1>4 DEF Slot
<1>6. \A i \in 0 .. block - 1 : d[i] = IF i = 0 THEN At(size - 1) ELSE data[i]
  BY <1>1
<1> HIDE DEF d
<1>7. \A i \in 0 .. (size - 1) - 1 : d[i] # Junk
  BY <1>1, <1>4, <1>6, VectorAssumption
<1>8. size - 1 \in Nat /\ size - 1 <= size /\ status' \in Statuses
  BY <1>1, <1>2 DEF Statuses
<1>9. VInv' /\ Untouched'
  BY <1>2, <1>3, <1>5, <1>7, <1>8, RewriteInv
<1>10. \A i \in 0 .. size - 2 : At(i)' = IF i = 0 THEN At(size - 1) ELSE At(i)
  <2> SUFFICES ASSUME NEW i \in 0 .. size - 2
               PROVE  At(i)' = IF i = 0 THEN At(size - 1) ELSE At(i)
    OBVIOUS
  <2>1. i < block /\ i \in 0 .. block - 1 /\ i \in 0 .. size - 1
    BY <1>1
  <2>2. At(i)' = d[i]
    BY <1>3, <2>1 DEF At
  <2> QED
    BY <1>1, <1>6, <2>1, <2>2
<1> QED
  BY <1>2, <1>9, <1>10

LEMMA PopPQ == PQInv /\ Pop_pq => PQInv'
<1> SUFFICES ASSUME PQInv, Pop_pq PROVE PQInv'
  OBVIOUS
<1>1. /\ VInv' /\ Untouched' /\ live' /\ size' = size - 1 /\ iters' = AllStale
      /\ \A i \in 0 .. size - 2 :
           At(i)' = IF i = 0 THEN At(size - 1) ELSE At(i)
  BY PopEffect
<1>2. size \in Nat /\ size > 0 /\ iters \in [Iters -> Iterator]
  BY PQFacts DEF Pop_pq
<1>3. /\ pc = "idle" /\ index' = 0 /\ unsifted' = (unsifted /\ size > 1)
      /\ pc' = IF size = 1 THEN "idle" ELSE "down_malloc"
  BY DEF Pop_pq
<1>4. \A it \in Iters : iters'[it].open => iters'[it].stale
  BY <1>1, <1>2, AllStaleLaw
<1>5. WalkInv'
  BY <1>4 DEF WalkInv
<1>6. SiftInv'
  BY <1>1, <1>2, <1>3, <1>4 DEF PQInv, SiftInv, Sinking
<1>7. \A i \in 1 .. size - 2 : Ranks'[i] = Ranks[i]
  BY <1>1, <1>2 DEF Ranks
<1>8. OrderInv'
  <2>1. CASE size = 1
    BY <1>1, <1>3, <2>1 DEF OrderInv, HeapOrder, Rising, Sinking
  <2>2. CASE size > 1
    <3>0. pc' = "down_malloc" /\ unsifted' = unsifted
      BY <1>2, <1>3, <2>2 DEF PQInv, SiftInv
    <3> SUFFICES ASSUME ~unsifted PROVE DownOrder(Ranks', size - 1, 0)
      BY <1>1, <1>3, <3>0 DEF OrderInv, Rising, Sinking
    <3>1. HeapOrder(Ranks, size)
      BY <1>3 DEF PQInv, OrderInv
    <3>2. ASSUME NEW j \in 1 .. (size - 1) - 1, Parent(j) # 0
          PROVE  Ranks'[j] <= Ranks'[Parent(j)]
      <4>1. /\ j \in 1 .. size - 2 /\ j \in 1 .. size - 1
            /\ Parent(j) \in 1 .. size - 2
        BY <1>2, <3>2, ParentFacts
      <4> QED
        BY <1>7, <3>1, <4>1 DEF HeapOrder
    <3> QED
      BY <3>2 DEF DownOrder, AcrossOrder
  <2> QED
    BY <1>2, <2>1, <2>2
<1> QED
  BY <1>1, <1>5, <1>6, <1>8 DEF PQInv

(* One swap of a sift.                                                     *)
LEMMA SwapEffect ==
  ASSUME PQInv, NEW i \in 0 .. size - 1, NEW j \in 0 .. size - 1, i # j, Swap(i, j)
  PROVE  /\ VInv' /\ Untouched'
         /\ Ranks' = Swapped(Ranks, i, j)
         /\ \A k \in 0 .. size - 1 :
              At(k)' = IF k = i THEN At(j) ELSE IF k = j THEN At(i) ELSE At(k)
<1> DEFINE d == [data EXCEPT ![i] = At(j), ![j] = At(i)]
<1>1. /\ size \in Nat /\ block \in Nat /\ size <= block
      /\ data \in [0 .. block - 1 -> Slot] /\ TypeOK
      /\ \A k \in 0 .. size - 1 : At(k) = data[k] /\ At(k) \in Elems
  BY PQFacts
<1>2. /\ data' = d /\ size' = size /\ block' = block /\ version' = version
      /\ iters' = iters /\ status' = status
      /\ UNCHANGED <<live, capacity, block, historyVars>>
  BY DEF Swap
<1>3. d \in [0 .. block - 1 -> Slot]
  BY <1>1 DEF Slot
<1>4. \A k \in 0 .. block - 1 :
        d[k] = IF k = i THEN At(j) ELSE IF k = j THEN At(i) ELSE data[k]
  BY <1>1
<1> HIDE DEF d
<1>5. \A k \in 0 .. size - 1 : d[k] # Junk
  BY <1>1, <1>4, VectorAssumption
<1>6. status' \in Statuses
  BY <1>1, <1>2, TypeFacts
<1>7. VInv' /\ Untouched'
  BY <1>1, <1>2, <1>3, <1>5, <1>6, RewriteInv
<1>8. \A k \in 0 .. size - 1 :
        At(k)' = IF k = i THEN At(j) ELSE IF k = j THEN At(i) ELSE At(k)
  <2> SUFFICES ASSUME NEW k \in 0 .. size - 1
               PROVE  At(k)' = IF k = i THEN At(j) ELSE IF k = j THEN At(i) ELSE At(k)
    OBVIOUS
  <2>1. k < block /\ k \in 0 .. block - 1
    BY <1>1
  <2>2. At(k)' = d[k]
    BY <1>2, <2>1 DEF At
  <2> QED
    BY <1>1, <1>4, <2>1, <2>2
<1>9. Ranks' = Swapped(Ranks, i, j)
  BY <1>2, <1>8 DEF Ranks, Swapped
<1> QED
  BY <1>7, <1>8, <1>9

(* The sift upwards: cmp of an entry and its parent, and the swap.         *)
LEMMA SiftUpPQ == PQInv /\ SiftUp => PQInv'
<1> SUFFICES ASSUME PQInv, SiftUp PROVE PQInv'
  OBVIOUS
<1> DEFINE p == Parent(index)
<1>1. /\ pc = "up" /\ index > 0 /\ cmp(At(index), At(p)) /\ Swap(index, p)
  BY DEF SiftUp, Rises
<1>2. /\ size \in Nat /\ \A i \in 0 .. size - 1 : At(i) \in Elems
  BY PQFacts
<1>3. /\ index \in Nat /\ index < size /\ live
      /\ \A it \in Iters : iters[it].open => iters[it].stale
  BY <1>1 DEF PQInv, SiftInv
<1>4. index \in 1 .. size - 1 /\ index \in 0 .. size - 1 /\ p \in 0 .. size - 1
      /\ index # p /\ p \in Nat /\ p < size
  BY <1>1, <1>2, <1>3, ParentFacts
<1>5. VInv' /\ Untouched' /\ Ranks' = Swapped(Ranks, index, p)
  BY <1>1, <1>4, SwapEffect
<1>6. /\ pc' = pc /\ index' = p /\ unsifted' = unsifted /\ size' = size
      /\ live' = live /\ iters' = iters
  BY <1>1 DEF Swap
<1>7. SiftInv'
  BY <1>1, <1>3, <1>4, <1>6 DEF PQInv, SiftInv, Rising, Sinking
<1>8. WalkInv'
  BY <1>3, <1>6 DEF WalkInv
<1>9. OrderInv'
  <2> SUFFICES ASSUME ~unsifted PROVE UpOrder(Ranks', size, p)
    BY <1>1, <1>6 DEF OrderInv, Rising, Sinking
  <2>1. UpOrder(Ranks, size, index)
    BY <1>1 DEF PQInv, OrderInv, Rising
  <2>2. /\ Ranks \in [0 .. size - 1 -> Int]
        /\ Ranks[index] > Ranks[Parent(index)]
    BY <1>1, <1>2, <1>4, RanksType DEF cmp
  <2> QED
    BY <1>2, <1>4, <1>5, <2>1, <2>2, RiseKeepsOrder
<1> QED
  BY <1>5, <1>7, <1>8, <1>9 DEF PQInv

(* The child that Highest picks, if it picks one.                          *)
LEMMA HighestLaw ==
  ASSUME PQInv, index < size, index \in Nat
  PROVE  LET h == Highest(index) IN
         /\ h # index => /\ h \in 1 .. size - 1 /\ Parent(h) = index
                         /\ Ranks[h] > Ranks[index]
                         /\ \A j \in 1 .. size - 1 :
                              Parent(j) = index => Ranks[j] <= Ranks[h]
         /\ h = index => \A j \in 1 .. size - 1 :
                           Parent(j) = index => Ranks[j] <= Ranks[index]
<1> DEFINE l == 2 * index + 1
           g == 2 * index + 2
           k == IF Better(index, l) THEN l ELSE index
           h == IF Better(k, g) THEN g ELSE k
<1>1. /\ size \in Nat /\ \A i \in 0 .. size - 1 : At(i) \in Elems
  BY PQFacts
<1>2. /\ Ranks \in [0 .. size - 1 -> Int]
      /\ \A i \in 0 .. size - 1 : Ranks[i] = Rank[At(i)]
  BY <1>1, RanksType
<1>3. Parent(l) = index /\ Parent(g) = index /\ l \in Nat /\ g \in Nat
      /\ l > 0 /\ g > 0 /\ l # index /\ g # index
  BY ChildFacts
<1>4. \A j \in 1 .. size - 1 : Parent(j) = index => j = l \/ j = g
  BY <1>1, ParentFacts
<1>5. ASSUME NEW i \in 0 .. size - 1, NEW j \in Nat
      PROVE  Better(i, j) <=> j < size /\ Ranks[j] > Ranks[i]
  BY <1>1, <1>2, <1>5 DEF Better, cmp
<1>6. Highest(index) = h
  BY DEF Highest
<1>7. index \in 0 .. size - 1
  BY <1>1
<1>8. k \in 0 .. size - 1 /\ (k = index \/ k = l)
  BY <1>1, <1>3, <1>5, <1>7
<1>9. Better(index, l) <=> l < size /\ Ranks[l] > Ranks[index]
  BY <1>3, <1>5, <1>7
<1>10. Better(k, g) <=> g < size /\ Ranks[g] > Ranks[k]
  <2> HIDE DEF k, g
  <2> QED
    BY <1>3, <1>5, <1>8
<1>11. /\ l < size => Ranks[l] \in Int
       /\ g < size => Ranks[g] \in Int
       /\ Ranks[index] \in Int
  BY <1>1, <1>2, <1>3, <1>7
<1>12. /\ k = IF l < size /\ Ranks[l] > Ranks[index] THEN l ELSE index
       /\ h = IF g < size /\ Ranks[g] > Ranks[k] THEN g ELSE k
  BY <1>9, <1>10
<1> HIDE DEF l, g, k, h
<1>13. CASE h = g /\ g < size /\ Ranks[g] > Ranks[k]
  BY <1>1, <1>3, <1>4, <1>6, <1>11, <1>12, <1>13
<1>14. CASE h = k /\ ~(g < size /\ Ranks[g] > Ranks[k])
  BY <1>1, <1>3, <1>4, <1>6, <1>11, <1>12, <1>14
<1> QED
  BY <1>12, <1>13, <1>14

LEMMA SiftDownPQ == PQInv /\ SiftDown => PQInv'
<1> SUFFICES ASSUME PQInv, SiftDown PROVE PQInv'
  OBVIOUS
<1> DEFINE h == Highest(index)
<1>1. pc = "down" /\ h # index /\ Swap(index, h)
  BY DEF SiftDown
<1>2. /\ size \in Nat /\ \A i \in 0 .. size - 1 : At(i) \in Elems
  BY PQFacts
<1>3. /\ index \in Nat /\ index < size /\ live
      /\ \A it \in Iters : iters[it].open => iters[it].stale
  BY <1>1 DEF PQInv, SiftInv
<1>4. /\ h \in 1 .. size - 1 /\ Parent(h) = index /\ Ranks[h] > Ranks[index]
      /\ \A j \in 1 .. size - 1 : Parent(j) = index => Ranks[j] <= Ranks[h]
  BY <1>1, <1>3, HighestLaw
<1> HIDE DEF h
<1>5. h \in 0 .. size - 1 /\ index \in 0 .. size - 1 /\ h \in Nat /\ h < size
  BY <1>2, <1>3, <1>4
<1>6. VInv' /\ Untouched' /\ Ranks' = Swapped(Ranks, index, h)
  BY <1>1, <1>5, SwapEffect
<1>7. /\ pc' = pc /\ index' = h /\ unsifted' = unsifted /\ size' = size
      /\ live' = live /\ iters' = iters
  BY <1>1 DEF Swap
<1>8. SiftInv'
  BY <1>1, <1>3, <1>5, <1>7 DEF PQInv, SiftInv, Rising, Sinking
<1>9. WalkInv'
  BY <1>3, <1>7 DEF WalkInv
<1>10. OrderInv'
  <2> SUFFICES ASSUME ~unsifted PROVE DownOrder(Ranks', size, h)
    BY <1>1, <1>7 DEF OrderInv, Rising, Sinking
  <2>1. DownOrder(Ranks, size, index)
    BY <1>1 DEF PQInv, OrderInv, Sinking
  <2>2. Ranks \in [0 .. size - 1 -> Int]
    BY <1>2, RanksType
  <2> QED
    BY <1>2, <1>4, <1>5, <1>6, <2>1, <2>2, SinkKeepsOrder
<1> QED
  BY <1>6, <1>8, <1>9, <1>10 DEF PQInv

(* Steps of a call that leave the vector alone.                            *)
LEMMA StillPQ ==
  ASSUME PQInv, UNCHANGED <<live, vecVars, historyVars, iters>>, status' \in Statuses,
         SiftInv', OrderInv'
  PROVE  PQInv'
<1>1. VInv'
  BY KeepInv DEF PQInv
<1>2. WalkInv'
  BY SameWalk DEF PQInv, vecVars
<1>3. Untouched'
  BY DEF PQInv, Untouched, historyVars
<1> QED
  BY <1>1, <1>2, <1>3 DEF PQInv

LEMMA SiftStepPQ ==
  PQInv /\ (SiftStart \/ SiftOOM \/ SiftUpDone \/ SiftDownDone) => PQInv'
<1> SUFFICES ASSUME PQInv, SiftStart \/ SiftOOM \/ SiftUpDone \/ SiftDownDone
             PROVE  PQInv'
  OBVIOUS
<1>1. /\ UNCHANGED <<live, vecVars, historyVars, iters>>
      /\ status' = status \/ status' = "CDSA_ERR_OOM"
  BY DEF SiftStart, SiftOOM, SiftUpDone, SiftDownDone, SiftDone, vars
<1>2. status' \in Statuses
  BY <1>1, PQFacts, TypeFacts DEF Statuses
<1>3. /\ size' = size /\ live' = live /\ iters' = iters /\ Ranks' = Ranks
  BY <1>1, SameRanks DEF vecVars
<1>4. /\ size \in Nat /\ \A i \in 0 .. size - 1 : At(i) \in Elems
  BY PQFacts
<1>5. pc # "idle"
  BY DEF SiftStart, SiftOOM, SiftUpDone, SiftDownDone
<1>6. /\ index \in Nat /\ index < size /\ unsifted \in BOOLEAN
      /\ \A it \in Iters : iters[it].open => iters[it].stale
  BY <1>5 DEF PQInv, SiftInv
<1>7. CASE SiftStart
  <2>1. /\ pc \in {"up_malloc", "down_malloc"}
        /\ pc' = IF pc = "up_malloc" THEN "up" ELSE "down"
        /\ index' = index /\ unsifted' = unsifted
    BY <1>7 DEF SiftStart
  <2>2. SiftInv'
    BY <1>3, <1>5, <2>1 DEF PQInv, SiftInv, Rising, Sinking
  <2>3. OrderInv'
    BY <1>3, <2>1 DEF PQInv, OrderInv, Rising, Sinking
  <2> QED
    BY <1>1, <1>2, <2>2, <2>3, StillPQ
<1>8. CASE SiftOOM
  <2>1. SiftInv' /\ OrderInv'
    BY <1>8 DEF SiftOOM, SiftInv, OrderInv
  <2> QED
    BY <1>1, <1>2, <2>1, StillPQ
<1>9. CASE SiftUpDone \/ SiftDownDone
  <2>1. pc' = "idle" /\ index' = 0 /\ unsifted' = unsifted
    BY <1>9 DEF SiftUpDone, SiftDownDone, SiftDone
  <2>2. SiftInv'
    BY <1>6, <2>1 DEF SiftInv
  <2>3. ASSUME ~unsifted PROVE HeapOrder(Ranks, size)
    <3>1. CASE SiftUpDone
      <4>1. UpOrder(Ranks, size, index)
        BY <2>3, <3>1 DEF SiftUpDone, PQInv, OrderInv, Rising
      <4>2. CASE index = 0
        BY <1>4, <1>6, <4>1, <4>2, RisenIsOrder
      <4>3. CASE index > 0
        <5>1. index \in 0 .. size - 1 /\ Parent(index) \in 0 .. size - 1
          BY <1>4, <1>6, <4>3, ParentFacts
        <5>2. ~(Ranks[index] > Ranks[Parent(index)])
          BY <1>4, <3>1, <4>3, <5>1, RanksType DEF SiftUpDone, Rises, cmp
        <5>3. Ranks[index] <= Ranks[Parent(index)]
          BY <1>4, <5>1, <5>2, RanksType
        <5> QED
          BY <1>4, <1>6, <4>1, <5>3, RisenIsOrder
      <4> QED
        BY <1>6, <4>2, <4>3
    <3>2. CASE SiftDownDone
      <4>1. DownOrder(Ranks, size, index) /\ Highest(index) = index
        BY <2>3, <3>2 DEF SiftDownDone, PQInv, OrderInv, Sinking
      <4>2. \A j \in 1 .. size - 1 : Parent(j) = index => Ranks[j] <= Ranks[index]
        BY <1>6, <4>1, HighestLaw
      <4> QED
        BY <1>4, <1>6, <4>1, <4>2, SunkIsOrder
    <3> QED
      BY <1>9, <3>1, <3>2
  <2>4. OrderInv'
    BY <1>3, <2>1, <2>3 DEF OrderInv, Rising, Sinking
  <2> QED
    BY <1>1, <1>2, <2>2, <2>4, StillPQ
<1> QED
  BY <1>7, <1>8, <1>9

(* The calls on an iterator, between two calls on the queue.               *)
LEMMA WalkPQ == PQInv /\ WalkCall => PQInv'
<1> SUFFICES ASSUME PQInv, WalkCall, NEW it \in Iters,
                    NewIter(it) \/ IterNext(it) \/ IterFails(it) \/ FreeIter(it)
             PROVE  PQInv'
  BY DEF WalkCall, IterCall
<1>1. VInv' /\ pc = "idle" /\ UNCHANGED <<siftVars, unsifted>>
  BY IterCallInv DEF PQInv, WalkCall
<1>2. UNCHANGED <<data, size, block, overrun, dangled>>
  BY DEF NewIter, IterNext, IterFails, FreeIter, vecVars, historyVars
<1>3. \A n : At(n)' = At(n)
  BY <1>2, SameRanks
<1>4. iters \in [Iters -> Iterator] /\ TypeOK
  BY PQFacts
<1>5. ASSUME NEW j \in Iters, j # it
      PROVE  iters'[j] = iters[j]
  BY <1>4, <1>5 DEF NewIter, IterNext, IterFails, FreeIter
<1>6. ASSUME iters'[it].open, ~iters'[it].stale
      PROVE  iters'[it].seen = Yielded(iters[it])'
  <2>1. CASE NewIter(it)
    <3>1. iters'[it].seen = <<>> /\ iters'[it].current_index = 0
      BY <1>4, <2>1 DEF NewIter, ClosedIter
    <3>2. Yielded(iters[it])' = [n \in 1 .. 0 |-> At(n - 1)']
      BY <3>1 DEF Yielded
    <3> QED
      BY <3>1, <3>2
  <2>2. CASE IterNext(it)
    <3> DEFINE c == iters[it].current_index
    <3>1. /\ iters[it].open /\ c \in Nat /\ c < size
          /\ iters[it].seen \in Seq(Slot)
          /\ iters'[it].current_index = c + 1 /\ iters'[it].stale = iters[it].stale
          /\ iters'[it].seen = Append(iters[it].seen, At(c))
      BY <1>4, <2>2 DEF IterNext, HasNext, Valid, Iterator, Slot
    <3>2. iters[it].seen = [n \in 1 .. c |-> At(n - 1)]
      BY <1>6, <3>1 DEF PQInv, WalkInv, Yielded
    <3> HIDE DEF c
    <3>3. Len(iters[it].seen) = c
      BY <3>1, <3>2, LenProperties
    <3>4. /\ DOMAIN iters'[it].seen = 1 .. c + 1
          /\ \A n \in 1 .. c + 1 : iters'[it].seen[n] = At(n - 1)
      <4>1. At(c) \in Slot
        BY <1>4, <3>1, AtType
      <4>2. /\ Append(iters[it].seen, At(c)) \in Seq(Slot)
            /\ Len(Append(iters[it].seen, At(c))) = c + 1
            /\ Append(iters[it].seen, At(c))[c + 1] = At(c)
            /\ \A n \in 1 .. c : Append(iters[it].seen, At(c))[n] = iters[it].seen[n]
        BY <3>1, <3>3, <4>1, AppendProperties
      <4>3. \A n \in 1 .. c : iters[it].seen[n] = At(n - 1)
        BY <3>2
      <4>4. ASSUME NEW n \in 1 .. c + 1 PROVE iters'[it].seen[n] = At(n - 1)
        <5>1. CASE n \in 1 .. c
          BY <3>1, <4>2, <4>3, <5>1
        <5>2. CASE n = c + 1
          BY <3>1, <4>2, <5>2
        <5>3. n \in 1 .. c \/ n = c + 1
          BY <3>1
        <5> QED
          BY <5>1, <5>2, <5>3
      <4> QED
        BY <3>1, <4>2, <4>4, LenProperties
    <3>5. Yielded(iters[it])' = [n \in 1 .. c + 1 |-> At(n - 1)]
      BY <1>3, <3>1 DEF Yielded
    <3>6. iters'[it].seen = [n \in 1 .. c + 1 |-> iters'[it].seen[n]]
      BY <3>1, <3>4
    <3> QED
      BY <3>4, <3>5, <3>6
  <2>3. CASE IterFails(it)
    BY <1>3, <1>6, <2>3 DEF IterFails, PQInv, WalkInv, Yielded
  <2>4. CASE FreeIter(it)
    BY <1>4, <1>6, <2>4 DEF FreeIter, ClosedIter
  <2> QED
    BY <2>1, <2>2, <2>3, <2>4
<1>7. WalkInv'
  <2> SUFFICES ASSUME NEW j \in Iters, iters'[j].open, ~iters'[j].stale
               PROVE  iters'[j].seen = Yielded(iters[j])'
    BY DEF WalkInv
  <2>1. CASE j # it
    <3>1. iters'[j] = iters[j]
      BY <1>5, <2>1
    <3> QED
      BY <1>3, <3>1 DEF PQInv, WalkInv, Yielded
  <2> QED
    BY <1>6, <2>1
<1> QED
  BY <1>1, <1>2, <1>7, KeepPQ

LEMMA PQInit == PInit => PQInv
<1> SUFFICES ASSUME PInit PROVE PQInv
  OBVIOUS
<1>1. /\ VInv /\ size = 0 /\ ~overrun /\ ~dangled
      /\ iters = [it \in Iters |-> ClosedIter]
      /\ pc = "idle" /\ index = 0 /\ unsifted = FALSE
  BY InitVInv DEF PInit, Init
<1>2. WalkInv
  BY <1>1, ClosedType DEF WalkInv
<1>3. OrderInv
  BY <1>1 DEF OrderInv, HeapOrder, Rising, Sinking
<1> QED
  BY <1>1, <1>2, <1>3 DEF PQInv, SiftInv, Untouched

LEMMA PQNext == PQInv /\ [PNext]_pqvars => PQInv'
<1> SUFFICES ASSUME PQInv, [PNext]_pqvars PROVE PQInv'
  OBVIOUS
<1>1. CASE SiftUp \/ SiftDown
  BY <1>1, SiftUpPQ, SiftDownPQ
<1>2. CASE SiftStart \/ SiftOOM \/ SiftUpDone \/ SiftDownDone
  BY <1>2, SiftStepPQ
<1>3. CASE WalkCall
  BY <1>3, WalkPQ
<1>4. CASE Create_pq \/ Free_pq \/ Clear_pq \/ Pop_pq
  BY <1>4, CreatePQ, FreePQ, ClearPQ, PopPQ
<1>5. CASE \E e \in Elems : Push_pq(e)
  BY <1>5, PushPQ
<1>6. CASE Push_pqOOM
  <2>1. VInv' /\ pc = "idle"
    BY <1>6, PushOOMInv DEF PQInv, Push_pqOOM
  <2>2. UNCHANGED <<data, size, block, overrun, dangled, iters, siftVars, unsifted>>
    BY <1>6 DEF Push_pqOOM, PushOOM
  <2> QED
    BY <2>1, <2>2, SameWalk, KeepPQ DEF PQInv
<1>7. CASE Create_pqOOM \/ Pop_pqEmpty \/ UNCHANGED pqvars
  <2>1. /\ UNCHANGED <<live, vecVars, historyVars, iters, siftVars, unsifted>>
        /\ status' \in {status, "CDSA_ERR_OOM", "CDSA_ERR_EMPTY"}
    BY <1>7 DEF Create_pqOOM, CreateOOM, Pop_pqEmpty, pqvars, vars
  <2>2. status' \in Statuses
    BY <2>1, PQFacts, TypeFacts DEF Statuses
  <2>3. /\ Ranks' = Ranks /\ size' = size /\ pc' = pc /\ index' = index
        /\ unsifted' = unsifted /\ live' = live /\ iters' = iters
    BY <2>1, SameRanks DEF vecVars, siftVars
  <2>4. SiftInv' /\ OrderInv'
    BY <2>3 DEF PQInv, SiftInv, OrderInv, Rising, Sinking
  <2> QED
    BY <2>1, <2>2, <2>4, StillPQ
<1> QED
  BY <1>1, <1>2, <1>3, <1>4, <1>5, <1>6, <1>7 DEF PNext, Sift

LEMMA PQAlways == PSpec => []PQInv
  BY PQInit, PQNext, PTL DEF PSpec

LEMMA OrderGivesHeap == PQInv => HeapInvariant
<1> SUFFICES ASSUME PQInv PROVE HeapInvariant
  OBVIOUS
<1>1. /\ size \in Nat /\ IterInv /\ \A i \in 0 .. size - 1 : At(i) \in Elems
      /\ iters \in [Iters -> Iterator]
  BY PQFacts
<1>2. /\ Ranks \in [0 .. size - 1 -> Int]
      /\ \A i \in 0 .. size - 1 : Ranks[i] = Rank[At(i)]
  BY <1>1, RanksType
<1>3. \A i, j \in 0 .. size - 1 : InOrder(i, j) <=> Ranks[j] <= Ranks[i]
  BY <1>2 DEF InOrder, cmp
<1>4. \A j \in 1 .. size - 1 : j \in 0 .. size - 1 /\ Parent(j) \in 0 .. size - 1
  BY <1>1, ParentFacts
<1>5. ASSUME ~unsifted, NEW j \in 1 .. size - 1, ~Suspect(Parent(j), j)
      PROVE  InOrder(Parent(j), j)
  <2>1. CASE pc = "idle"
    BY <1>3, <1>4, <1>5, <2>1 DEF PQInv, OrderInv, HeapOrder
  <2>2. CASE Rising
    BY <1>3, <1>4, <1>5, <2>2 DEF PQInv, OrderInv, UpOrder, Suspect, Rising
  <2>3. CASE Sinking
    BY <1>3, <1>4, <1>5, <2>3 DEF PQInv, OrderInv, DownOrder, Suspect, Sinking
  <2> QED
    BY <2>1, <2>2, <2>3 DEF PQInv, SiftInv
<1>6. ASSUME ~unsifted, pc # "idle", index > 0,
             NEW j \in 1 .. size - 1, Parent(j) = index
      PROVE  InOrder(Parent(index), j)
  <2>1. index \in 1 .. size - 1
    BY <1>1, <1>6 DEF PQInv, SiftInv
  <2>2. AcrossOrder(Ranks, size, index)
    BY <1>6 DEF PQInv, SiftInv, OrderInv, UpOrder, DownOrder
  <2> QED
    BY <1>3, <1>4, <1>6, <2>1, <2>2 DEF AcrossOrder
<1>7. ASSUME NEW it \in Iters, HasNext(it)
      PROVE  iters[it].seen = [n \in 1 .. iters[it].current_index |-> At(n - 1)]
  <2>1. /\ iters[it].open /\ iters[it].snapshot_version = version
        /\ iters[it].current_index < size
    BY <1>7 DEF HasNext, Valid
  <2>2. iters[it].current_index \in Nat
    BY <1>1 DEF Iterator
  <2>3. ~iters[it].stale
    BY <1>1, <2>1, <2>2 DEF IterInv, Spent
  <2> QED
    BY <2>1, <2>3 DEF PQInv, WalkInv, Yielded
<1>8. \A e \in Edges : e[2] \in 1 .. size - 1 /\ e[1] = Parent(e[2])
  BY DEF Edges
<1> QED
  BY <1>5, <1>6, <1>7, <1>8 DEF HeapInvariant

(* Whatever the comparison ranks equal, and however pushes and pops are    *)
(* mixed, a sift leaves out of order only what it has still to visit, and  *)
(* the heap is in order when it ends: cdsa_push_priority_queue and         *)
(* cdsa_pop_priority_queue, as long as malloc gave them their swap buffer. *)
THEOREM HeapCorrect == PSpec => []HeapInvariant
  BY PQAlways, OrderGivesHeap, PTL

-----------------------------------------------------------------------------
(* The bag of the elements in slots 0 to n - 1 of d.                       *)
Holds(d, n, e) == {k \in 0 .. n - 1 : d[k] = e}
Count(d, n, e) == Cardinality(Holds(d, n, e))

LEMMA HoldsFinite ==
  ASSUME NEW d, NEW n \in Nat, NEW e
  PROVE  /\ IsFiniteSet(Holds(d, n, e)) /\ Count(d, n, e) \in Nat
         /\ Count(d, n, e) > 0 <=> \E k \in 0 .. n - 1 : d[k] = e
<1>1. IsFiniteSet(0 .. n - 1) /\ Holds(d, n, e) \in SUBSET (0 .. n - 1)
  BY FS_Interval DEF Holds
<1>2. IsFiniteSet(Holds(d, n, e))
  BY <1>1, FS_Subset
<1>3. Count(d, n, e) \in Nat /\ (Count(d, n, e) = 0 <=> Holds(d, n, e) = {})
  BY <1>2, FS_CardinalityType, FS_EmptySet DEF Count
<1> QED
  BY <1>2, <1>3 DEF Holds

(* A swap changes no count.                                                *)
LEMMA SwapCount ==
  ASSUME NEW n \in Nat, NEW d, DOMAIN d = 0 .. n - 1,
         NEW i \in 0 .. n - 1, NEW j \in 0 .. n - 1, NEW e
  PROVE  Count(Swapped(d, i, j), n, e) = Count(d, n, e)
<1> DEFINE w == Swapped(d, i, j)
           A == Holds(d, n, e)
           B == Holds(w, n, e)
           g == [k \in A |-> IF k = i THEN j ELSE IF k = j THEN i ELSE k]
<1>1. \A k \in 0 .. n - 1 : w[k] = IF k = j THEN d[i] ELSE IF k = i THEN d[j] ELSE d[k]
  BY DEF Swapped
<1>2. g \in [A -> B]
  BY <1>1 DEF Holds
<1>3. \A k, m \in A : g[k] = g[m] => k = m
  BY DEF Holds
<1>4. \A m \in B : \E k \in A : g[k] = m
  <2> SUFFICES ASSUME NEW m \in B PROVE \E k \in A : g[k] = m
    OBVIOUS
  <2> DEFINE k == IF m = i THEN j ELSE IF m = j THEN i ELSE m
  <2>1. k \in A /\ g[k] = m
    BY <1>1 DEF Holds
  <2> QED
    BY <2>1
<1> HIDE DEF g, A, B
<1>5. g \in Bijection(A, B)
  BY <1>2, <1>3, <1>4 DEF Bijection, Injection, Surjection, IsInjective
<1>6. IsFiniteSet(A)
  BY HoldsFinite DEF A
<1>7. Cardinality(B) = Cardinality(A)
  BY <1>5, <1>6, FS_Bijection DEF ExistsBijection
<1> QED
  BY <1>7 DEF Count, A, B

LEMMA AppendCount ==
  ASSUME NEW d, NEW c, NEW n \in Nat, \A k \in 0 .. n - 1 : c[k] = d[k], NEW e
  PROVE  Count(c, n + 1, e) = Count(d, n, e) + IF c[n] = e THEN 1 ELSE 0
<1>1. IsFiniteSet(Holds(d, n, e)) /\ Count(d, n, e) \in Nat
  BY HoldsFinite
<1>4. n \notin Holds(d, n, e)
  BY DEF Holds
<1>2. CASE c[n] = e
  <2>1. Holds(c, n + 1, e) = Holds(d, n, e) \cup {n}
    BY <1>2 DEF Holds
  <2> QED
    BY <1>1, <1>2, <1>4, <2>1, FS_AddElement DEF Count
<1>3. CASE c[n] # e
  <2>1. Holds(c, n + 1, e) = Holds(d, n, e)
    BY <1>3 DEF Holds
  <2> QED
    BY <1>1, <1>3, <2>1 DEF Count
<1> QED
  BY <1>2, <1>3

(* The last element put in place of the first: the first is gone.          *)
LEMMA ReplaceCount ==
  ASSUME NEW n \in Nat, n > 0, NEW d, DOMAIN d = 0 .. n - 1, NEW c,
         \A k \in 0 .. n - 2 : c[k] = IF k = 0 THEN d[n - 1] ELSE d[k],
         NEW e
  PROVE  Count(d, n, e) = Count(c, n - 1, e) + IF d[0] = e THEN 1 ELSE 0
<1> DEFINE w == Swapped(d, 0, n - 1)
<1>1. 0 \in 0 .. n - 1 /\ n - 1 \in 0 .. n - 1 /\ n - 1 \in Nat /\ (n - 1) + 1 = n
      /\ (n - 1) - 1 = n - 2
  OBVIOUS
<1>2. Count(w, n, e) = Count(d, n, e)
  BY <1>1, SwapCount
<1>3. w[n - 1] = d[0] /\ \A k \in 0 .. (n - 1) - 1 : w[k] = c[k]
  BY <1>1 DEF Swapped
<1> HIDE DEF w
<1>4. Count(w, (n - 1) + 1, e) = Count(c, n - 1, e) + IF w[n - 1] = e THEN 1 ELSE 0
  <2> DEFINE m == n - 1
  <2>1. m \in Nat /\ \A k \in 0 .. m - 1 : w[k] = c[k]
    BY <1>1, <1>3
  <2> HIDE DEF m
  <2>2. Count(w, m + 1, e) = Count(c, m, e) + IF w[m] = e THEN 1 ELSE 0
    BY <2>1, AppendCount
  <2> QED
    BY <2>2 DEF m
<1> QED
  BY <1>1, <1>2, <1>3, <1>4

-----------------------------------------------------------------------------
(* The bag of the queue, and what each call does to it.                    *)
Contents == [k \in 0 .. size - 1 |-> At(k)]

LEMMA BagIsCount ==
  /\ Bag = [e \in Elems |-> Count(Contents, size, e)]
  /\ Bag' = [e \in Elems |-> Count(Contents', size', e)]
<1>1. ASSUME NEW e PROVE {i \in 0 .. size - 1 : At(i) = e} = Holds(Contents, size, e)
  BY DEF Holds, Contents
<1>2. ASSUME NEW e PROVE {i \in 0 .. size' - 1 : At(i)' = e} = Holds(Contents', size', e)
  BY DEF Holds, Contents
<1> QED
  BY <1>1, <1>2 DEF Bag, Count

LEMMA ContentsType ==
  ASSUME PQInv PROVE Contents \in [0 .. size - 1 -> Elems] /\ size \in Nat
  BY PQFacts DEF Contents

LEMMA SameBag ==
  ASSUME UNCHANGED <<data, size, block>> PROVE Bag' = Bag
<1>1. Contents' = Contents
  BY SameRanks DEF Contents
<1> QED
  BY <1>1, BagIsCount

LEMMA EmptyBag == ASSUME PQInv PROVE Bag = PB!Empty <=> size = 0
<1>1. Contents \in [0 .. size - 1 -> Elems] /\ size \in Nat
  BY ContentsType
<1>2. CASE size = 0
  <2>1. ASSUME NEW e \in Elems PROVE Count(Contents, size, e) = 0
    BY <1>1, <1>2, HoldsFinite
  <2> QED
    BY <1>2, <2>1, BagIsCount DEF PB!Empty
<1>3. CASE size > 0
  <2>1. Contents[0] \in Elems /\ 0 \in 0 .. size - 1
    BY <1>1, <1>3
  <2>2. Count(Contents, size, Contents[0]) > 0
    BY <1>1, <2>1, HoldsFinite
  <2> QED
    BY <1>3, <2>1, <2>2, BagIsCount DEF PB!Empty
<1> QED
  BY <1>1, <1>2, <1>3

LEMMA PushRefines ==
  ASSUME PQInv, NEW e \in Elems, Push_pq(e)
  PROVE  PB!Push(e)
<1>1. /\ size' = size + 1
      /\ \A i \in 0 .. size : At(i)' = IF i < size THEN At(i) ELSE e
  BY PushEffect
<1>2. size \in Nat
  BY ContentsType
<1>3. /\ \A k \in 0 .. size - 1 : Contents'[k] = Contents[k]
      /\ Contents'[size] = e
  BY <1>1, <1>2 DEF Contents
<1>4. ASSUME NEW f \in Elems
      PROVE  Count(Contents', size + 1, f) = Count(Contents, size, f) + IF f = e THEN 1 ELSE 0
  BY <1>2, <1>3, AppendCount
<1>5. Bag' = [f \in Elems |-> Count(Contents', size + 1, f)]
  BY <1>1, BagIsCount
<1>6. Bag' = [Bag EXCEPT ![e] = @ + 1]
  <2>1. ASSUME NEW f \in Elems PROVE Count(Contents, size, f) \in Nat
    BY <1>2, HoldsFinite
  <2> QED
    BY <1>4, <1>5, <2>1, BagIsCount
<1> QED
  BY <1>6 DEF PB!Push, Push_pq

(* The root is the element handed out, and while the order stands none     *)
(* outranks it.                                                            *)
LEMMA PopRefines ==
  ASSUME PQInv, Pop_pq
  PROVE  \E e \in Elems : PB!Pop(e)
<1>1. /\ size' = size - 1
      /\ \A i \in 0 .. size - 2 : At(i)' = IF i = 0 THEN At(size - 1) ELSE At(i)
  BY PopEffect
<1>2. size \in Nat /\ size > 0 /\ Contents \in [0 .. size - 1 -> Elems]
  BY ContentsType DEF Pop_pq
<1> DEFINE e == Contents[0]
<1>3. e \in Elems /\ 0 \in 0 .. size - 1 /\ e = At(0)
  BY <1>2 DEF Contents
<1>4. out' = e /\ pc = "idle" /\ unsifted' = (unsifted /\ size > 1) /\ unsifted \in BOOLEAN
  BY <1>3 DEF Pop_pq, PQInv, SiftInv
<1>5. \A k \in 0 .. size - 2 :
        Contents'[k] = IF k = 0 THEN Contents[size - 1] ELSE Contents[k]
  BY <1>1, <1>2 DEF Contents
<1>6. ASSUME NEW f \in Elems
      PROVE  Count(Contents, size, f)
               = Count(Contents', size - 1, f) + IF e = f THEN 1 ELSE 0
  BY <1>2, <1>5, ReplaceCount
<1>7. Bag' = [f \in Elems |-> Count(Contents', size - 1, f)]
  BY <1>1, BagIsCount
<1>8. \A f \in Elems : Count(Contents', size - 1, f) \in Nat
  <2>1. size - 1 \in Nat
    BY <1>2
  <2> QED
    BY <2>1, HoldsFinite
<1> HIDE DEF e
<1>9. Bag' = [Bag EXCEPT ![e] = @ - 1] /\ Bag[e] > 0
  BY <1>3, <1>6, <1>7, <1>8, BagIsCount
<1>10. ASSUME ~unsifted PROVE PB!Highest(e)
  <2>1. HeapOrder(Ranks, size) /\ Ranks \in [0 .. size - 1 -> Int]
    BY <1>4, <1>10, PQFacts, RanksType DEF PQInv, OrderInv
  <2>2. ASSUME NEW f \in Elems, Bag[f] > 0 PROVE Rank[f] <= Rank[e]
    <3>1. PICK k \in 0 .. size - 1 : Contents[k] = f
      BY <1>2, <2>2, BagIsCount, HoldsFinite
    <3>2. Ranks[k] <= Ranks[0]
      BY <1>2, <2>1, RootIsHighest
    <3> QED
      BY <1>3, <3>1, <3>2 DEF Ranks, Contents
  <2> QED
    BY <2>2 DEF PB!Highest
<1>11. Bag' = PB!Empty <=> size' = 0
  <2>1. PQInv'
    BY PopPQ
  <2>2. (Bag = PB!Empty <=> size = 0)'
    BY <2>1, EmptyBag, PTL
  <2> QED
    BY <2>2 DEF PB!Empty
<1>12. ~unsifted' <=> ~unsifted \/ Bag' = PB!Empty
  <2>1. size' = 0 <=> ~(size > 1)
    BY <1>1, <1>2
  <2> QED
    BY <1>4, <1>11, <2>1
<1> QED
  BY <1>3, <1>4, <1>9, <1>10, <1>12 DEF PB!Pop

LEMMA SwapRefines ==
  ASSUME PQInv, NEW i \in 0 .. size - 1, NEW j \in 0 .. size - 1, i # j, Swap(i, j)
  PROVE  UNCHANGED PB!vars
<1>1. /\ \A k \in 0 .. size - 1 :
           At(k)' = IF k = i THEN At(j) ELSE IF k = j THEN At(i) ELSE At(k)
  BY SwapEffect
<1>2. size \in Nat /\ DOMAIN Contents = 0 .. size - 1
  BY ContentsType DEF Contents
<1>3. size' = size /\ out' = out /\ unsifted' = unsifted
  BY DEF Swap
<1>4. Contents' = Swapped(Contents, i, j)
  BY <1>1, <1>3 DEF Contents, Swapped
<1>5. \A e \in Elems : Count(Contents', size, e) = Count(Contents, size, e)
  BY <1>2, <1>4, SwapCount
<1>6. Bag' = Bag
  BY <1>3, <1>5, BagIsCount
<1> QED
  BY <1>3, <1>6 DEF PB!vars

LEMMA StepRefines ==
  PQInv /\ [PNext]_pqvars => [PB!Next]_(PB!vars)
<1> SUFFICES ASSUME PQInv, [PNext]_pqvars PROVE [PB!Next]_(PB!vars)
  OBVIOUS
<1>1. CASE \E e \in Elems : Push_pq(e)
  BY <1>1, PushRefines DEF PB!Next
<1>2. CASE Pop_pq
  BY <1>2, PopRefines DEF PB!Next
<1>3. CASE Create_pq \/ Free_pq \/ Clear_pq
  <2>1. size' = 0 /\ unsifted' = FALSE /\ out' = out
    BY <1>3 DEF Create_pq, Create, Free_pq, Free, Clear_pq, Clear
  <2>2. PQInv'
    BY <1>3, CreatePQ, FreePQ, ClearPQ
  <2>3. (Bag = PB!Empty <=> size = 0)'
    BY <2>2, EmptyBag, PTL
  <2>4. Bag' = PB!Empty
    BY <2>1, <2>3 DEF PB!Empty
  <2>5. PB!Clear
    BY <2>1, <2>4 DEF PB!Clear
  <2> QED
    BY <2>5 DEF PB!Next
<1>4. CASE SiftOOM
  <2>1. Bag' = Bag
    BY <1>4, SameBag DEF SiftOOM, vecVars
  <2>2. PB!Degrade
    BY <1>4, <2>1 DEF SiftOOM, PB!Degrade
  <2> QED
    BY <2>2 DEF PB!Next
<1>5. CASE SiftUp
  <2> DEFINE p == Parent(index)
  <2>1. index \in Nat /\ index > 0 /\ index < size /\ size \in Nat /\ Swap(index, p)
    BY <1>5, PQFacts DEF SiftUp, Rises, PQInv, SiftInv
  <2>2. index \in 0 .. size - 1 /\ p \in 0 .. size - 1 /\ index # p
    BY <2>1, ParentFacts
  <2> QED
    BY <2>1, <2>2, SwapRefines
<1>6. CASE SiftDown
  <2> DEFINE h == Highest(index)
  <2>1. index \in Nat /\ index < size /\ size \in Nat /\ h # index /\ Swap(index, h)
    BY <1>6, PQFacts DEF SiftDown, PQInv, SiftInv
  <2>2. h \in 1 .. size - 1
    BY <2>1, HighestLaw
  <2> HIDE DEF h
  <2>3. index \in 0 .. size - 1 /\ h \in 0 .. size - 1
    BY <2>1, <2>2
  <2> QED
    BY <2>1, <2>3, SwapRefines
<1>7. CASE \/ SiftStart \/ SiftUpDone \/ SiftDownDone \/ WalkCall
           \/ Create_pqOOM \/ Push_pqOOM \/ Pop_pqEmpty \/ UNCHANGED pqvars
  <2>1. UNCHANGED <<data, size, block, out, unsifted>>
    BY <1>7 DEF SiftStart, SiftUpDone, SiftDownDone, SiftDone, WalkCall, IterCall,
                NewIter, IterNext, IterFails, FreeIter, Create_pqOOM, CreateOOM,
                Push_pqOOM, PushOOM, Pop_pqEmpty, pqvars, vars, vecVars
  <2>2. Bag' = Bag
    BY <2>1, SameBag
  <2> QED
    BY <2>1, <2>2 DEF PB!vars
<1> QED
  BY <1>1, <1>2, <1>3, <1>4, <1>5, <1>6, <1>7 DEF PNext, Sift

(* The heap is a priority queue, for any capacity and any ranking: a sift  *)
(* loses and duplicates nothing, and what a pop hands out is outranked by  *)
(* no element of the bag, unless a sift found no memory since the queue    *)
(* was last empty.                                                         *)
THEOREM HeapImplementsPriorityBag == PSpec => ImplementsPriorityBag
<1>1. PInit => PB!Init
  <2> SUFFICES ASSUME PInit PROVE PB!Init
    OBVIOUS
  <2>1. PQInv /\ size = 0 /\ unsifted = FALSE /\ out = Junk
    BY PQInit DEF PInit, Init
  <2>2. Bag = PB!Empty
    BY <2>1, EmptyBag
  <2> QED
    BY <2>1, <2>2, VectorAssumption DEF PB!Init
<1> QED
  BY <1>1, PQAlways, StepRefines, PTL DEF PSpec, ImplementsPriorityBag, PB!Spec
=============================================================================

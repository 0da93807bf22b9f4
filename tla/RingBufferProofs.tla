-------------------------- MODULE RingBufferProofs ---------------------------
(***************************************************************************)
(* Proofs about RingBuffer and QueueDeque for every capacity, every set of *)
(* elements and every number of iterators: the types of the ring, the law  *)
(* that ties tail to head and size, that it implements the bounded         *)
(* double-ended queue, that an iterator which goes on has yielded the      *)
(* front of it, and that a queue is first in, first out.  The slots of     *)
(* the contents are head, head + 1, ... modulo the capacity; every step is *)
(* a statement about which of them move, and ModApart says that no two of  *)
(* them are the same slot.                                                 *)
(***************************************************************************)
EXTENDS QueueDeque, ModArith, SequenceTheorems, TLAPS

(* The two laws together are inductive.                                    *)
RingInv == TypeOK /\ TailFollowsSize

LEMMA RoomIsPositive ==
  ASSUME TypeOK, ~Is_full \/ ~Is_empty
  PROVE  capacity \in Nat /\ capacity > 0 /\ head \in Slots /\ tail \in Slots
  BY DEF TypeOK, Is_full, Is_empty, Index, Slots

LEMMA IndexSteps ==
  ASSUME TypeOK, capacity > 0, NEW i \in Slots
  PROVE  Succ(i) \in Slots /\ Pred(i) \in Slots
<1>1. capacity \in Nat /\ i \in 0 .. capacity - 1
  BY DEF TypeOK, Slots
<1>2. i + 1 \in Nat /\ i + capacity - 1 \in Nat
  BY <1>1
<1>3. (i + 1) % capacity \in 0 .. capacity - 1
  BY <1>1, <1>2, ModRange
<1>4. (i + capacity - 1) % capacity \in 0 .. capacity - 1
  BY <1>1, <1>2, ModRange
<1> QED
  BY <1>3, <1>4 DEF Succ, Pred, Slots

-----------------------------------------------------------------------------
LEMMA ClosedIterType == ClosedIter \in Iterator
  BY DEF ClosedIter, Iterator

LEMMA InitInv == Init => RingInv
<1> SUFFICES ASSUME Init PROVE RingInv
  OBVIOUS
<1>1. capacity = 0 /\ head = 0 /\ tail = 0 /\ size = 0 /\ version = 0 /\ live = FALSE
      /\ status \in Statuses
  BY DEF Init, Statuses
<1>2. data \in [Slots -> Elems \cup {Junk}]
  BY DEF Init, NewData, Slots
<1>3. iters \in [Iters -> Iterator]
  BY ClosedIterType DEF Init
<1>4. size \in 0 .. capacity /\ head \in Index /\ tail \in Index
  BY <1>1 DEF Index
<1>5. TypeOK
  BY <1>1, <1>2, <1>3, <1>4 DEF TypeOK
<1> QED
  BY <1>1, <1>5 DEF RingInv, TailFollowsSize

(* A fresh or freed buffer satisfies the laws whatever malloc left in it.  *)
LEMMA CreateInv == ASSUME RingInv, NEW c \in Capacities, Create(c) PROVE RingInv'
<1>1. c \in Nat
  BY RingBufferAssumption
<1>2. TypeOK'
  BY <1>1 DEF RingInv, TypeOK, Create, NewData, Index, Slots, Statuses
<1>3. TailFollowsSize'
  <2>1. capacity' = c /\ head' = 0 /\ tail' = 0 /\ size' = 0
    BY DEF Create
  <2>2. c > 0 => 0 % c = 0
    BY <1>1, ModSmall
  <2> QED
    BY <2>1, <2>2 DEF TailFollowsSize
<1> QED
  BY <1>2, <1>3 DEF RingInv

LEMMA FreeInv == ASSUME RingInv, Free PROVE RingInv'
<1>1. TypeOK'
  <2>1. capacity' = 0 /\ head' = 0 /\ tail' = 0 /\ size' = 0 /\ version' = 0
        /\ live' = FALSE /\ status' \in Statuses
    BY DEF Free, Statuses
  <2>2. data' \in [Slots' -> Elems \cup {Junk}]
    BY <2>1 DEF Free, NewData, Slots
  <2>3. iters' \in [Iters -> Iterator]
    BY DEF Free, RingInv, TypeOK
  <2>4. size' \in 0 .. capacity' /\ head' \in Index' /\ tail' \in Index'
    BY <2>1 DEF Index
  <2> QED
    BY <2>1, <2>2, <2>3, <2>4 DEF TypeOK
<1>2. TailFollowsSize'
  BY DEF Free, TailFollowsSize
<1> QED
  BY <1>1, <1>2 DEF RingInv

(* What push_back and push_front, pop_front and pop_back do to the types.  *)
LEMMA MutateType ==
  ASSUME TypeOK, capacity > 0, Mutate, size' \in 0 .. capacity,
         head' \in Slots, tail' \in Slots, data' \in [Slots -> Elems \cup {Junk}]
  PROVE  TypeOK'
<1>1. capacity' = capacity /\ version' \in Nat /\ live' = live /\ live
      /\ iters' = iters /\ status' \in Statuses
  BY DEF TypeOK, Mutate, Statuses
<1>2. Slots' = Slots /\ Index' = Slots
  BY <1>1 DEF Slots, Index
<1> QED
  BY <1>1, <1>2 DEF TypeOK

LEMMA PushBackInv == ASSUME RingInv, NEW e \in Elems, PushBack(e) PROVE RingInv'
<1>1. TypeOK /\ TailFollowsSize /\ Mutate /\ ~Is_full
  BY DEF RingInv, PushBack
<1>2. capacity \in Nat /\ capacity > 0 /\ head \in Slots /\ tail \in Slots
  BY <1>1, RoomIsPositive
<1>3. size \in Nat /\ size < capacity /\ head \in Nat
  BY <1>1, <1>2 DEF TypeOK, Is_full, Slots
<1>4. tail' = (tail + 1) % capacity /\ head' = head /\ size' = size + 1
      /\ data' = [data EXCEPT ![tail] = e]
  BY DEF PushBack, Succ
<1>5. TypeOK'
  <2>1. tail' \in Slots
    BY <1>1, <1>2, <1>4, IndexSteps DEF Succ
  <2>2. data' \in [Slots -> Elems \cup {Junk}]
    BY <1>1, <1>4 DEF TypeOK
  <2>3. size' \in 0 .. capacity
    BY <1>2, <1>3, <1>4
  <2> QED
    BY <1>1, <1>2, <1>4, <2>1, <2>2, <2>3, MutateType
<1>6. TailFollowsSize'
  <2>1. head + size \in Nat
    BY <1>3
  <2>2. (((head + size) % capacity) + 1) % capacity = ((head + size) + 1) % capacity
    BY <1>2, <2>1, ModSucc
  <2>3. (head + size) + 1 = head + (size + 1)
    BY <1>3
  <2>4. tail = (head + size) % capacity
    BY <1>1, <1>2 DEF TailFollowsSize
  <2>5. tail' = (head' + size') % capacity
    BY <1>4, <2>2, <2>3, <2>4
  <2>6. capacity' = capacity
    BY <1>1 DEF Mutate
  <2> QED
    BY <2>5, <2>6 DEF TailFollowsSize
<1> QED
  BY <1>5, <1>6 DEF RingInv

LEMMA PushFrontInv == ASSUME RingInv, NEW e \in Elems, PushFront(e) PROVE RingInv'
<1>1. TypeOK /\ TailFollowsSize /\ Mutate /\ ~Is_full
  BY DEF RingInv, PushFront
<1>2. capacity \in Nat /\ capacity > 0 /\ head \in Slots /\ tail \in Slots
  BY <1>1, RoomIsPositive
<1>3. size \in Nat /\ size < capacity /\ head \in Nat
  BY <1>1, <1>2 DEF TypeOK, Is_full, Slots
<1>4. head' = Pred(head) /\ tail' = tail /\ size' = size + 1
      /\ data' = [data EXCEPT ![Pred(head)] = e]
  BY DEF PushFront
<1>5. TypeOK'
  <2>1. Pred(head) \in Slots
    BY <1>1, <1>2, IndexSteps
  <2>2. data' \in [Slots -> Elems \cup {Junk}]
    BY <1>1, <1>4 DEF TypeOK
  <2>3. size' \in 0 .. capacity
    BY <1>2, <1>3, <1>4
  <2> QED
    BY <1>1, <1>2, <1>4, <2>1, <2>2, <2>3, MutateType
<1>6. TailFollowsSize'
  <2> DEFINE x == head + capacity - 1
  <2>1. x \in Nat /\ size + 1 \in Nat
    BY <1>2, <1>3
  <2>2. ((x % capacity) + (size + 1)) % capacity = (x + (size + 1)) % capacity
    BY <1>2, <2>1, ModAdd
  <2>3. x + (size + 1) = (head + size) + capacity /\ head + size \in Nat
    BY <1>2, <1>3
  <2>4. ((head + size) + capacity) % capacity = (head + size) % capacity
    BY <1>2, <2>3, ModTurn
  <2>5. tail = (head + size) % capacity
    BY <1>1, <1>2 DEF TailFollowsSize
  <2>6. head' = x % capacity
    BY <1>4 DEF Pred
  <2> HIDE DEF x
  <2>7. tail' = (head' + size') % capacity
    BY <1>4, <2>2, <2>3, <2>4, <2>5, <2>6
  <2>8. capacity' = capacity
    BY <1>1 DEF Mutate
  <2> QED
    BY <2>7, <2>8 DEF TailFollowsSize
<1> QED
  BY <1>5, <1>6 DEF RingInv

LEMMA PopFrontInv == ASSUME RingInv, PopFront PROVE RingInv'
<1>1. TypeOK /\ TailFollowsSize /\ Mutate /\ ~Is_empty
  BY DEF RingInv, PopFront
<1>2. capacity \in Nat /\ capacity > 0 /\ head \in Slots /\ tail \in Slots
  BY <1>1, RoomIsPositive
<1>3. size \in Nat /\ size > 0 /\ size <= capacity /\ head \in Nat
  BY <1>1, <1>2 DEF TypeOK, Is_empty, Slots
<1>4. head' = (head + 1) % capacity /\ tail' = tail /\ size' = size - 1
      /\ data' = data
  BY DEF PopFront, Succ
<1>5. TypeOK'
  <2>1. head' \in Slots
    BY <1>1, <1>2, <1>4, IndexSteps DEF Succ
  <2>2. size' \in 0 .. capacity
    BY <1>2, <1>3, <1>4
  <2>3. data' \in [Slots -> Elems \cup {Junk}]
    BY <1>1, <1>4 DEF TypeOK
  <2> QED
    BY <1>1, <1>2, <1>4, <2>1, <2>2, <2>3, MutateType
<1>6. TailFollowsSize'
  <2>1. head + 1 \in Nat /\ size - 1 \in Nat /\ (head + 1) + (size - 1) = head + size
    BY <1>3
  <2>2. (((head + 1) % capacity) + (size - 1)) % capacity
          = ((head + 1) + (size - 1)) % capacity
    BY <1>2, <2>1, ModAdd
  <2>3. tail = (head + size) % capacity
    BY <1>1, <1>2 DEF TailFollowsSize
  <2>4. tail' = (head' + size') % capacity
    BY <1>4, <2>1, <2>2, <2>3
  <2>5. capacity' = capacity
    BY <1>1 DEF Mutate
  <2> QED
    BY <2>4, <2>5 DEF TailFollowsSize
<1> QED
  BY <1>5, <1>6 DEF RingInv

(* The slot before tail is the slot of the last element.                   *)
LEMMA PredOfTail ==
  ASSUME RingInv, ~Is_empty
  PROVE  Pred(tail) = (head + (size - 1)) % capacity
<1>1. TypeOK /\ TailFollowsSize
  BY DEF RingInv
<1>2. capacity \in Nat /\ capacity > 0 /\ head \in Slots /\ tail \in Slots
  BY <1>1, RoomIsPositive
<1>3. size \in Nat /\ size > 0 /\ head \in Nat
  BY <1>1, <1>2 DEF TypeOK, Is_empty, Slots
<1> DEFINE x == head + size
<1>4. x \in Nat /\ capacity - 1 \in Nat /\ x - 1 \in Nat
      /\ x + (capacity - 1) = (x - 1) + capacity
      /\ x - 1 = head + (size - 1)
  BY <1>2, <1>3
<1>5. tail = x % capacity
  BY <1>1, <1>2 DEF TailFollowsSize
<1> HIDE DEF x
<1>6. ((x % capacity) + (capacity - 1)) % capacity = (x + (capacity - 1)) % capacity
  BY <1>2, <1>4, ModAdd
<1>7. ((x - 1) + capacity) % capacity = (x - 1) % capacity
  BY <1>2, <1>4, ModTurn
<1>8. tail + capacity - 1 = tail + (capacity - 1)
  BY <1>2 DEF Slots
<1> QED
  BY <1>4, <1>5, <1>6, <1>7, <1>8 DEF Pred

LEMMA PopBackInv == ASSUME RingInv, PopBack PROVE RingInv'
<1>1. TypeOK /\ TailFollowsSize /\ Mutate /\ ~Is_empty
  BY DEF RingInv, PopBack
<1>2. capacity \in Nat /\ capacity > 0 /\ head \in Slots /\ tail \in Slots
  BY <1>1, RoomIsPositive
<1>3. size \in Nat /\ size > 0 /\ size <= capacity
  BY <1>1, <1>2 DEF TypeOK, Is_empty
<1>4. tail' = Pred(tail) /\ head' = head /\ size' = size - 1 /\ data' = data
  BY DEF PopBack
<1>5. TypeOK'
  <2>1. tail' \in Slots
    BY <1>1, <1>2, <1>4, IndexSteps
  <2>2. size' \in 0 .. capacity
    BY <1>2, <1>3, <1>4
  <2>3. data' \in [Slots -> Elems \cup {Junk}]
    BY <1>1, <1>4 DEF TypeOK
  <2> QED
    BY <1>1, <1>2, <1>4, <2>1, <2>2, <2>3, MutateType
<1>6. TailFollowsSize'
  <2>1. capacity' = capacity
    BY <1>1 DEF Mutate
  <2> QED
    BY <1>1, <1>4, <2>1, PredOfTail DEF TailFollowsSize
<1> QED
  BY <1>5, <1>6 DEF RingInv

(* Refusals and calls on iterators leave the buffer alone.                 *)
LEMMA SameRingInv ==
  ASSUME RingInv, UNCHANGED <<live, ringVars>>, iters' \in [Iters -> Iterator],
         status' \in Statuses
  PROVE  RingInv'
  BY DEF RingInv, TypeOK, TailFollowsSize, ringVars, Slots, Index

LEMMA IterCallType ==
  ASSUME TypeOK, IterCall
  PROVE  iters' \in [Iters -> Iterator] /\ status' \in Statuses
<1>1. CASE \E it \in Iters : NewIter(it)
  <2>1. PICK it \in Iters : NewIter(it)
    BY <1>1
  <2>2. [ClosedIter EXCEPT !.open = TRUE, !.snapshot_version = version] \in Iterator
    BY ClosedIterType DEF TypeOK, Iterator
  <2> QED
    BY <2>1, <2>2 DEF NewIter, TypeOK, Statuses
<1>2. CASE \E it \in Iters : IterNext(it)
  <2>1. PICK it \in Iters : IterNext(it)
    BY <1>2
  <2>2. iters[it].progress \in Nat /\ iters[it].progress < size
        /\ size \in Nat /\ capacity \in Nat /\ capacity > 0 /\ head \in Nat
    BY <2>1 DEF IterNext, HasNext, TypeOK, Iterator, Index, Slots
  <2> DEFINE i == (head + iters[it].progress) % capacity
  <2>3. i \in Slots
    BY <2>2, ModRange DEF Slots
  <2>4. data[i] \in Elems \cup {Junk}
    BY <2>3 DEF TypeOK
  <2>5. iters' = [iters EXCEPT ![it].progress = @ + 1,
                               ![it].seen = Append(@, data[i])]
    BY <2>1 DEF IterNext
  <2> HIDE DEF i
  <2>6. Append(iters[it].seen, data[i]) \in Seq(Elems \cup {Junk})
    BY <2>4 DEF TypeOK, Iterator
  <2>7. iters[it].progress + 1 \in Nat /\ iters[it] \in Iterator
    BY <2>2 DEF TypeOK
  <2>8. [iters[it] EXCEPT !.progress = @ + 1, !.seen = Append(@, data[i])] \in Iterator
    BY <2>6, <2>7 DEF Iterator
  <2>9. iters' = [iters EXCEPT ![it] =
                    [iters[it] EXCEPT !.progress = @ + 1, !.seen = Append(@, data[i])]]
    BY <2>5, <2>7 DEF TypeOK
  <2>10. iters' \in [Iters -> Iterator]
    BY <2>8, <2>9 DEF TypeOK
  <2> QED
    BY <2>1, <2>10 DEF IterNext, Statuses
<1>3. CASE \E it \in Iters : IterFails(it)
  BY <1>3 DEF IterFails, TypeOK, Statuses
<1>4. CASE \E it \in Iters : FreeIter(it)
  BY <1>4 DEF FreeIter, TypeOK, Iterator, ClosedIter, Statuses
<1> QED
  BY <1>1, <1>2, <1>3, <1>4 DEF IterCall

LEMMA IterCallFrame == IterCall => UNCHANGED <<live, ringVars>>
  BY DEF IterCall, NewIter, IterNext, IterFails, FreeIter

LEMMA NextInv == RingInv /\ [Next]_vars => RingInv'
<1> SUFFICES ASSUME RingInv, [Next]_vars PROVE RingInv'
  OBVIOUS
<1>1. CASE \E c \in Capacities : Create(c)
  BY <1>1, CreateInv
<1>2. CASE \E e \in Elems : PushBack(e)
  BY <1>2, PushBackInv
<1>3. CASE \E e \in Elems : PushFront(e)
  BY <1>3, PushFrontInv
<1>4. CASE CreateOOM \/ PushFull \/ PopEmpty
  BY <1>4, SameRingInv DEF CreateOOM, PushFull, PopEmpty, RingInv, TypeOK, Statuses
<1>5. CASE IterCall
  BY <1>5, IterCallType, IterCallFrame, SameRingInv DEF RingInv
<1>6. CASE UNCHANGED vars
  BY <1>6, SameRingInv DEF vars, RingInv, TypeOK
<1> QED
  BY <1>1, <1>2, <1>3, <1>4, <1>5, <1>6, FreeInv, PopFrontInv, PopBackInv
     DEF Next, RingCall

(* Every index and counter of a ring buffer of any capacity stays in range. *)
THEOREM RingTypeCorrect == Spec => []TypeOK
<1>1. RingInv => TypeOK
  BY DEF RingInv
<1> QED
  BY <1>1, InitInv, NextInv, PTL DEF Spec

(* In a ring of any capacity tail is size steps after head, through every  *)
(* wrap in either direction.                                               *)
THEOREM TailCorrect == Spec => []TailFollowsSize
<1>1. RingInv => TailFollowsSize
  BY DEF RingInv
<1> QED
  BY <1>1, InitInv, NextInv, PTL DEF Spec

-----------------------------------------------------------------------------
Content == Elems \cup {Junk}

(* The first k elements of a sequence.                                     *)
LEMMA PrefixProperties ==
  ASSUME NEW S, NEW s \in Seq(S), NEW k \in 0 .. Len(s)
  PROVE  /\ SubSeq(s, 1, k) \in Seq(S) /\ Len(SubSeq(s, 1, k)) = k
         /\ \A i \in 1 .. k : SubSeq(s, 1, k)[i] = s[i]
OBVIOUS

(* The slot of the n-th element.                                           *)
SlotOf(n) == (head + n - 1) % capacity

LEMMA SlotInRange ==
  ASSUME TypeOK, NEW n \in 1 .. size
  PROVE  SlotOf(n) \in Slots
<1>1. capacity \in Nat /\ capacity > 0 /\ head + n - 1 \in Nat
  BY DEF TypeOK, Index, Slots
<1>2. (head + n - 1) % capacity \in 0 .. capacity - 1
  BY <1>1, ModRange
<1> QED
  BY <1>2 DEF SlotOf, Slots

(* The contents are a sequence of size elements, read from those slots.    *)
ContentsLaw ==
  /\ Contents \in Seq(Content) /\ Len(Contents) = size /\ size \in Nat
  /\ \A n \in 1 .. size : Contents[n] = data[SlotOf(n)]

LEMMA ContentsSeq == TypeOK => ContentsLaw
<1> SUFFICES ASSUME TypeOK PROVE ContentsLaw
  OBVIOUS
<1>1. size \in Nat
  BY DEF TypeOK
<1>2. \A n \in 1 .. size : data[SlotOf(n)] \in Content
  BY SlotInRange DEF TypeOK, Content
<1>3. Contents = [n \in 1 .. size |-> data[SlotOf(n)]]
  BY DEF Contents, SlotOf
<1>4. Contents \in [1 .. size -> Content]
  BY <1>2, <1>3
<1>5. Contents \in Seq(Content)
  BY <1>1, <1>4, SeqDef
<1>6. Len(Contents) = size
  BY <1>1, <1>4, <1>5, LenProperties
<1> QED
  BY <1>1, <1>3, <1>5, <1>6 DEF ContentsLaw

(* The same after a step.                                                  *)
LEMMA ContentsSeqNext == (TypeOK => ContentsLaw)'
  BY ContentsSeq, PTL

(* front and back show the two ends.                                       *)
LEMMA PeekIsEnds == RingInv => Peek = BD!EndsOf(Contents)
<1> SUFFICES ASSUME RingInv PROVE Peek = BD!EndsOf(Contents)
  OBVIOUS
<1>1. TypeOK /\ size \in Nat
  BY DEF RingInv, TypeOK
<1>2. Contents \in Seq(Content) /\ Len(Contents) = size
      /\ \A n \in 1 .. size : Contents[n] = data[SlotOf(n)]
  BY <1>1, ContentsSeq DEF ContentsLaw
<1>3. CASE Is_empty
  <2>1. Contents = <<>>
    BY <1>2, <1>3, EmptySeq DEF Is_empty
  <2> QED
    BY <1>3, <2>1 DEF Peek, BD!EndsOf
<1>4. CASE ~Is_empty
  <2>1. capacity \in Nat /\ capacity > 0 /\ head \in 0 .. capacity - 1 /\ size > 0
    BY <1>1, <1>4, RoomIsPositive DEF Slots, Is_empty
  <2>2. Contents # <<>>
    BY <1>2, <2>1, EmptySeq
  <2>3. SlotOf(1) = head
    <3>1. head + 1 - 1 = head /\ head % capacity = head
      BY <2>1, ModSmall
    <3> QED
      BY <3>1 DEF SlotOf
  <2>4. SlotOf(size) = Pred(tail)
    <3>1. head + size - 1 = head + (size - 1)
      BY <1>1, <2>1
    <3> QED
      BY <1>4, <3>1, PredOfTail DEF SlotOf
  <2>5. Contents[1] = Front /\ Contents[size] = Back
    BY <1>1, <1>2, <2>1, <2>3, <2>4 DEF Front, Back
  <2> QED
    BY <1>2, <1>4, <2>2, <2>5 DEF Peek, BD!EndsOf
<1> QED
  BY <1>3, <1>4

-----------------------------------------------------------------------------
(* Common to the four operations: the room stays and so does its type.     *)
LEMMA Facts ==
  ASSUME RingInv, ~Is_full \/ ~Is_empty
  PROVE  /\ capacity \in Nat /\ capacity > 0 /\ head \in Nat /\ size \in Nat
         /\ head \in Slots /\ tail \in Slots /\ size <= capacity
         /\ tail = (head + size) % capacity
         /\ data \in [Slots -> Content]
  BY RoomIsPositive DEF RingInv, TypeOK, TailFollowsSize, Slots, Content

LEMMA PushBackRefines ==
  ASSUME RingInv, RingInv', NEW e \in Elems, PushBack(e)
  PROVE  BD!PushBack(e)
<1>1. ~Is_full /\ tail' = Succ(tail) /\ size' = size + 1 /\ head' = head
      /\ data' = [data EXCEPT ![tail] = e] /\ capacity' = capacity
      /\ status' = "CDSA_OK"
  BY DEF PushBack, Mutate
<1>2. capacity \in Nat /\ capacity > 0 /\ head \in Nat /\ size \in Nat
      /\ tail \in Slots /\ size < capacity /\ tail = (head + size) % capacity
      /\ data \in [Slots -> Content]
  BY <1>1, Facts DEF Is_full
<1>3. Contents \in Seq(Content) /\ Len(Contents) = size
      /\ \A n \in 1 .. size : Contents[n] = data[SlotOf(n)]
  BY ContentsSeq DEF ContentsLaw, RingInv
<1>4. Contents' \in Seq(Content) /\ Len(Contents') = size + 1
      /\ \A n \in 1 .. size + 1 : Contents'[n] = data'[SlotOf(n)']
  <2>1. TypeOK'
    BY DEF RingInv
  <2>2. Contents' \in Seq(Content) /\ Len(Contents') = size'
        /\ \A n \in 1 .. size' : Contents'[n] = data'[SlotOf(n)']
    BY <2>1, ContentsSeqNext DEF ContentsLaw
  <2> QED
    BY <1>1, <2>2
<1>5. \A n \in 1 .. size + 1 : SlotOf(n)' = SlotOf(n)
  BY <1>1 DEF SlotOf
<1>6. \A n \in 1 .. size : Contents'[n] = Contents[n]
  <2> TAKE n \in 1 .. size
  <2>1. SlotOf(n) # tail
    <3>1. head + n - 1 \in Nat /\ head + size \in Nat
          /\ head + n - 1 < head + size /\ head + size < (head + n - 1) + capacity
      BY <1>2
    <3> QED
      BY <1>2, <3>1, ModApart DEF SlotOf
  <2>2. SlotOf(n) \in Slots
    BY SlotInRange DEF RingInv
  <2>3. data'[SlotOf(n)] = data[SlotOf(n)]
    BY <1>1, <1>2, <2>1, <2>2
  <2>4. n \in 1 .. size + 1
    BY <1>2
  <2> QED
    BY <1>3, <1>4, <1>5, <2>3, <2>4
<1>7. Contents'[size + 1] = e
  <2>1. SlotOf(size + 1) = tail
    <3>1. head + (size + 1) - 1 = head + size
      BY <1>2
    <3> QED
      BY <1>2, <3>1 DEF SlotOf
  <2>2. size + 1 \in 1 .. size + 1
    BY <1>2
  <2> QED
    BY <1>1, <1>2, <1>4, <1>5, <2>1, <2>2
<1>8. Contents' = Append(Contents, e)
  <2> DEFINE t == Append(Contents, e)
  <2>1. t \in Seq(Content) /\ Len(t) = size + 1 /\ t[size + 1] = e
        /\ \A n \in 1 .. size : t[n] = Contents[n]
    BY <1>3, AppendProperties DEF Content
  <2> HIDE DEF t
  <2>2. \A n \in 1 .. size + 1 : Contents'[n] = t[n]
    BY <1>2, <1>6, <1>7, <2>1
  <2>3. Contents' = t
    BY <1>4, <2>1, <2>2, SeqEqual
  <2> QED
    BY <2>3 DEF t
<1>9. Len(Contents) < capacity
  BY <1>2, <1>3
<1> QED
  BY <1>1, <1>8, <1>9 DEF BD!PushBack, BD!Ok

LEMMA PushFrontRefines ==
  ASSUME RingInv, RingInv', NEW e \in Elems, PushFront(e)
  PROVE  BD!PushFront(e)
<1>1. ~Is_full /\ head' = Pred(head) /\ size' = size + 1
      /\ data' = [data EXCEPT ![Pred(head)] = e] /\ capacity' = capacity
      /\ status' = "CDSA_OK"
  BY DEF PushFront, Mutate
<1>2. capacity \in Nat /\ capacity > 0 /\ head \in Nat /\ size \in Nat
      /\ head \in Slots /\ size < capacity /\ data \in [Slots -> Content]
  BY <1>1, Facts DEF Is_full
<1>3. Contents \in Seq(Content) /\ Len(Contents) = size
      /\ \A n \in 1 .. size : Contents[n] = data[SlotOf(n)]
  BY ContentsSeq DEF ContentsLaw, RingInv
<1>4. Contents' \in Seq(Content) /\ Len(Contents') = size + 1
      /\ \A n \in 1 .. size + 1 : Contents'[n] = data'[SlotOf(n)']
  <2>1. TypeOK'
    BY DEF RingInv
  <2>2. Contents' \in Seq(Content) /\ Len(Contents') = size'
        /\ \A n \in 1 .. size' : Contents'[n] = data'[SlotOf(n)']
    BY <2>1, ContentsSeqNext DEF ContentsLaw
  <2> QED
    BY <1>1, <2>2
<1>5. Pred(head) \in Slots /\ Pred(head) = (head + capacity - 1) % capacity
  BY <1>2, IndexSteps DEF RingInv, Pred
<1>6. SlotOf(1)' = Pred(head)
  <2>1. Pred(head) + 1 - 1 = Pred(head) /\ Pred(head) \in 0 .. capacity - 1
    BY <1>2, <1>5 DEF Slots
  <2>2. Pred(head) % capacity = Pred(head)
    BY <1>2, <2>1, ModSmall
  <2> QED
    BY <1>1, <2>1, <2>2 DEF SlotOf
<1>7. \A n \in 1 .. size : SlotOf(n + 1)' = SlotOf(n)
  <2> TAKE n \in 1 .. size
  <2> DEFINE x == head + capacity - 1
             y == head + n - 1
  <2>1. x \in Nat /\ n \in Nat /\ y \in Nat /\ x + n = y + capacity
    BY <1>2
  <2>2. ((x % capacity) + n) % capacity = (x + n) % capacity
    BY <1>2, <2>1, ModAdd
  <2>3. (y + capacity) % capacity = y % capacity
    BY <1>2, <2>1, ModTurn
  <2>4. Pred(head) = x % capacity /\ SlotOf(n) = y % capacity
    BY <1>5 DEF SlotOf
  <2>5. Pred(head) + (n + 1) - 1 = Pred(head) + n
    BY <1>2, <1>5, <2>1 DEF Slots
  <2> HIDE DEF x, y
  <2>6. SlotOf(n + 1)' = (Pred(head) + (n + 1) - 1) % capacity
    BY <1>1 DEF SlotOf
  <2> QED
    BY <2>1, <2>2, <2>3, <2>4, <2>5, <2>6
<1>8. \A n \in 1 .. size : SlotOf(n) # Pred(head)
  <2> TAKE n \in 1 .. size
  <2>1. head + n - 1 \in Nat /\ head + capacity - 1 \in Nat
        /\ head + n - 1 < head + capacity - 1
        /\ head + capacity - 1 < (head + n - 1) + capacity
    BY <1>2
  <2> QED
    BY <1>2, <1>5, <2>1, ModApart DEF SlotOf
<1>9. Contents'[1] = e
  <2>1. 1 \in 1 .. size + 1
    BY <1>2
  <2> QED
    BY <1>1, <1>2, <1>4, <1>5, <1>6, <2>1
<1>10. \A n \in 1 .. size : Contents'[n + 1] = Contents[n]
  <2> TAKE n \in 1 .. size
  <2>1. n + 1 \in 1 .. size + 1
    BY <1>2
  <2>2. SlotOf(n) \in Slots /\ SlotOf(n) # Pred(head)
    BY <1>8, SlotInRange DEF RingInv
  <2>3. data'[SlotOf(n)] = data[SlotOf(n)]
    BY <1>1, <1>2, <2>2
  <2>4. Contents'[n + 1] = data'[SlotOf(n)]
    BY <1>4, <1>7, <2>1
  <2> QED
    BY <1>3, <2>3, <2>4
<1>11. Contents' = <<e>> \o Contents
  <2> DEFINE t == <<e>> \o Contents
  <2>1. <<e>> \in Seq(Content) /\ Len(<<e>>) = 1 /\ <<e>>[1] = e
    BY DEF Content
  <2>2. t \in Seq(Content) /\ Len(t) = 1 + size
        /\ \A i \in 1 .. 1 + size : t[i] = IF i <= 1 THEN <<e>>[i] ELSE Contents[i - 1]
    BY <1>3, <2>1, ConcatProperties
  <2> HIDE DEF t
  <2>3. \A n \in 1 .. size + 1 : Contents'[n] = t[n]
    <3> TAKE n \in 1 .. size + 1
    <3>1. CASE n = 1
      BY <1>2, <1>9, <2>1, <2>2, <3>1
    <3>2. CASE n # 1
      <4>1. n - 1 \in 1 .. size /\ (n - 1) + 1 = n /\ n \in 1 .. 1 + size /\ ~(n <= 1)
        BY <1>2, <3>2
      <4>2. Contents'[n] = Contents[n - 1]
        BY <1>10, <4>1
      <4> QED
        BY <2>2, <4>1, <4>2
    <3> QED
      BY <3>1, <3>2
  <2>4. Len(t) = size + 1
    BY <1>2, <2>2
  <2>5. Contents' = t
    BY <1>4, <2>2, <2>3, <2>4, SeqEqual
  <2> QED
    BY <2>5 DEF t
<1>12. Len(Contents) < capacity
  BY <1>2, <1>3
<1> QED
  BY <1>1, <1>11, <1>12 DEF BD!PushFront, BD!Ok

LEMMA PopFrontRefines ==
  ASSUME RingInv, RingInv', PopFront
  PROVE  BD!PopFront
<1>1. ~Is_empty /\ head' = Succ(head) /\ size' = size - 1 /\ data' = data
      /\ capacity' = capacity /\ status' = "CDSA_OK"
  BY DEF PopFront, Mutate
<1>2. capacity \in Nat /\ capacity > 0 /\ head \in Nat /\ size \in Nat /\ size > 0
      /\ head \in Slots
  BY <1>1, Facts DEF Is_empty
<1>3. Contents \in Seq(Content) /\ Len(Contents) = size
      /\ \A n \in 1 .. size : Contents[n] = data[SlotOf(n)]
  BY ContentsSeq DEF ContentsLaw, RingInv
<1>4. Contents' \in Seq(Content) /\ Len(Contents') = size - 1
      /\ \A n \in 1 .. size - 1 : Contents'[n] = data[SlotOf(n)']
  <2>1. TypeOK'
    BY DEF RingInv
  <2>2. Contents' \in Seq(Content) /\ Len(Contents') = size'
        /\ \A n \in 1 .. size' : Contents'[n] = data'[SlotOf(n)']
    BY <2>1, ContentsSeqNext DEF ContentsLaw
  <2> QED
    BY <1>1, <2>2
<1>5. \A n \in 1 .. size - 1 : SlotOf(n)' = SlotOf(n + 1)
  <2> TAKE n \in 1 .. size - 1
  <2> DEFINE x == head + 1
  <2>1. x \in Nat /\ n - 1 \in Nat /\ x + (n - 1) = head + (n + 1) - 1
    BY <1>2
  <2>2. ((x % capacity) + (n - 1)) % capacity = (x + (n - 1)) % capacity
    BY <1>2, <2>1, ModAdd
  <2>3. head' = x % capacity /\ head' \in Slots
    BY <1>1, <1>2, IndexSteps DEF Succ, RingInv
  <2> HIDE DEF x
  <2>4. head' + n - 1 = head' + (n - 1)
    BY <1>2, <2>3 DEF Slots
  <2>5. SlotOf(n)' = (head' + n - 1) % capacity
    BY <1>1 DEF SlotOf
  <2> QED
    BY <2>1, <2>2, <2>3, <2>4, <2>5 DEF SlotOf
<1>6. Contents # <<>>
  BY <1>2, <1>3, EmptySeq
<1>7. Contents' = Tail(Contents)
  <2> DEFINE t == Tail(Contents)
  <2>1. t \in Seq(Content) /\ Len(t) = size - 1
        /\ \A n \in 1 .. size - 1 : t[n] = Contents[n + 1]
    BY <1>3, <1>6, HeadTailProperties
  <2> HIDE DEF t
  <2>2. \A n \in 1 .. size - 1 : Contents'[n] = t[n]
    <3> TAKE n \in 1 .. size - 1
    <3>1. n + 1 \in 1 .. size
      BY <1>2
    <3>2. Contents'[n] = data[SlotOf(n + 1)]
      BY <1>4, <1>5
    <3> QED
      BY <1>3, <2>1, <3>1, <3>2
  <2>3. Contents' = t
    BY <1>4, <2>1, <2>2, SeqEqual
  <2> QED
    BY <2>3 DEF t
<1> QED
  BY <1>1, <1>6, <1>7 DEF BD!PopFront, BD!Ok

LEMMA PopBackRefines ==
  ASSUME RingInv, RingInv', PopBack
  PROVE  BD!PopBack
<1>1. ~Is_empty /\ head' = head /\ size' = size - 1 /\ data' = data
      /\ capacity' = capacity /\ status' = "CDSA_OK"
  BY DEF PopBack, Mutate
<1>2. size \in Nat /\ size > 0
  BY <1>1, Facts DEF Is_empty
<1>3. Contents \in Seq(Content) /\ Len(Contents) = size
      /\ \A n \in 1 .. size : Contents[n] = data[SlotOf(n)]
  BY ContentsSeq DEF ContentsLaw, RingInv
<1>4. Contents' \in Seq(Content) /\ Len(Contents') = size - 1
      /\ \A n \in 1 .. size - 1 : Contents'[n] = data[SlotOf(n)]
  <2>1. TypeOK'
    BY DEF RingInv
  <2>2. Contents' \in Seq(Content) /\ Len(Contents') = size'
        /\ \A n \in 1 .. size' : Contents'[n] = data'[SlotOf(n)']
    BY <2>1, ContentsSeqNext DEF ContentsLaw
  <2>3. \A n \in 1 .. size' : SlotOf(n)' = SlotOf(n)
    BY <1>1 DEF SlotOf
  <2> QED
    BY <1>1, <2>2, <2>3
<1>5. Contents # <<>>
  BY <1>2, <1>3, EmptySeq
<1>6. Contents' = SubSeq(Contents, 1, size - 1)
  <2> DEFINE t == SubSeq(Contents, 1, size - 1)
  <2>1. size - 1 \in 0 .. Len(Contents)
    BY <1>2, <1>3
  <2>2. t \in Seq(Content) /\ Len(t) = size - 1
        /\ \A i \in 1 .. size - 1 : t[i] = Contents[i]
    BY <1>3, <2>1, PrefixProperties
  <2> HIDE DEF t
  <2>4. \A i \in 1 .. size - 1 : Contents'[i] = t[i]
    BY <1>2, <1>3, <1>4, <2>2
  <2>5. Contents' = t
    BY <1>4, <2>2, <2>4, SeqEqual
  <2> QED
    BY <2>5 DEF t
<1> QED
  BY <1>1, <1>3, <1>5, <1>6 DEF BD!PopBack, BD!Ok

-----------------------------------------------------------------------------
(* A buffer without elements is the empty sequence.                        *)
LEMMA EmptyContents == TypeOK /\ size = 0 => Contents = <<>>
  BY ContentsSeq, EmptySeq DEF ContentsLaw

LEMMA EmptyContentsNext == (TypeOK /\ size = 0 => Contents = <<>>)'
  BY EmptyContents, PTL

LEMMA SameContents == UNCHANGED ringVars => Contents' = Contents /\ Peek' = Peek
  BY DEF ringVars, Contents, Peek, Is_empty, Front, Back, Pred

LEMMA StepRefines ==
  RingInv /\ RingInv' /\ (Peek = BD!EndsOf(Contents))' /\ [Next]_vars => [BD!Next]_BD!vars
<1> SUFFICES ASSUME RingInv, RingInv', (Peek = BD!EndsOf(Contents))', [Next]_vars
             PROVE  [BD!Next]_BD!vars
  OBVIOUS
<1>0. Peek' = BD!EndsOf(Contents')
  BY DEF BD!EndsOf
<1>1. CASE \E c \in Capacities : Create(c)
  <2>1. size' = 0 /\ capacity' \in Nat /\ status' = "CDSA_OK"
    BY <1>1, RingBufferAssumption DEF Create
  <2>2. Contents' = <<>>
    BY <2>1, EmptyContentsNext DEF RingInv
  <2> QED
    BY <1>0, <2>1, <2>2 DEF BD!Next, BD!Reset, BD!Ok
<1>2. CASE Free
  <2>1. size' = 0 /\ capacity' \in Nat /\ status' = "CDSA_OK"
    BY <1>2 DEF Free
  <2>2. Contents' = <<>>
    BY <2>1, EmptyContentsNext DEF RingInv
  <2> QED
    BY <1>0, <2>1, <2>2 DEF BD!Next, BD!Reset, BD!Ok
<1>3. CASE \E e \in Elems : PushBack(e)
  BY <1>0, <1>3, PushBackRefines DEF BD!Next
<1>4. CASE \E e \in Elems : PushFront(e)
  BY <1>0, <1>4, PushFrontRefines DEF BD!Next
<1>5. CASE PopFront
  BY <1>0, <1>5, PopFrontRefines DEF BD!Next
<1>6. CASE PopBack
  BY <1>0, <1>6, PopBackRefines DEF BD!Next
<1>7. CASE PushFull
  <2>1. Len(Contents) = capacity /\ status' = "CDSA_ERR_FULL" /\ UNCHANGED ringVars
    BY <1>7, ContentsSeq DEF ContentsLaw, PushFull, Is_full, RingInv
  <2>2. Contents' = Contents /\ capacity' = capacity
    BY <2>1, SameContents DEF ringVars
  <2> QED
    BY <1>0, <2>1, <2>2 DEF BD!Next, BD!RefuseFull
<1>8. CASE PopEmpty
  <2>1. Contents = <<>> /\ status' = "CDSA_ERR_EMPTY" /\ UNCHANGED ringVars
    BY <1>8, EmptyContents DEF PopEmpty, Is_empty, RingInv
  <2>2. Contents' = Contents /\ capacity' = capacity
    BY <2>1, SameContents DEF ringVars
  <2> QED
    BY <1>0, <2>1, <2>2 DEF BD!Next, BD!RefuseEmpty
<1>9. CASE CreateOOM \/ IterCall
  <2>1. UNCHANGED ringVars
    BY <1>9, IterCallFrame DEF CreateOOM
  <2>2. status' \in {"CDSA_OK", "CDSA_ERR_OOM", "CDSA_ERR_NOT_FOUND",
                     "CDSA_ERR_ITER_INVALIDATED"}
    BY <1>9 DEF CreateOOM, IterCall, NewIter, IterNext, IterFails, FreeIter
  <2>3. Contents' = Contents /\ capacity' = capacity
    BY <2>1, SameContents DEF ringVars
  <2> QED
    BY <1>0, <2>2, <2>3 DEF BD!Next, BD!Read
<1>10. CASE UNCHANGED vars
  BY <1>10, SameContents DEF vars, ringVars, BD!vars
<1> QED
  BY <1>1, <1>2, <1>3, <1>4, <1>5, <1>6, <1>7, <1>8, <1>9, <1>10
     DEF Next, RingCall

(* A ring buffer of any capacity implements the bounded double-ended queue *)
(* its header promises: no wrap loses, duplicates or reorders an element,  *)
(* and front and back show the two ends.                                   *)
THEOREM RingImplementsDeque == Spec => ImplementsDeque
<1>1. Init => BD!Init
  <2> SUFFICES ASSUME Init PROVE BD!Init
    OBVIOUS
  <2>1. RingInv /\ size = 0 /\ capacity = 0 /\ status = "CDSA_OK"
    BY InitInv DEF Init
  <2> QED
    BY <2>1, EmptyContents DEF BD!Init, Peek, Is_empty, RingInv
<1> QED
  BY <1>1, InitInv, NextInv, PeekIsEnds, StepRefines, PTL
     DEF Spec, ImplementsDeque, BD!Spec

-----------------------------------------------------------------------------
(* Iterators: one with the buffer's version has yielded the front of the   *)
(* contents, and one left behind never catches up, because the version     *)
(* only grows while the buffer, and so any iterator, lives.                *)
Following(i) ==
  i.snapshot_version = version =>
    i.progress <= size /\ i.seen = SubSeq(Contents, 1, i.progress)
IterInv ==
  \A it \in Iters : iters[it].open =>
    live /\ iters[it].snapshot_version <= version /\ Following(iters[it])

(* push_back, push_front, pop_front and pop_back leave every iterator with *)
(* an older version.                                                       *)
LEMMA MutateIters == RingInv /\ IterInv /\ Mutate => IterInv'
<1> SUFFICES ASSUME RingInv, IterInv, Mutate, NEW it \in Iters, (iters[it].open)'
             PROVE  (/\ live /\ iters[it].snapshot_version <= version
                     /\ Following(iters[it]))'
  BY DEF IterInv
<1>1. iters' = iters /\ version' = version + 1 /\ live' = live /\ live
  BY DEF Mutate
<1>2. /\ version \in Nat /\ iters[it].snapshot_version \in Nat
      /\ iters[it].snapshot_version <= version
  BY <1>1 DEF RingInv, TypeOK, Iterator, IterInv
<1> QED
  BY <1>1, <1>2 DEF Following

(* A call on one iterator changes no other and nothing of the buffer.      *)
LEMMA OneIter ==
  ASSUME RingInv, IterInv, NEW it \in Iters, NEW i \in Iterator,
         iters' = [iters EXCEPT ![it] = i], UNCHANGED <<live, ringVars>>,
         i.open => live /\ i.snapshot_version <= version /\ Following(i)
  PROVE  IterInv'
<1> SUFFICES ASSUME NEW j \in Iters, (iters[j].open)'
             PROVE  (/\ live /\ iters[j].snapshot_version <= version
                     /\ Following(iters[j]))'
  BY DEF IterInv
<1>1. /\ iters \in [Iters -> Iterator] /\ live' = live /\ version' = version
      /\ size' = size /\ Contents' = Contents
  BY SameContents DEF RingInv, TypeOK, ringVars
<1>2. CASE j = it
  <2>1. iters'[j] = i
    BY <1>1, <1>2
  <2>2. Following(iters[j])' = Following(i)
    BY <1>1, <2>1 DEF Following
  <2> QED
    BY <1>1, <2>1, <2>2
<1>3. CASE j # it
  <2>1. iters'[j] = iters[j]
    BY <1>1, <1>3
  <2>2. Following(iters[j])' = Following(iters[j])
    BY <1>1, <2>1 DEF Following
  <2> QED
    BY <1>1, <2>1, <2>2 DEF IterInv
<1> QED
  BY <1>2, <1>3

LEMMA NewIterFollows ==
  ASSUME RingInv, IterInv, NEW it \in Iters, NewIter(it)
  PROVE  IterInv'
<1> DEFINE i == [ClosedIter EXCEPT !.open = TRUE, !.snapshot_version = version]
<1>1. version \in Nat /\ size \in Nat /\ live
  BY DEF RingInv, TypeOK, NewIter
<1>2. i \in Iterator
  BY <1>1, ClosedIterType DEF Iterator
<1>3. i.open /\ i.snapshot_version = version /\ i.progress = 0 /\ i.seen = <<>>
  BY DEF ClosedIter
<1>4. iters' = [iters EXCEPT ![it] = i] /\ UNCHANGED <<live, ringVars>>
  BY DEF NewIter
<1> HIDE DEF i
<1>5. SubSeq(Contents, 1, 0) = <<>>
  BY SubSeqEmpty
<1>6. Following(i) /\ i.snapshot_version <= version
  BY <1>1, <1>3, <1>5 DEF Following
<1> QED
  BY <1>1, <1>2, <1>4, <1>6, OneIter

(* The slot that next reads is that of the element after those yielded.    *)
LEMMA IterNextFollows ==
  ASSUME RingInv, IterInv, NEW it \in Iters, IterNext(it)
  PROVE  IterInv'
<1> DEFINE p == iters[it].progress
           x == data[(head + p) % capacity]
           i == [iters[it] EXCEPT !.progress = p + 1, !.seen = Append(@, x)]
<1>1. /\ iters \in [Iters -> Iterator] /\ iters[it] \in Iterator /\ p \in Nat
      /\ iters[it].seen \in Seq(Content) /\ version \in Nat /\ size \in Nat
      /\ iters[it].snapshot_version \in Nat /\ head \in Nat
  BY DEF RingInv, TypeOK, Iterator, Content, Index, Slots
<1>2. live /\ iters[it].open /\ iters[it].snapshot_version = version /\ p < size
  BY DEF IterNext, HasNext, Valid
<1>3. iters[it].seen = SubSeq(Contents, 1, p)
  BY <1>2 DEF IterInv, Following
<1>4. /\ Contents \in Seq(Content) /\ Len(Contents) = size
      /\ \A n \in 1 .. size : Contents[n] = data[SlotOf(n)]
  BY ContentsSeq DEF ContentsLaw, RingInv
<1>5. p + 1 \in 1 .. size /\ head + (p + 1) - 1 = head + p
  BY <1>1, <1>2
<1>6. x = Contents[p + 1]
  BY <1>4, <1>5 DEF SlotOf
<1> HIDE DEF x, p
<1>7. Append(iters[it].seen, x) = SubSeq(Contents, 1, p + 1)
  <2> DEFINE s == Append(SubSeq(Contents, 1, p), x)
             t == SubSeq(Contents, 1, p + 1)
  <2>1. p \in 0 .. size /\ p + 1 \in 0 .. size
    BY <1>1, <1>2
  <2>2. /\ SubSeq(Contents, 1, p) \in Seq(Content) /\ Len(SubSeq(Contents, 1, p)) = p
        /\ \A n \in 1 .. p : SubSeq(Contents, 1, p)[n] = Contents[n]
    BY <1>4, <2>1, PrefixProperties
  <2>3. /\ t \in Seq(Content) /\ Len(t) = p + 1
        /\ \A n \in 1 .. p + 1 : t[n] = Contents[n]
    BY <1>4, <2>1, PrefixProperties
  <2>4. x \in Content
    BY <1>4, <1>5, <1>6, ElementOfSeq
  <2>5. /\ s \in Seq(Content) /\ Len(s) = p + 1 /\ s[p + 1] = x
        /\ \A n \in 1 .. p : s[n] = Contents[n]
    BY <2>2, <2>4, AppendProperties
  <2> HIDE DEF s, t
  <2>6. \A n \in 1 .. p + 1 : s[n] = t[n]
    BY <1>1, <1>6, <2>3, <2>5
  <2>7. s = t
    BY <2>3, <2>5, <2>6, SeqEqual
  <2> QED
    BY <1>3, <2>7 DEF s, t
<1>8. i \in Iterator
  <2>1. SubSeq(Contents, 1, p + 1) \in Seq(Content) /\ p + 1 \in Nat
    BY <1>1, <1>2, <1>4, PrefixProperties
  <2>2. ASSUME NEW r \in Iterator, NEW c \in Nat, NEW s \in Seq(Content)
        PROVE  [r EXCEPT !.progress = c, !.seen = s] \in Iterator
    BY DEF Iterator, Content
  <2> QED
    BY <1>1, <1>7, <2>1, <2>2
<1>9. /\ i.open /\ i.snapshot_version = version /\ i.progress = p + 1
      /\ i.seen = SubSeq(Contents, 1, p + 1)
  BY <1>1, <1>2, <1>7 DEF Iterator
<1>10. iters' = [iters EXCEPT ![it] = i] /\ UNCHANGED <<live, ringVars>>
  BY <1>1 DEF IterNext, x, p
<1> HIDE DEF i
<1>11. Following(i) /\ i.snapshot_version <= version
  BY <1>1, <1>2, <1>5, <1>9 DEF Following
<1> QED
  BY <1>2, <1>8, <1>10, <1>11, OneIter

LEMMA KeepIters ==
  IterInv /\ UNCHANGED <<live, ringVars, iters>> => IterInv'
<1> SUFFICES ASSUME IterInv, UNCHANGED <<live, ringVars, iters>> PROVE IterInv'
  OBVIOUS
<1>1. live' = live /\ version' = version /\ size' = size /\ Contents' = Contents
      /\ iters' = iters
  BY SameContents DEF ringVars
<1> QED
  BY <1>1 DEF IterInv, Following

LEMMA NextIters == RingInv /\ IterInv /\ [Next]_vars => IterInv'
<1> SUFFICES ASSUME RingInv, IterInv, [Next]_vars PROVE IterInv'
  OBVIOUS
<1>1. CASE \E c \in Capacities : Create(c)
  BY <1>1 DEF Create, IterInv
<1>2. CASE Free
  BY <1>2 DEF Free, IterInv
<1>3. CASE PopFront \/ PopBack \/ \E e \in Elems : PushBack(e) \/ PushFront(e)
  BY <1>3, MutateIters DEF PopFront, PopBack, PushBack, PushFront
<1>4. CASE CreateOOM \/ PushFull \/ PopEmpty \/ UNCHANGED vars
  BY <1>4, KeepIters DEF CreateOOM, PushFull, PopEmpty, vars
<1>5. ASSUME NEW it \in Iters, NewIter(it) PROVE IterInv'
  BY <1>5, NewIterFollows
<1>6. ASSUME NEW it \in Iters, IterNext(it) PROVE IterInv'
  BY <1>6, IterNextFollows
<1>7. ASSUME NEW it \in Iters, IterFails(it) PROVE IterInv'
  BY <1>7, KeepIters DEF IterFails
<1>8. ASSUME NEW it \in Iters, FreeIter(it) PROVE IterInv'
  BY <1>8, OneIter, ClosedIterType DEF FreeIter, ClosedIter
<1> QED
  BY <1>1, <1>2, <1>3, <1>4, <1>5, <1>6, <1>7, <1>8 DEF Next, RingCall, IterCall

(* An iterator whose version check passes has yielded the first elements   *)
(* of the buffer, in order, whatever wraps were behind them: the position  *)
(* cdsa_next_ringbuffer computes from head is that of the next element.    *)
THEOREM RingIteratorCorrect == Spec => []IteratorExact
<1>1. Init => IterInv
  BY DEF Init, IterInv, ClosedIter
<1>2. IterInv => IteratorExact
  BY DEF IterInv, IteratorExact, Following, Valid
<1> QED
  BY <1>1, <1>2, InitInv, NextInv, NextIters, PTL DEF Spec

-----------------------------------------------------------------------------
(* Every step of a queue or a deque is a step of the ring buffer below, so *)
(* all that is proved of the ring holds under both faces of it.            *)
LEMMA FaceStep == [QNext]_qvars => [Next]_vars
<1> SUFFICES ASSUME [QNext]_qvars PROVE [Next]_vars
  OBVIOUS
<1>1. CASE \E c \in Capacities : Create_queue(c) \/ Create_deque(c)
  BY <1>1 DEF Create_queue, Create_deque, Open, Next, RingCall
<1>2. CASE \E e \in Elems : Enqueue(e)
  BY <1>2 DEF Enqueue, Next, RingCall
<1>3. CASE Close
  BY <1>3 DEF Close, Next, RingCall
<1>4. CASE Dequeue
  BY <1>4 DEF Dequeue, Next, RingCall
<1>5. CASE DequeCall
  BY <1>5 DEF DequeCall, Next, RingCall
<1>6. CASE Refuse
  BY <1>6 DEF Refuse, Next, RingCall
<1>7. CASE WalkCall
  BY <1>7 DEF WalkCall, Next
<1>8. CASE UNCHANGED qvars
  BY <1>8 DEF qvars
<1> QED
  BY <1>1, <1>2, <1>3, <1>4, <1>5, <1>6, <1>7, <1>8 DEF QNext

THEOREM QueueIsRing == QSpec => Spec
<1>1. QInit => Init
  BY DEF QInit
<1> QED
  BY <1>1, FaceStep, PTL DEF QSpec, Spec

-----------------------------------------------------------------------------
QueueInv ==
  /\ enqueued \in Seq(Content) /\ dequeued \in Seq(Content)
  /\ FirstInFirstOut

LEMMA EmptyQueue ==
  ASSUME RingInv', size' = 0, enqueued' = <<>>, dequeued' = <<>>
  PROVE  QueueInv'
<1>1. Contents' = <<>>
  BY EmptyContentsNext DEF RingInv
<1>2. <<>> \in Seq(Content) /\ <<>> \o <<>> = <<>>
  BY EmptySeq, ConcatEmptySeq
<1> QED
  BY <1>1, <1>2 DEF QueueInv, FirstInFirstOut

LEMMA EnqueueInv ==
  ASSUME RingInv, RingInv', QueueInv, NEW e \in Elems, Enqueue(e)
  PROVE  QueueInv'
<1>1. /\ Contents' = Append(Contents, e) /\ Contents \in Seq(Content) /\ e \in Content
  BY PushBackRefines, ContentsSeq
     DEF Enqueue, BD!PushBack, RingInv, ContentsLaw, Content
<1>2. /\ enqueued = dequeued \o Contents /\ enqueued' = Append(enqueued, e)
      /\ dequeued' = dequeued /\ kind' = kind
      /\ enqueued \in Seq(Content) /\ dequeued \in Seq(Content)
  BY DEF Enqueue, QueueInv, FirstInFirstOut
<1>3. <<e>> \in Seq(Content)
  BY <1>1
<1>4. /\ Append(enqueued, e) = enqueued \o <<e>>
      /\ Append(Contents, e) = Contents \o <<e>>
      /\ Append(enqueued, e) \in Seq(Content)
  BY <1>1, <1>2, AppendIsConcat, AppendProperties
<1>5. (dequeued \o Contents) \o <<e>> = dequeued \o (Contents \o <<e>>)
  BY <1>1, <1>2, <1>3, ConcatAssociative
<1> QED
  BY <1>1, <1>2, <1>4, <1>5 DEF QueueInv, FirstInFirstOut

(* front shows the element that pop_front drops.                           *)
LEMMA DequeueInv ==
  ASSUME RingInv, RingInv', QueueInv, Dequeue
  PROVE  QueueInv'
<1>1. Contents # <<>> /\ Contents' = Tail(Contents)
  BY PopFrontRefines DEF Dequeue, BD!PopFront
<1>2. Contents \in Seq(Content)
  BY ContentsSeq DEF RingInv, ContentsLaw
<1>3. Front = Head(Contents) /\ Head(Contents) \in Content
  <2>1. Peek = BD!EndsOf(Contents) /\ ~Is_empty
    BY PeekIsEnds DEF Dequeue, PopFront
  <2>2. <<Front, Back>> = <<Contents[1], Contents[Len(Contents)]>>
    BY <1>1, <2>1 DEF Peek, BD!EndsOf
  <2>3. Front = Contents[1]
    BY <2>2
  <2>4. Head(Contents) = Contents[1]
    BY <1>1, <1>2
  <2> QED
    BY <1>1, <1>2, <2>3, <2>4, HeadTailProperties
<1> DEFINE h == Head(Contents)
           t == Tail(Contents)
<1>4. t \in Seq(Content) /\ <<h>> \in Seq(Content) /\ Contents = <<h>> \o t
  <2>1. t \in Seq(Content) /\ <<h>> \in Seq(Content)
    BY <1>1, <1>2, <1>3, HeadTailProperties
  <2> QED
    BY <1>1, <1>2, <2>1
<1>5. /\ enqueued = dequeued \o Contents /\ enqueued' = enqueued
      /\ dequeued' = Append(dequeued, h) /\ kind' = kind
      /\ enqueued \in Seq(Content) /\ dequeued \in Seq(Content)
  BY <1>3 DEF Dequeue, QueueInv, FirstInFirstOut
<1> HIDE DEF h, t
<1>6. dequeued' = dequeued \o <<h>> /\ dequeued' \in Seq(Content)
  BY <1>3, <1>5, AppendIsConcat, AppendProperties DEF h
<1>7. (dequeued \o <<h>>) \o t = dequeued \o (<<h>> \o t)
  BY <1>4, <1>5, ConcatAssociative
<1> QED
  BY <1>1, <1>4, <1>5, <1>6, <1>7 DEF QueueInv, FirstInFirstOut, t

(* A deque keeps no history; refusals and walks move no element.           *)
LEMMA KeepQueue ==
  ASSUME QueueInv, UNCHANGED <<kind, history>>,
         kind = "queue" => UNCHANGED ringVars
  PROVE  QueueInv'
<1>1. enqueued' = enqueued /\ dequeued' = dequeued /\ kind' = kind
  BY DEF history
<1>2. kind = "queue" => Contents' = Contents
  BY SameContents
<1> QED
  BY <1>1, <1>2 DEF QueueInv, FirstInFirstOut

LEMMA NextQueue == RingInv /\ QueueInv /\ [QNext]_qvars => QueueInv'
<1> SUFFICES ASSUME RingInv, QueueInv, [QNext]_qvars PROVE QueueInv'
  OBVIOUS
<1>0. RingInv'
  BY FaceStep, NextInv
<1>1. CASE \E c \in Capacities : Create_queue(c) \/ Create_deque(c)
  BY <1>0, <1>1, EmptyQueue DEF Create_queue, Create_deque, Open, Create
<1>2. CASE Close
  BY <1>0, <1>2, EmptyQueue DEF Close, Free
<1>3. CASE \E e \in Elems : Enqueue(e)
  BY <1>0, <1>3, EnqueueInv
<1>4. CASE Dequeue
  BY <1>0, <1>4, DequeueInv
<1>5. CASE DequeCall
  BY <1>5, KeepQueue DEF DequeCall
<1>6. CASE Refuse
  BY <1>6, KeepQueue DEF Refuse, CreateOOM, PushFull, PopEmpty
<1>7. CASE WalkCall
  BY <1>7, KeepQueue, IterCallFrame DEF WalkCall
<1>8. CASE UNCHANGED qvars
  BY <1>8, KeepQueue DEF qvars, vars
<1> QED
  BY <1>1, <1>2, <1>3, <1>4, <1>5, <1>6, <1>7, <1>8 DEF QNext

(* A queue of any capacity is first in, first out over its whole life: the *)
(* elements dequeued, then those it holds, are those enqueued, in order.   *)
THEOREM QueueCorrect == QSpec => []FirstInFirstOut
<1>1. QInit => RingInv /\ QueueInv
  <2> SUFFICES ASSUME QInit PROVE RingInv /\ QueueInv
    OBVIOUS
  <2>1. RingInv /\ size = 0
    BY InitInv DEF QInit, Init
  <2>2. Contents = <<>>
    BY <2>1, EmptyContents DEF RingInv
  <2>3. <<>> \in Seq(Content) /\ <<>> \o <<>> = <<>>
    BY EmptySeq, ConcatEmptySeq
  <2> QED
    BY <2>1, <2>2, <2>3 DEF QInit, QueueInv, FirstInFirstOut
<1>2. RingInv /\ [QNext]_qvars => RingInv'
  BY FaceStep, NextInv
<1>3. QueueInv => FirstInFirstOut
  BY DEF QueueInv
<1> QED
  BY <1>1, <1>2, <1>3, NextQueue, PTL DEF QSpec
=============================================================================

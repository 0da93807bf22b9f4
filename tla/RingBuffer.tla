----------------------------- MODULE RingBuffer ------------------------------
(***************************************************************************)
(* The fixed-capacity circular buffer of src/src/ringbuffer.c: a slot      *)
(* array with head, tail and size, walked by iterators that check a        *)
(* version.  queue.c and deque.c forward every call to it.                 *)
(***************************************************************************)
EXTENDS Integers, Sequences

CONSTANTS
  Elems,          \* the elements a client pushes
  Junk,           \* what malloc leaves in a slot
  Capacities,     \* capacities the client asks for
  MaxVersion,     \* bound on the version counter
  Iters           \* names of the iterators a client may hold

ASSUME RingBufferAssumption ==
  /\ Junk \notin Elems
  /\ Capacities \subseteq Nat
  /\ MaxVersion \in Nat

VARIABLES
  live,                                          \* the client holds a buffer
  capacity, head, tail, size, version, data,     \* struct cdsa_ringbuffer
  iters,
  status                                         \* of the last call

ringVars == <<capacity, head, tail, size, version, data>>
vars == <<live, ringVars, iters, status>>

Statuses == {"CDSA_OK", "CDSA_ERR_OOM", "CDSA_ERR_FULL", "CDSA_ERR_EMPTY",
             "CDSA_ERR_NOT_FOUND", "CDSA_ERR_ITER_INVALIDATED"}

(* seen is history: the elements the iterator has yielded.                 *)
Iterator == [open : BOOLEAN, progress : Nat, snapshot_version : Nat,
             seen : Seq(Elems \cup {Junk})]
ClosedIter == [open |-> FALSE, progress |-> 0, snapshot_version |-> 0,
               seen |-> <<>>]

NewData(c) == [i \in 0 .. c - 1 |-> Junk]

Init ==
  /\ live = FALSE /\ capacity = 0 /\ head = 0 /\ tail = 0 /\ size = 0
  /\ version = 0 /\ data = NewData(0)
  /\ iters = [it \in Iters |-> ClosedIter]
  /\ status = "CDSA_OK"

Is_empty == size = 0
Is_full == size = capacity

Succ(i) == (i + 1) % capacity
(* (mutant) i - 1 on an unsigned 16-bit size_t wraps before the modulo       *)
PredWraps(i) == ((i - 1) % 65536) % capacity
Pred(i) == (i + capacity - 1) % capacity

-----------------------------------------------------------------------------
Create(c) ==
  /\ ~live /\ live' = TRUE
  /\ capacity' = c /\ head' = 0 /\ tail' = 0 /\ size' = 0 /\ version' = 0
  /\ data' = NewData(c)
  /\ status' = "CDSA_OK" /\ UNCHANGED iters

(* malloc fails for the struct or for data: the struct is freed again.     *)
CreateOOM == ~live /\ status' = "CDSA_ERR_OOM" /\ UNCHANGED <<live, ringVars, iters>>

(* An iterator must not outlive its buffer.                                *)
Free ==
  /\ live /\ live' = FALSE /\ \A it \in Iters : ~iters[it].open
  /\ capacity' = 0 /\ head' = 0 /\ tail' = 0 /\ size' = 0 /\ version' = 0
  /\ data' = NewData(0)
  /\ status' = "CDSA_OK" /\ UNCHANGED iters

Mutate ==
  /\ live /\ version < MaxVersion
  /\ version' = version + 1
  /\ status' = "CDSA_OK"
  /\ UNCHANGED <<live, capacity, iters>>

(* (mutant) the full check is missing one                                  *)
PushBackOverfull(e) ==
  /\ size <= capacity /\ capacity > 0
  /\ data' = [data EXCEPT ![tail] = e]
  /\ tail' = Succ(tail)
  /\ size' = size + 1
  /\ Mutate /\ UNCHANGED head

PushBack(e) ==
  /\ ~Is_full
  /\ data' = [data EXCEPT ![tail] = e]
  /\ tail' = Succ(tail)
  /\ size' = size + 1
  /\ Mutate /\ UNCHANGED head

PushFront(e) ==
  /\ ~Is_full
  /\ head' = Pred(head)
  /\ data' = [data EXCEPT ![Pred(head)] = e]
  /\ size' = size + 1
  /\ Mutate /\ UNCHANGED tail

PopFront ==
  /\ ~Is_empty
  /\ head' = Succ(head)
  /\ size' = size - 1
  /\ Mutate /\ UNCHANGED <<tail, data>>

PopBack ==
  /\ ~Is_empty
  /\ tail' = Pred(tail)
  /\ size' = size - 1
  /\ Mutate /\ UNCHANGED <<head, data>>

PushFull == live /\ Is_full /\ status' = "CDSA_ERR_FULL" /\ UNCHANGED <<live, ringVars, iters>>
PopEmpty == live /\ Is_empty /\ status' = "CDSA_ERR_EMPTY" /\ UNCHANGED <<live, ringVars, iters>>

(* What the pointers returned by front and back point at.                  *)
Front == data[head]
(* (mutant) reads the slot after the last element                          *)
BackOffByOne == data[tail]
Back == data[Pred(tail)]

-----------------------------------------------------------------------------
NewIter(it) ==
  /\ live /\ ~iters[it].open
  /\ iters' = [iters EXCEPT ![it] =
                 [ClosedIter EXCEPT !.open = TRUE, !.snapshot_version = version]]
  /\ status' = "CDSA_OK" /\ UNCHANGED <<live, ringVars>>

(* (mutant) the version check is missing                                   *)
ValidAlways(it) == live /\ iters[it].open

Valid(it) == live /\ iters[it].open /\ iters[it].snapshot_version = version
HasNext(it) == Valid(it) /\ iters[it].progress < size

IterNext(it) ==
  /\ HasNext(it)
  /\ LET physical_index == (head + iters[it].progress) % capacity IN
     iters' = [iters EXCEPT ![it].progress = @ + 1,
                            ![it].seen = Append(@, data[physical_index])]
  /\ status' = "CDSA_OK" /\ UNCHANGED <<live, ringVars>>

IterFails(it) ==
  /\ live /\ iters[it].open /\ ~HasNext(it)
  /\ status' = IF Valid(it) THEN "CDSA_ERR_NOT_FOUND"
                            ELSE "CDSA_ERR_ITER_INVALIDATED"
  /\ UNCHANGED <<live, ringVars, iters>>

FreeIter(it) ==
  /\ iters[it].open
  /\ iters' = [iters EXCEPT ![it] = ClosedIter]
  /\ status' = "CDSA_OK" /\ UNCHANGED <<live, ringVars>>

-----------------------------------------------------------------------------
RingCall ==
  \/ \E c \in Capacities : Create(c)
  \/ \E e \in Elems : PushBack(e) \/ PushFront(e)
  \/ CreateOOM \/ Free \/ PopFront \/ PopBack \/ PushFull \/ PopEmpty

IterCall ==
  \E it \in Iters : NewIter(it) \/ IterNext(it) \/ IterFails(it) \/ FreeIter(it)

Next == RingCall \/ IterCall

Spec == Init /\ [][Next]_vars

-----------------------------------------------------------------------------
(* Every field has its C type and every index stays inside the block.      *)
Slots == 0 .. capacity - 1
Index == IF capacity = 0 THEN {0} ELSE Slots
TypeOK ==
  /\ live \in BOOLEAN /\ capacity \in Nat /\ version \in Nat
  /\ size \in 0 .. capacity /\ head \in Index /\ tail \in Index
  /\ data \in [Slots -> Elems \cup {Junk}]
  /\ iters \in [Iters -> Iterator]
  /\ status \in Statuses
  /\ ~live => capacity = 0

(* tail is the slot size steps after head: full and empty, which agree on  *)
(* head and tail, are told apart by size alone, and no wrap in either      *)
(* direction loses a slot.                                                 *)
TailFollowsSize == capacity > 0 => tail = (head + size) % capacity

(* The sequence the buffer holds, front first.                             *)
Contents == [n \in 1 .. size |-> data[(head + n - 1) % capacity]]

(* An iterator whose version check passes has yielded the first elements   *)
(* of the buffer as it is now, in order.                                   *)
IteratorExact ==
  \A it \in Iters : Valid(it) => /\ iters[it].progress <= size
                                 /\ iters[it].seen = SubSeq(Contents, 1, iters[it].progress)

(* What front and back show a client.                                      *)
Peek == IF Is_empty THEN <<>> ELSE <<Front, Back>>

(* The buffer implements the bounded double-ended queue: each call does to *)
(* the sequence what the queue's does, in order, without losing a slot to  *)
(* a wrap, and the pointers from front and back reach the two ends.        *)
BD == INSTANCE BoundedDeque WITH q <- Contents, ends <- Peek, room <- capacity
ImplementsDeque == BD!Spec
=============================================================================

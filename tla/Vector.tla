------------------------------- MODULE Vector --------------------------------
(***************************************************************************)
(* The growing array of src/src/vector.c, with the iterators over it.  The *)
(* block that realloc really returned is kept apart from vec->capacity,    *)
(* because cdsa_push_vector doubles capacity before it knows whether the   *)
(* reallocation succeeds.                                                  *)
(***************************************************************************)
EXTENDS Integers, Sequences

CONSTANTS
  Elems,             \* the elements a client stores
  Junk,              \* the content of memory nobody has written
  InitialCapacity,   \* INITIAL_CAPACITY
  MaxCapacity,       \* bound: capacity is not doubled beyond it
  MaxVersion,        \* bound on the version counter
  Iters              \* names of the iterators a client may hold

ASSUME VectorAssumption ==
  /\ Junk \notin Elems
  /\ InitialCapacity \in Nat \ {0}
  /\ MaxCapacity \in Nat /\ MaxVersion \in Nat

VARIABLES
  live,                             \* the client holds a vector
  data, size, capacity, version,    \* struct cdsa_vector
  block,                            \* slots the block behind data has
  failed,     \* history: the last reallocation failed
  overrun,    \* history: a slot outside the block has been written
  dangled,    \* history: an element has been read from a block given back
  iters,
  status      \* of the last call

vecVars == <<data, size, capacity, version, block>>
historyVars == <<failed, overrun, dangled>>
vars == <<live, vecVars, historyVars, iters, status>>

(* What the calls return; CDSA_ERR_EMPTY is the priority queue's.          *)
Statuses == {"CDSA_OK", "CDSA_ERR_OOM", "CDSA_ERR_NOT_FOUND",
             "CDSA_ERR_ITER_INVALIDATED", "CDSA_ERR_EMPTY"}

(* An iterator; seen and stale are history: what it has yielded, and       *)
(* whether elements were added or removed since it was created.            *)
Iterator == [open : BOOLEAN, current_index : Nat, snapshot_version : Nat,
             seen : Seq(Elems \cup {Junk}), stale : BOOLEAN]
ClosedIter == [open |-> FALSE, current_index |-> 0, snapshot_version |-> 0,
               seen |-> <<>>, stale |-> FALSE]
AllStale == [it \in Iters |-> [iters[it] EXCEPT !.stale = iters[it].open, !.seen = <<>>]]

NewBlock(n) == [i \in 0 .. n - 1 |-> Junk]

(* The value read from slot i: memory outside the block holds anything.    *)
At(i) == IF i < block THEN data[i] ELSE Junk

Init ==
  /\ live = FALSE /\ data = NewBlock(0) /\ size = 0 /\ capacity = 0
  /\ version = 0 /\ block = 0 /\ failed = FALSE /\ overrun = FALSE
  /\ dangled = FALSE /\ iters = [it \in Iters |-> ClosedIter]
  /\ status = "CDSA_OK"

-----------------------------------------------------------------------------
Create ==
  /\ ~live /\ live' = TRUE
  /\ size' = 0 /\ capacity' = InitialCapacity /\ version' = 0
  /\ block' = InitialCapacity /\ data' = NewBlock(InitialCapacity)
  /\ status' = "CDSA_OK" /\ UNCHANGED <<historyVars, iters>>

(* malloc fails for the struct or for data: the struct is freed again.     *)
CreateOOM ==
  /\ ~live /\ status' = "CDSA_ERR_OOM"
  /\ UNCHANGED <<live, vecVars, historyVars, iters>>

(* An iterator must not outlive its vector.                                *)
Free ==
  /\ live /\ live' = FALSE /\ \A it \in Iters : ~iters[it].open
  /\ data' = NewBlock(0) /\ size' = 0 /\ capacity' = 0 /\ version' = 0
  /\ block' = 0 /\ failed' = FALSE /\ overrun' = FALSE /\ dangled' = FALSE
  /\ status' = "CDSA_OK" /\ UNCHANGED iters

(* (mutant) off by one in the growth check                                 *)
RoomOffByOne == size <= capacity
Room == size < capacity

(* The element is stored in slot size of block blk: outside the block when *)
(* capacity claims more than the allocator gave.                           *)
Store(e, d, blk) ==
  /\ live /\ version < MaxVersion
  /\ data' = IF size < blk THEN [d EXCEPT ![size] = e] ELSE d
  /\ overrun' = (overrun \/ size >= blk)
  /\ size' = size + 1 /\ version' = version + 1
  /\ iters' = AllStale
  /\ status' = "CDSA_OK" /\ UNCHANGED live

PushFits(e) == Room /\ Store(e, data, block) /\ UNCHANGED <<capacity, block, failed>>

(* (mutant) the new block is not filled from the old one                   *)
MovedNothing(n) == NewBlock(n)

(* The reallocated block starts with the content of the old one.           *)
Moved(n) == [i \in 0 .. n - 1 |-> At(i)]

PushGrows(e) ==
  /\ ~Room /\ capacity * 2 <= MaxCapacity
  /\ capacity' = capacity * 2 /\ block' = capacity * 2 /\ failed' = FALSE
  /\ Store(e, Moved(capacity * 2), capacity * 2)

(* realloc returns NULL after capacity was doubled.                        *)
PushOOM ==
  /\ live /\ ~Room /\ capacity * 2 <= MaxCapacity
  /\ capacity' = capacity * 2 /\ failed' = TRUE
  /\ status' = "CDSA_ERR_OOM"
  /\ UNCHANGED <<live, data, size, version, block, overrun, dangled, iters>>

Push(e) == (PushFits(e) \/ PushGrows(e)) /\ UNCHANGED dangled

(* The pointer that get_vector returned for slot i is pushed.  If the      *)
(* block is reallocated first, what is copied lies in memory given back.   *)
PushOwn(i) ==
  /\ i < size
  /\ \/ PushFits(At(i)) /\ UNCHANGED dangled
     \/ \E e \in {At(i), Junk} : PushGrows(e) /\ dangled' = TRUE

Pop ==
  /\ live /\ size > 0 /\ version < MaxVersion
  /\ size' = size - 1 /\ version' = version + 1
  /\ iters' = AllStale
  /\ status' = "CDSA_OK" /\ UNCHANGED <<live, data, capacity, block, historyVars>>

PopEmpty ==
  /\ live /\ size = 0 /\ status' = "CDSA_ERR_NOT_FOUND"
  /\ UNCHANGED <<live, vecVars, historyVars, iters>>

(* The vector no longer holds its elements; version stays as it is.        *)
Clear ==
  /\ live
  /\ size' = 0
  /\ iters' = IF size > 0 THEN AllStale ELSE iters
  /\ status' = "CDSA_OK"
  /\ UNCHANGED <<live, data, capacity, version, block, historyVars>>

(* set_vector overwrites an element in place; it is not structural.        *)
Written(i, e) == IF i < block THEN [data EXCEPT ![i] = e] ELSE data

Set(i, e) ==
  /\ live /\ i < size
  /\ data' = Written(i, e)
  /\ overrun' = (overrun \/ i >= block)
  /\ status' = "CDSA_OK"
  /\ UNCHANGED <<live, size, capacity, version, block, failed, dangled, iters>>

-----------------------------------------------------------------------------
NewIter(it) ==
  /\ live /\ ~iters[it].open
  /\ iters' = [iters EXCEPT ![it] =
                 [ClosedIter EXCEPT !.open = TRUE, !.snapshot_version = version]]
  /\ status' = "CDSA_OK" /\ UNCHANGED <<live, vecVars, historyVars>>

(* (mutant) the version check is missing                                   *)
ValidAlways(it) == live /\ iters[it].open

Valid(it) == live /\ iters[it].open /\ iters[it].snapshot_version = version
HasNext(it) == Valid(it) /\ iters[it].current_index < size

IterNext(it) ==
  /\ HasNext(it)
  /\ iters' = [iters EXCEPT ![it].current_index = @ + 1,
                            ![it].seen = Append(@, At(iters[it].current_index))]
  /\ status' = "CDSA_OK" /\ UNCHANGED <<live, vecVars, historyVars>>

IterFails(it) ==
  /\ live /\ iters[it].open /\ ~HasNext(it)
  /\ status' = IF Valid(it) THEN "CDSA_ERR_NOT_FOUND"
                            ELSE "CDSA_ERR_ITER_INVALIDATED"
  /\ UNCHANGED <<live, vecVars, historyVars, iters>>

FreeIter(it) ==
  /\ iters[it].open
  /\ iters' = [iters EXCEPT ![it] = ClosedIter]
  /\ status' = "CDSA_OK" /\ UNCHANGED <<live, vecVars, historyVars>>

IterCall ==
  \E it \in Iters : NewIter(it) \/ IterNext(it) \/ IterFails(it) \/ FreeIter(it)

Next ==
  \/ \E e \in Elems : Push(e)
  \/ \E i \in 0 .. size - 1 : PushOwn(i)
  \/ \E i \in 0 .. size - 1, e \in Elems : Set(i, e)
  \/ Create \/ CreateOOM \/ Free \/ PushOOM \/ Pop \/ PopEmpty \/ Clear
  \/ IterCall

Spec == Init /\ [][Next]_vars

-----------------------------------------------------------------------------
(* Every field has its C type.                                             *)
TypeOK ==
  /\ live \in BOOLEAN /\ capacity \in Nat /\ version \in Nat /\ block \in Nat
  /\ size \in Nat /\ data \in [0 .. block - 1 -> Elems \cup {Junk}]
  /\ {failed, overrun, dangled} \subseteq BOOLEAN
  /\ iters \in [Iters -> Iterator] /\ status \in Statuses

(* Out-of-bounds memory is touched only after a reallocation failed: while *)
(* every reallocation succeeds, capacity is the size of the block and      *)
(* every element counted lies written in it.  The vector recovers its      *)
(* block at the next reallocation that succeeds.  Only the push of one of  *)
(* its own elements can fill a slot of it with anything else.              *)
OverrunNeedsFailure ==
  /\ TypeOK
  /\ size <= capacity /\ block <= capacity
  /\ ~failed => block = capacity
  /\ size > block => failed
  /\ ~failed /\ ~overrun /\ ~dangled => \A i \in 0 .. size - 1 : At(i) # Junk

(* vector.c:43 ("THE FIX"): a failed realloc is survived.  Every element   *)
(* the vector counts lies inside the block it owns.                        *)
ElementsInBlock == size <= block

(* An iterator that would yield an element has seen no addition or removal *)
(* since it was created, not even the clear that leaves version alone, and *)
(* has yielded one stored element per step.                                *)
IteratorExact ==
  ~overrun /\ ~dangled =>
    \A it \in Iters : HasNext(it) =>
      /\ Len(iters[it].seen) = iters[it].current_index
      /\ ~iters[it].stale
      /\ \A n \in 1 .. Len(iters[it].seen) : iters[it].seen[n] # Junk
=============================================================================

---------------------------- MODULE PriorityQueue ----------------------------
(***************************************************************************)
(* The binary heap of src/src/priority_queue.c over the vector.  Every     *)
(* push and pop is the vector operation, then the allocation of the swap   *)
(* buffer, then a sift of one swap per step.  The sift may find no memory: *)
(* it returns CDSA_ERR_OOM and leaves the heap as the vector operation did.*)
(***************************************************************************)
EXTENDS Vector, FiniteSets

CONSTANT Rank       \* cmp(a, b) is Rank[a] > Rank[b]; external, the client's

ASSUME PriorityQueueAssumption == Rank \in [Elems -> Int]

VARIABLES
  pc,               \* "idle", or where push and pop are
  index,            \* the slot the sift is at, 0 outside of it
  out,              \* what pop stored in *out_elem
  unsifted          \* history: a sift failed and the queue was not empty since

siftVars == <<pc, index>>
pqvars == <<vars, siftVars, out, unsifted>>

cmp(a, b) == Rank[a] > Rank[b]

PInit == Init /\ pc = "idle" /\ index = 0 /\ out = Junk /\ unsifted = FALSE

Create_pq ==
  /\ Create /\ UNCHANGED <<siftVars, out>> /\ unsifted' = FALSE
Create_pqOOM == CreateOOM /\ UNCHANGED <<siftVars, out, unsifted>>
Free_pq ==
  /\ pc = "idle" /\ Free
  /\ unsifted' = FALSE /\ UNCHANGED <<siftVars, out>>
Clear_pq ==
  /\ pc = "idle" /\ Clear
  /\ unsifted' = FALSE /\ UNCHANGED <<siftVars, out>>

(* What follows a push that does not fit the block is undefined: Vector    *)
(* shows how it comes about, here it is not followed further.              *)
Push_pq(e) ==
  /\ pc = "idle" /\ (Room => size < block)
  /\ Push(e)
  /\ index' = size /\ pc' = IF size = 0 THEN "idle" ELSE "up_malloc"
  /\ UNCHANGED <<out, unsifted>>

Push_pqOOM == pc = "idle" /\ PushOOM /\ UNCHANGED <<siftVars, out, unsifted>>

(* The root is copied out, the last element takes its place.               *)
Pop_pq ==
  /\ pc = "idle" /\ live /\ size > 0 /\ version < MaxVersion
  /\ out' = At(0)
  /\ data' = Written(0, At(size - 1))
  /\ size' = size - 1 /\ version' = version + 1 /\ iters' = AllStale
  /\ index' = 0 /\ pc' = IF size = 1 THEN "idle" ELSE "down_malloc"
  /\ unsifted' = (unsifted /\ size > 1)
  /\ status' = "CDSA_OK"
  /\ UNCHANGED <<live, capacity, block, historyVars>>

Pop_pqEmpty ==
  /\ pc = "idle" /\ live /\ size = 0 /\ status' = "CDSA_ERR_EMPTY"
  /\ UNCHANGED <<live, vecVars, historyVars, iters, siftVars, out, unsifted>>

(* malloc of the swap buffer                                               *)
SiftStart ==
  /\ pc \in {"up_malloc", "down_malloc"}
  /\ pc' = IF pc = "up_malloc" THEN "up" ELSE "down"
  /\ UNCHANGED <<vars, index, out, unsifted>>

SiftOOM ==
  /\ pc \in {"up_malloc", "down_malloc"}
  /\ pc' = "idle" /\ index' = 0 /\ unsifted' = TRUE /\ status' = "CDSA_ERR_OOM"
  /\ UNCHANGED <<live, vecVars, historyVars, iters, out>>

SiftDone == pc' = "idle" /\ index' = 0 /\ UNCHANGED <<vars, out, unsifted>>

(* (mutant) the swap overwrites one entry with the other                   *)
SwapLosing(i, j) ==
  /\ data' = [data EXCEPT ![i] = At(j)]
  /\ index' = j
  /\ UNCHANGED <<live, size, capacity, version, block, historyVars, iters,
                 status, pc, out, unsifted>>

Swap(i, j) ==
  /\ data' = [data EXCEPT ![i] = At(j), ![j] = At(i)]
  /\ index' = j
  /\ UNCHANGED <<live, size, capacity, version, block, historyVars, iters,
                 status, pc, out, unsifted>>

Parent(i) == (i - 1) \div 2

Rises == index > 0 /\ cmp(At(index), At(Parent(index)))

SiftUp == pc = "up" /\ Rises /\ Swap(index, Parent(index))
SiftUpDone == pc = "up" /\ ~Rises /\ SiftDone

(* The child that beats the entry and its sibling, or the entry itself;    *)
(* the left child wins a tie.                                              *)
Better(i, j) == j < size /\ cmp(At(j), At(i))

(* (mutant) the right child is compared with the parent, not the left one  *)
HighestOfParent(i) ==
  IF Better(i, 2 * i + 2) THEN 2 * i + 2
  ELSE IF Better(i, 2 * i + 1) THEN 2 * i + 1 ELSE i

Highest(i) ==
  LET l == IF Better(i, 2 * i + 1) THEN 2 * i + 1 ELSE i IN
  IF Better(l, 2 * i + 2) THEN 2 * i + 2 ELSE l

SiftDown == pc = "down" /\ Highest(index) # index /\ Swap(index, Highest(index))
(* (mutant) the loop does not break when the entry is in place              *)
SiftDownSpin == pc = "down" /\ Highest(index) = index /\ UNCHANGED pqvars
SiftDownDone == pc = "down" /\ Highest(index) = index /\ SiftDone

Sift == SiftStart \/ SiftOOM \/ SiftUp \/ SiftUpDone \/ SiftDown \/ SiftDownDone

(* The iterator of the queue is the vector's, in the order of the slots.   *)
WalkCall == pc = "idle" /\ IterCall /\ UNCHANGED <<siftVars, out, unsifted>>

PNext ==
  \/ Sift \/ WalkCall
  \/ Create_pq \/ Create_pqOOM \/ Free_pq \/ Clear_pq
  \/ \E e \in Elems : Push_pq(e)
  \/ Push_pqOOM \/ Pop_pq \/ Pop_pqEmpty

(* A push or pop that has begun returns.                                   *)
PSpec == PInit /\ [][PNext]_pqvars /\ WF_pqvars(Sift)

-----------------------------------------------------------------------------
(* While the sift works its way up only the edge above index, and on its   *)
(* way down only the edges below index, may be out of order; the edges     *)
(* around it are in order across it.  Between calls the heap is in order,  *)
(* unless a sift found no memory.  No sift moves elements under an         *)
(* iterator that would go on: what it has yielded are the first slots.     *)
Edges == {e \in (0 .. size - 1) \X (1 .. size - 1) : e[1] = Parent(e[2])}
InOrder(i, j) == ~cmp(At(j), At(i))
Suspect(i, j) == \/ pc \in {"up_malloc", "up"} /\ j = index
                 \/ pc \in {"down_malloc", "down"} /\ i = index
HeapInvariant ==
  /\ ~unsifted =>
       /\ \A e \in Edges : ~Suspect(e[1], e[2]) => InOrder(e[1], e[2])
       /\ pc # "idle" /\ index > 0 =>
            \A j \in 1 .. size - 1 :
              Parent(j) = index => InOrder(Parent(index), j)
  /\ \A it \in Iters : HasNext(it) =>
       iters[it].seen = [n \in 1 .. iters[it].current_index |-> At(n - 1)]

(* The queue implements the bag: sifting loses and duplicates nothing, and *)
(* a pop hands out an element of highest priority while the order stands.  *)
Bag == [e \in Elems |-> Cardinality({i \in 0 .. size - 1 : At(i) = e})]
PB == INSTANCE PriorityBag WITH bag <- Bag, ordered <- ~unsifted
ImplementsPriorityBag == PB!Spec

(* Every push and pop returns: the sift loops end.                         *)
SiftsEnd == pc # "idle" ~> pc = "idle"
=============================================================================

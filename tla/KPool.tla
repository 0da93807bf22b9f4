-------------------------------- MODULE KPool --------------------------------
(***************************************************************************)
(* The slab allocator kpool of src/src/allocator.c.  A free block holds    *)
(* the link of the free list; a block in use holds whatever its client     *)
(* writes there, over the same bytes.  Blocks are named by their position  *)
(* in the slab.                                                            *)
(***************************************************************************)
EXTENDS Integers, FiniteSets

CONSTANTS
  Capacities,     \* numbers of blocks a client asks for
  Null,           \* NULL, not a number
  Payload         \* what a client writes over the link, neither of them

VARIABLES
  capacity,       \* 0 when there is no pool
  free_list,      \* the first free block, or Null
  word,           \* the first word of every block: a link, or client data
  held,           \* history: the blocks clients hold
  returned        \* what the last kpool_alloc returned

vars == <<capacity, free_list, word, held, returned>>

Blocks == 0 .. capacity - 1

Init ==
  /\ capacity = 0 /\ free_list = Null /\ word = [b \in {} |-> Null]
  /\ held = {} /\ returned = Null

(* (mutant) the loop stops one block early                                 *)
WiredShort(c) == [b \in 0 .. c - 1 |-> IF b >= c - 2 THEN Null ELSE b + 1]

(* The wiring loop links every block to its successor, the last to NULL.   *)
Wired(c) == [b \in 0 .. c - 1 |-> IF b = c - 1 THEN Null ELSE b + 1]

Create(c) ==
  /\ capacity = 0 /\ c > 0
  /\ capacity' = c /\ free_list' = 0 /\ word' = Wired(c)
  /\ held' = {} /\ returned' = Null

(* No block, no slab, or a zero capacity.                                  *)
CreateFails == capacity = 0 /\ UNCHANGED vars

Alloc ==
  /\ capacity > 0 /\ free_list # Null
  /\ returned' = free_list
  /\ free_list' = word[free_list]
  /\ held' = held \cup {free_list}
  /\ UNCHANGED <<capacity, word>>

AllocExhausted ==
  /\ capacity > 0 /\ free_list = Null
  /\ returned' = Null
  /\ UNCHANGED <<capacity, free_list, word, held>>

(* The client uses the memory it was given.                                *)
Use(b) ==
  /\ word' = [word EXCEPT ![b] = Payload]
  /\ UNCHANGED <<capacity, free_list, held, returned>>

(* (mutant) the block becomes the head before it is linked                 *)
FreeUnlinked(b) ==
  /\ free_list' = b
  /\ held' = held \ {b} /\ returned' = Null
  /\ UNCHANGED <<capacity, word>>

(* A client frees what it holds, once.                                     *)
Free(b) ==
  /\ word' = [word EXCEPT ![b] = free_list]
  /\ free_list' = b
  /\ held' = held \ {b} /\ returned' = Null
  /\ UNCHANGED capacity

(* Destroying the pool takes back every block, held or not.                *)
Destroy ==
  /\ capacity > 0
  /\ capacity' = 0 /\ free_list' = Null /\ word' = [b \in {} |-> Null]
  /\ held' = {} /\ returned' = Null

Next ==
  \/ \E c \in Capacities : Create(c)
  \/ \E b \in held : Use(b) \/ Free(b)
  \/ CreateFails \/ Alloc \/ AllocExhausted \/ Destroy

Spec == Init /\ [][Next]_vars

-----------------------------------------------------------------------------
(* The free list from its n-th link on.                                    *)
Link(b) == IF b \in Blocks THEN word[b] ELSE Null
Chain == LET nth[n \in Nat] == IF n = 0 THEN free_list ELSE Link(nth[n - 1])
         IN  nth

(* Links and returned pointers stay inside the slab.                       *)
TypeOK ==
  /\ capacity \in Nat /\ free_list \in Blocks \cup {Null}
  /\ word \in [Blocks -> Blocks \cup {Null, Payload}]
  /\ held \subseteq Blocks /\ returned \in Blocks \cup {Null}

(* Following the links from free_list visits every block no client holds,  *)
(* once, and no other, then ends: however allocations, frees and the       *)
(* clients' writes over the links are interleaved, no block is leaked,     *)
(* handed out twice or reached through a client's data.                    *)
FreeListExact ==
  LET n == capacity - Cardinality(held) IN
  /\ {Chain[i] : i \in 0 .. n - 1} = Blocks \ held
  /\ Chain[n] = Null

(* The pool implements the abstract one: a block handed out was free, and  *)
(* NULL is returned only when every block is held.                         *)
BP == INSTANCE BlockPool WITH total <- capacity, got <- returned
ImplementsBlockPool == BP!Spec
=============================================================================

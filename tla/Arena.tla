-------------------------------- MODULE Arena --------------------------------
(***************************************************************************)
(* The bump allocator cdsa_arena of src/src/allocator.c, with its          *)
(* arithmetic on size_t and uintptr_t modulo 2^w.                          *)
(***************************************************************************)
EXTENDS Integers, FiniteSets

CONSTANTS
  Modulus,        \* 2^w
  Align,          \* the alignment, 8 in the code
  Addresses,      \* where malloc may put the buffer
  Capacities,     \* sizes of arena the client asks for
  Sizes,          \* sizes the client requests
  MaxBlocks       \* bound on the number of blocks between two resets

VARIABLES
  live, buffer, capacity, offset,    \* struct cdsa_arena
  blocks                             \* history: blocks given since the reset

vars == <<live, buffer, capacity, offset, blocks>>

Init ==
  /\ live = FALSE /\ buffer = 0 /\ capacity = 0 /\ offset = 0 /\ blocks = {}

(* Capacity 0 and a failed malloc return NULL and leave nothing.           *)
Create(a, c) ==
  /\ ~live /\ c > 0
  /\ live' = TRUE /\ buffer' = a /\ capacity' = c /\ offset' = 0 /\ blocks' = {}

(* (mutant) the address is aligned downwards                               *)
AlignBackward(x) == x - (x % Align)

(* ALIGN_FORWARD: (x + align - 1) & ~(align - 1), on w bits.               *)
AlignForward(x) == LET y == (x + Align - 1) % Modulus IN y - (y % Align)

current_addr == (buffer + offset) % Modulus
aligned_addr == AlignForward(current_addr)
Padding == (aligned_addr - current_addr) % Modulus

Fits(size) == (offset + Padding + size) % Modulus <= capacity

Alloc(size) ==
  /\ live /\ size > 0 /\ Fits(size) /\ Cardinality(blocks) < MaxBlocks
  /\ offset' = (offset + Padding + size) % Modulus
  /\ blocks' = blocks \cup {[at |-> aligned_addr, size |-> size]}
  /\ UNCHANGED <<live, buffer, capacity>>

AllocNull(size) == live /\ (size = 0 \/ ~Fits(size)) /\ UNCHANGED vars

(* arena_reset                                                             *)
Reset ==
  /\ live /\ offset' = 0 /\ blocks' = {} /\ UNCHANGED <<live, buffer, capacity>>

Destroy ==
  /\ live /\ live' = FALSE /\ buffer' = 0 /\ capacity' = 0 /\ offset' = 0
  /\ blocks' = {}

Next ==
  \/ \E a \in Addresses, c \in Capacities : Create(a, c)
  \/ \E s \in Sizes : Alloc(s) \/ AllocNull(s)
  \/ Reset \/ Destroy

Spec == Init /\ [][Next]_vars

-----------------------------------------------------------------------------
Bytes(b) == b.at .. b.at + b.size - 1

(* Every block handed out since the last reset lies in the buffer, at an  *)
(* aligned address, and shares no byte with another: the padding is        *)
(* skipped whatever the alignment of the buffer itself, and a request that *)
(* does not fit is refused.  Only a request so large that the sum of       *)
(* offset, padding and size wraps is granted more than the arena has, and  *)
(* from then on nothing is said of the other blocks.                       *)
Oversized == {b \in blocks : b.size > capacity}
BlocksApart ==
  /\ \A b \in Oversized : b.at - buffer + b.size >= Modulus
  /\ Oversized = {} =>
       \A b \in blocks :
         /\ Bytes(b) \subseteq buffer .. buffer + capacity - 1
         /\ b.at % Align = 0
         /\ \A c \in blocks \ {b} : Bytes(b) \cap Bytes(c) = {}
=============================================================================

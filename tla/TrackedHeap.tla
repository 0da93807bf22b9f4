----------------------------- MODULE TrackedHeap -----------------------------
(***************************************************************************)
(* The tracking allocator of src/src/allocator.c, behind CDSA_MALLOC and   *)
(* its kin: it hides the size of a block in a word in front of it and      *)
(* keeps the sum of the sizes in cdsa_global_memory_used.  Sizes are       *)
(* size_t, modulo 2^w; the C allocator below it may fail at any call.      *)
(***************************************************************************)
EXTENDS Integers, FiniteSetsExt

CONSTANTS
  Modulus,        \* 2^w
  Word,           \* sizeof(size_t)
  Ids,            \* identities of the blocks malloc can return
  Sizes, Counts   \* sizes and element counts clients ask for

ASSUME TrackedHeapAssumption ==
  /\ Modulus \in Nat \ {0} /\ Word \in Nat /\ Word < Modulus
  /\ Sizes \subseteq 0 .. Modulus - 1 /\ Counts \subseteq 0 .. Modulus - 1
  /\ Modulus - Word \notin Sizes     \* realloc(p, 0) has no defined result

VARIABLES
  blocks,                     \* the blocks clients hold
  cdsa_global_memory_used

vars == <<blocks, cdsa_global_memory_used>>

(* length is what malloc gave, size the hidden word; asked is history: the *)
(* number of bytes the client believes it has.                             *)
Block == [length : 0 .. Modulus - 1, size : 0 .. Modulus - 1, asked : Nat]

Init == blocks = [b \in {} |-> 0] /\ cdsa_global_memory_used = 0

Size_t(n) == n % Modulus

(* malloc or realloc of size bytes and the hidden word                     *)
Tracked(size, asked) ==
  [length |-> Size_t(size + Word), size |-> size, asked |-> asked]

Holding(b, block) ==
  [c \in DOMAIN blocks \cup {b} |-> IF c = b THEN block ELSE blocks[c]]

Take(b, size, asked) ==
  /\ b \notin DOMAIN blocks
  /\ blocks' = Holding(b, Tracked(size, asked))
  /\ cdsa_global_memory_used' = Size_t(cdsa_global_memory_used + size)

(* cdsa_malloc_track, and cdsa_realloc_track of NULL                       *)
Malloc_track(b, size) == Take(b, size, size)

(* The product may wrap before malloc sees it.                             *)
Calloc_track(b, count, size) == Take(b, Size_t(count * size), count * size)

(* malloc returns NULL.                                                    *)
TrackOOM == UNCHANGED vars

(* (mutant) the counter loses the length of the block, word included       *)
GiveLength(b) ==
  /\ blocks' = [c \in DOMAIN blocks \ {b} |-> blocks[c]]
  /\ cdsa_global_memory_used'
       = Size_t(cdsa_global_memory_used - blocks[b].length)

Give(b) ==
  /\ blocks' = [c \in DOMAIN blocks \ {b} |-> blocks[c]]
  /\ cdsa_global_memory_used'
       = Size_t(cdsa_global_memory_used - blocks[b].size)

Free_track(b) == Give(b)

(* realloc to 0 bytes frees and returns NULL, like a failure.              *)
Realloc_trackZero(b) == Give(b)

Retracked(size) == Tracked(size, size)

Realloc_track(b, size) ==
  /\ size # 0
  /\ blocks' = [blocks EXCEPT ![b] = Retracked(size)]
  /\ cdsa_global_memory_used'
       = Size_t(cdsa_global_memory_used - blocks[b].size + size)

Next ==
  \/ \E b \in Ids, s \in Sizes :
       Malloc_track(b, s) \/ \E n \in Counts : Calloc_track(b, n, s)
  \/ \E b \in DOMAIN blocks :
       \/ Free_track(b) \/ Realloc_trackZero(b)
       \/ \E s \in Sizes : Realloc_track(b, s)
  \/ TrackOOM

Spec == Init /\ [][Next]_vars

-----------------------------------------------------------------------------
(* The counter is the sum of the hidden sizes of the blocks held, whatever *)
(* sequence of allocations, resizings, failures and frees led there: all   *)
(* of it returned is a counter of 0.  A block has room for its hidden word *)
(* and for every byte its client asked for, unless the size wrapped on the *)
(* way to malloc; calloc's product and the slab of a kpool are such sizes. *)
Total == MapThenSumSet(LAMBDA b : blocks[b].size, DOMAIN blocks)
TelemetryExact ==
  /\ blocks \in [DOMAIN blocks -> Block]
  /\ cdsa_global_memory_used = Size_t(Total)
  /\ \A b \in DOMAIN blocks :
       blocks[b].asked + Word < Modulus => blocks[b].length >= blocks[b].asked + Word
=============================================================================

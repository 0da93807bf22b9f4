------------------------------- MODULE KString -------------------------------
(***************************************************************************)
(* The growing string of src/src/kstring.c.  The bytes that realloc really *)
(* gave are kept apart from str->capacity, which append_kstring doubles    *)
(* before it knows whether realloc succeeds.                               *)
(***************************************************************************)
EXTENDS Integers, Sequences

CONSTANTS
  Texts, Nul, Junk,      \* what a client appends; '\0'; unwritten memory
  INITIAL_CAPACITY,
  MaxCapacity            \* bound: capacity is not doubled beyond it

VARIABLES
  live,
  data, size, capacity,  \* struct cdsa_kstring; data is the block, as long
                         \* as the memory it was given
  text,                  \* history: what was appended since the last clear
  failed, overrun        \* history: the last realloc failed; a byte outside
                         \* the block has been written

vars == <<live, data, size, capacity, text, failed, overrun>>

Init ==
  /\ live = FALSE /\ data = <<>> /\ size = 0 /\ capacity = 0 /\ text = <<>>
  /\ failed = FALSE /\ overrun = FALSE

Create ==
  /\ ~live /\ live' = TRUE
  /\ size' = 0 /\ capacity' = INITIAL_CAPACITY
  /\ data' = [i \in 1 .. INITIAL_CAPACITY |-> IF i = 1 THEN Nul ELSE Junk]
  /\ text' = <<>> /\ UNCHANGED <<failed, overrun>>

(* The memory behind the string is intact; what calls do once it is not is *)
(* not followed.                                                           *)
Called == live /\ ~overrun

Free ==
  /\ Called /\ live' = FALSE /\ data' = <<>> /\ size' = 0 /\ capacity' = 0
  /\ text' = <<>> /\ failed' = FALSE /\ UNCHANGED overrun

Clear ==
  /\ Called
  /\ size' = 0 /\ data' = [data EXCEPT ![1] = Nul] /\ text' = <<>>
  /\ UNCHANGED <<live, capacity, failed, overrun>>

required_space(t) == size + Len(t) + 1

(* Where the doubling loop ends, if within the bound.                      *)
Doubled(n) == {c \in capacity .. MaxCapacity :
                 /\ c >= n /\ c < 2 * n
                 /\ \E k \in 1 .. MaxCapacity : c = capacity * 2 ^ k}

(* memcpy and the terminator, into a block of n bytes that starts with the *)
(* bytes of the old one.                                                   *)
Store(t, n) ==
  /\ data' = [i \in 1 .. n |->
                IF i > size /\ i <= size + Len(t) THEN t[i - size]
                ELSE IF i = required_space(t) THEN Nul
                ELSE IF i <= Len(data) THEN data[i] ELSE Junk]
  /\ overrun' = (required_space(t) > n)
  /\ size' = size + Len(t) /\ text' = text \o t /\ UNCHANGED live

AppendFits(t) ==
  /\ Called /\ required_space(t) <= capacity
  /\ Store(t, Len(data)) /\ UNCHANGED <<capacity, failed>>

AppendGrows(t) ==
  /\ Called /\ required_space(t) > capacity
  /\ capacity' \in Doubled(required_space(t)) /\ failed' = FALSE
  /\ Store(t, capacity')

(* realloc returns NULL, and capacity stays doubled.                       *)
AppendOOM(t) ==
  /\ Called /\ required_space(t) > capacity
  /\ capacity' \in Doubled(required_space(t)) /\ failed' = TRUE
  /\ UNCHANGED <<live, data, size, text, overrun>>

-----------------------------------------------------------------------------
(* c_str_kstring points at what was appended since the last clear and a    *)
(* terminator after it, at no stale byte, whichever reallocations failed;  *)
(* only after a failure is capacity more than the block has, and only then *)
(* can an append run past the block.                                       *)
StringExact ==
  /\ live /\ ~overrun =>
       size < Len(data) /\ SubSeq(data, 1, size + 1) = Append(text, Nul)
  /\ ~failed => capacity = Len(data) /\ ~overrun
=============================================================================

------------------------------ MODULE BlockPool ------------------------------
(***************************************************************************)
(* What a slab allocator promises: a block it hands out is held by nobody  *)
(* else, and it has none to hand out only when all of them are held.       *)
(***************************************************************************)
EXTENDS Integers

CONSTANT Null

VARIABLES total,     \* how many blocks the pool has
          held,      \* the blocks its clients hold
          got        \* the block the last allocation returned, or Null

vars == <<total, held, got>>

Init == total = 0 /\ held = {} /\ got = Null

Blocks == 0 .. total - 1

Create == total = 0 /\ total' \in Nat \ {0} /\ held' = {} /\ got' = Null
Destroy == total' = 0 /\ held' = {} /\ got' = Null

Alloc(b) ==
  /\ b \in Blocks \ held
  /\ held' = held \cup {b} /\ got' = b /\ UNCHANGED total

Exhausted == held = Blocks /\ got' = Null /\ UNCHANGED <<total, held>>

Free(b) ==
  /\ b \in held
  /\ held' = held \ {b} /\ got' = Null /\ UNCHANGED total

Next == \/ Create \/ Destroy \/ Exhausted
        \/ \E b \in Blocks : Alloc(b) \/ Free(b)

Spec == Init /\ [][Next]_vars
=============================================================================

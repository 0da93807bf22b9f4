--------------------------------- MODULE Lifo --------------------------------
(***************************************************************************)
(* What the linked list promises: a sequence that grows and shrinks at its *)
(* front, and is emptied as a whole.                                       *)
(***************************************************************************)
EXTENDS Sequences

CONSTANT Elems

VARIABLES items,     \* front first
          status     \* of the last call that returns one

vars == <<items, status>>

Init == items = <<>> /\ status = "CDSA_OK"

Ok == status' = "CDSA_OK"

Push(e) == items' = <<e>> \o items /\ Ok
Pop == items # <<>> /\ items' = Tail(items) /\ Ok
PopEmpty == items = <<>> /\ status' = "CDSA_ERR_EMPTY" /\ UNCHANGED items

(* Clearing and teardown return nothing.                                   *)
Clear == items' = <<>> /\ UNCHANGED status

Make == items = <<>> /\ Ok /\ UNCHANGED items
OutOfMemory == status' = "CDSA_ERR_OOM" /\ UNCHANGED items

Next == (\E e \in Elems : Push(e)) \/ Pop \/ PopEmpty \/ Clear \/ Make
        \/ OutOfMemory

Spec == Init /\ [][Next]_vars
=============================================================================

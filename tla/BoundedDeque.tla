---------------------------- MODULE BoundedDeque -----------------------------
(***************************************************************************)
(* What the ring buffer promises: a double-ended sequence of at most room  *)
(* elements, which refuses a push when it is full and a pop when empty,    *)
(* and lets its client look at both ends.                                  *)
(***************************************************************************)
EXTENDS Integers, Sequences

CONSTANT Elems

VARIABLES q,        \* the elements, front first
          ends,     \* what a client sees at the front and at the back
          room,     \* the capacity given at creation
          status    \* status code of the last call

vars == <<q, ends, room, status>>

EndsOf(s) == IF s = <<>> THEN <<>> ELSE <<s[1], s[Len(s)]>>

Init == q = <<>> /\ ends = <<>> /\ room = 0 /\ status = "CDSA_OK"

Ok == status' = "CDSA_OK"

(* Creation and teardown.                                                  *)
Reset ==
  /\ q' = <<>> /\ room' \in Nat /\ Ok

PushBack(e) ==
  /\ Len(q) < room
  /\ q' = Append(q, e) /\ Ok /\ UNCHANGED room

PushFront(e) ==
  /\ Len(q) < room
  /\ q' = <<e>> \o q /\ Ok /\ UNCHANGED room

PopFront ==
  /\ q # <<>>
  /\ q' = Tail(q) /\ Ok /\ UNCHANGED room

PopBack ==
  /\ q # <<>>
  /\ q' = SubSeq(q, 1, Len(q) - 1) /\ Ok /\ UNCHANGED room

RefuseFull == Len(q) = room /\ status' = "CDSA_ERR_FULL" /\ UNCHANGED <<q, room>>

RefuseEmpty == q = <<>> /\ status' = "CDSA_ERR_EMPTY" /\ UNCHANGED <<q, room>>

(* Iterator calls and failed allocations.                                  *)
Read ==
  /\ status' \in {"CDSA_OK", "CDSA_ERR_OOM", "CDSA_ERR_NOT_FOUND",
                  "CDSA_ERR_ITER_INVALIDATED"}
  /\ UNCHANGED <<q, room>>

Next ==
  /\ \/ \E e \in Elems : PushBack(e) \/ PushFront(e)
     \/ Reset \/ PopFront \/ PopBack \/ RefuseFull \/ RefuseEmpty \/ Read
  /\ ends' = EndsOf(q')

Spec == Init /\ [][Next]_vars
=============================================================================

-------------------------------- MODULE Stack --------------------------------
(***************************************************************************)
(* src/src/stack.c: the vector used from its back end.  The variable stack *)
(* is the sequence the client has in mind, and the vector below it is      *)
(* compared with it.  A client of the vector itself also writes elements   *)
(* in place and walks it; stack.c forwards neither.                        *)
(***************************************************************************)
EXTENDS Vector

VARIABLE stack

svars == <<vars, stack>>

Push_stack(e) == Push(e) /\ stack' = Append(stack, e)
Pop_stack == Pop /\ stack' = SubSeq(stack, 1, Len(stack) - 1)
Clear_stack == Clear /\ stack' = <<>>
Free_stack == Free /\ stack' = <<>>
Unmoved == (Create \/ CreateOOM \/ PushOOM \/ PopEmpty) /\ UNCHANGED stack

PushOwnCall(i) == PushOwn(i) /\ stack' = Append(stack, stack[i + 1])
SetCall(i, e) == Set(i, e) /\ stack' = [stack EXCEPT ![i + 1] = e]
WalkVector == IterCall /\ UNCHANGED stack

SInit == Init /\ stack = <<>>
SNext == \/ \E e \in Elems : Push_stack(e)
         \/ Pop_stack \/ Clear_stack \/ Free_stack \/ Unmoved
         \/ \E i \in 0 .. size - 1 :
              PushOwnCall(i) \/ \E e \in Elems : SetCall(i, e)
         \/ WalkVector
SSpec == SInit /\ [][SNext]_svars

(* The slots of the vector are the client's stack, bottom first, whatever  *)
(* was popped, cleared and overwritten before; after a write outside the   *)
(* block, or the push of an own element that moved it, a slot is right or  *)
(* lost, never another element's.                                          *)
LastInFirstOut ==
  /\ size = Len(stack)
  /\ \A n \in 1 .. size :
       \/ At(n - 1) = stack[n]
       \/ (overrun \/ dangled) /\ At(n - 1) = Junk
=============================================================================

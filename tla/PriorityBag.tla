----------------------------- MODULE PriorityBag -----------------------------
(***************************************************************************)
(* What a priority queue promises: it keeps a bag of elements, and a pop   *)
(* hands out one of highest priority.  ordered says that the promise about *)
(* the order still stands; a sift that found no memory breaks it until the *)
(* queue is emptied.                                                       *)
(***************************************************************************)
EXTENDS Integers

CONSTANTS Elems, Rank

VARIABLES bag,       \* how many copies of each element the queue holds
          out,       \* the element the last pop handed out
          ordered

vars == <<bag, out, ordered>>

Empty == [e \in Elems |-> 0]
Init == bag = Empty /\ ordered = TRUE /\ out \notin Elems

Highest(e) == \A f \in Elems : bag[f] > 0 => Rank[f] <= Rank[e]

Push(e) ==
  /\ bag' = [bag EXCEPT ![e] = @ + 1]
  /\ UNCHANGED <<out, ordered>>

Pop(e) ==
  /\ bag[e] > 0 /\ (ordered => Highest(e))
  /\ out' = e
  /\ bag' = [bag EXCEPT ![e] = @ - 1]
  /\ ordered' = (ordered \/ bag' = Empty)

Clear == bag' = Empty /\ ordered' = TRUE /\ UNCHANGED out

(* A sift finds no memory.                                                 *)
Degrade == ordered' = FALSE /\ UNCHANGED <<bag, out>>

Next == \/ \E e \in Elems : Push(e) \/ Pop(e)
        \/ Clear \/ Degrade

Spec == Init /\ [][Next]_vars
=============================================================================

------------------------------ MODULE SortedBag ------------------------------
(***************************************************************************)
(* What the skip list promises: a bag of (score, value) items in which     *)
(* duplicates count.  sound says that every item stored can be compared:   *)
(* after a NaN score was stored, a removal may fail to find an item.       *)
(***************************************************************************)
EXTENDS Integers

CONSTANTS Items, NaNs, Null

VARIABLES bag,       \* how many copies of each item the list holds
          status,    \* status code of the last call
          arg        \* the item the last call was about, or Null

vars == <<bag, status, arg>>

Empty == [x \in Items |-> 0]
Sound == \A x \in NaNs : bag[x] = 0

Init == bag = Empty /\ arg = Null /\ status = "CDSA_OK"

Insert(x) ==
  /\ bag' = [bag EXCEPT ![x] = @ + 1] /\ arg' = x /\ status' = "CDSA_OK"

Remove(x) ==
  /\ bag[x] > 0 /\ x \notin NaNs
  /\ bag' = [bag EXCEPT ![x] = @ - 1] /\ arg' = x /\ status' = "CDSA_OK"

RemoveMiss(x) ==
  /\ Sound => bag[x] = 0
  /\ arg' = x /\ status' = "CDSA_ERR_NOT_FOUND" /\ UNCHANGED bag

Clear == bag' = Empty /\ arg' = Null /\ status' = "CDSA_OK"

OutOfMemory == arg' = Null /\ status' = "CDSA_ERR_OOM" /\ UNCHANGED bag

Next == \/ \E x \in Items : Insert(x) \/ Remove(x) \/ RemoveMiss(x)
        \/ Clear \/ OutOfMemory

Spec == Init /\ [][Next]_vars
=============================================================================

----------------------------- MODULE MCSkipList ------------------------------
(***************************************************************************)
(* Small instances of SkipList for TLC: two items with one score, told     *)
(* apart by their text, one with a higher score and one whose score is NaN *)
(* (its rank in Score is never used).                                      *)
(***************************************************************************)
EXTENDS SkipList, TLC

CONSTANTS a, b, c, nan

TwoScores == a :> 1 @@ b :> 1 @@ c :> 2 @@ nan :> 0
TwoTexts  == a :> 1 @@ b :> 2 @@ c :> 1 @@ nan :> 1

IdSymmetry == Permutations(Ids)
=============================================================================

------------------------------ MODULE MCHashMap ------------------------------
(***************************************************************************)
(* Small instances of HashMap for TLC: which keys collide is the interest- *)
(* ing parameter, so each hash function below makes one pattern happen.    *)
(***************************************************************************)
EXTENDS HashMap, TLC

CONSTANTS k1, k2, k3, k4

(* Two keys with one home and one next to it.                              *)
HashPair == k1 :> 1 @@ k2 :> 1 @@ k3 :> 2

(* Three keys with one home, the fourth two slots further: the chain of    *)
(* the three meets the fourth at its home.                                 *)
HashCluster == k1 :> 4 @@ k2 :> 4 @@ k3 :> 6 @@ k4 :> 4
=============================================================================

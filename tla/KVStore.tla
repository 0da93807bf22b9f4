------------------------------- MODULE KVStore -------------------------------
(***************************************************************************)
(* What a map container of the library promises its client: a partial      *)
(* function from keys to values that only an insertion, a removal or the   *)
(* teardown changes, and the status code of the last call.  HashMap and    *)
(* ArtTree are shown to implement this specification.                      *)
(***************************************************************************)
CONSTANTS Keys, Values, NoValue

VARIABLES kv,       \* the value bound to each key, NoValue when unbound
          status,   \* the status code of the last call
          busy      \* a call has taken effect and has not returned

Init ==
  /\ kv = [k \in Keys |-> NoValue]
  /\ status = "CDSA_OK"
  /\ busy = FALSE

(* A call takes effect when it begins, and may return later.               *)
Begin == ~busy /\ busy' \in BOOLEAN

Put(k, v) ==
  /\ Begin
  /\ kv' = [kv EXCEPT ![k] = v]
  /\ status' = "CDSA_OK"

Delete(k) ==
  /\ Begin
  /\ kv[k] # NoValue
  /\ kv' = [kv EXCEPT ![k] = NoValue]
  /\ status' = "CDSA_OK"

Clear ==
  /\ Begin
  /\ kv' = [k \in Keys |-> NoValue]
  /\ status' = "CDSA_OK"

(* A call that changes no binding: every failing call, a resize, an        *)
(* iterator call, or the removal that finds nothing.                       *)
Keep ==
  /\ Begin
  /\ status' \in {"CDSA_OK", "CDSA_ERR_OOM", "CDSA_ERR_NOT_FOUND",
                  "CDSA_ERR_ITER_INVALIDATED"}
  /\ UNCHANGED kv

Return ==
  /\ busy /\ busy' = FALSE
  /\ UNCHANGED <<kv, status>>

Next ==
  \/ \E k \in Keys, v \in Values : Put(k, v)
  \/ \E k \in Keys : Delete(k)
  \/ Clear \/ Keep \/ Return

Spec == Init /\ [][Next]_<<kv, status, busy>>
=============================================================================

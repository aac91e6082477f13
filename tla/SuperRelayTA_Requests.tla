------------------------- MODULE SuperRelayTA_Requests -------------------------
(***************************************************************************)
(* SuperRelayTA with a history variable that records the arguments of the *)
(* last generate_key invocation: the key_id buffer and key type the caller *)
(* put in params[0] and params[1].  The variable is written, never read,   *)
(* by the steps, so the behaviours of SuperRelayTA are unchanged; it lets  *)
(* a property relate a command's result to the request it answered.       *)
(***************************************************************************)
EXTENDS SuperRelayTA

VARIABLE request     \* {} or {[key_id, key_type]}: the step's request

rvars == <<vars, request>>

RInit == Init /\ request = {}

(* A generate_key invocation with buffer a and type kt is a step of       *)
(* TA_InvokeCommandEntryPoint that is a step of GenerateKey(a, kt).        *)
GenerateRequest ==
    \E a \in IdArgs, kt \in 0..KEY_TYPE_MAX :
        /\ GenerateKey(a, kt)
        /\ TA_InvokeCommandEntryPoint
        /\ request' = {[key_id |-> a, key_type |-> kt]}

RNext ==
    \/ GenerateRequest
    \/ Next /\ request' = {}

RSpec == RInit /\ [][RNext]_rvars

\* the key ids of the committed keys
CommittedIds == {g_key_storage[i].info.key_id : i \in LiveSlots}

(* A generate_key of a key_id that is already in the store fails with     *)
(* KEY_ALREADY_EXISTS and nothing else (spec section 9: "generate with a   *)
(* key_id already present fails with AlreadyExists"; section 4: insert     *)
(* fails with AlreadyExists if find succeeds), unless the request itself   *)
(* is malformed.  The capacity test of cmd_generate_key (c:233) runs       *)
(* before the duplicate scan.                                              *)
ExistingIdRejectedStep ==
    \A r \in request' :
        /\ ValidKeyIdLen(r.key_id)
        /\ r.key_type < KEY_TYPE_MAX
        /\ LookupKeyId(r.key_id) \in CommittedIds
        => lastRet' \in {"KEY_ALREADY_EXISTS", "BAD_PARAMETERS"}
ExistingIdRejected == [][ExistingIdRejectedStep]_rvars

=============================================================================

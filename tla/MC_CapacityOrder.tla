-------------------------- MODULE MC_CapacityOrder --------------------------
(* Model-checking instance of SuperRelayTA_Requests: generate_key requests *)
(* from a client that NUL-terminates its key_id buffers.                   *)
EXTENDS SuperRelayTA_Requests, MC_SuperRelayTA

=============================================================================

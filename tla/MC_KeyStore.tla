---------------------------- MODULE MC_KeyStore ----------------------------
(* Model-checking instance of the refinement of KeyStore by SuperRelayTA. *)
EXTENDS SuperRelayTA_KeyStore, MC_SuperRelayTA

=============================================================================

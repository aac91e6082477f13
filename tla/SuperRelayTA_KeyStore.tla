------------------------ MODULE SuperRelayTA_KeyStore ------------------------
(***************************************************************************)
(* The TA seen as the key store of KeyStore.tla.  The abstract records     *)
(* are read off the committed slots of g_key_storage: a slot's key_id, the *)
(* keypair whose private value it holds and its usage_count; the key       *)
(* material the last command handed out is the part of lastOut that is a  *)
(* signature or a public key.                                              *)
(***************************************************************************)
EXTENDS SuperRelayTA

(* A buffer is terminated when strncmp and strncpy read the same key_id    *)
(* from it: its NUL lies within memref.size.  The key store's promise of   *)
(* one record per key_id rests on this; without it find_key_index compares *)
(* the bytes past size that strncpy never stored (finding duplicate_ids).  *)
Terminated(a) == LookupKeyId(a) = StoredKeyId(a)

ASSUME TerminatedAssumption == \A a \in IdArgs : Terminated(a)

\* the abstract store: one record per committed slot, with the slot's
\* key_id, the keypair whose private value it holds and its usage_count
StoreView ==
    {[id |-> g_key_storage[i].info.key_id,
      pair |-> g_key_storage[i].priv.sk,
      uses |-> g_key_storage[i].info.usage_count] : i \in LiveSlots}

\* signatures and public keys among the values written to the caller
KeyMaterialOut ==
    lastOut \cap (Signatures \cup Publics)

\* the entry point returned an error code
Failed == lastRet \notin {"TEE_SUCCESS", "NONE"}

KS == INSTANCE KeyStore WITH
        KeyIds <- KeyIdValues, Pairs <- KeyPairs, Capacity <- MaxKeys,
        Signature <- SignatureBy, PublicKey <- PublicOf,
        up <- alive, keys <- StoreView, out <- KeyMaterialOut,
        failed <- Failed

(* The TA implements the key store of the spec: every step of every entry  *)
(* point is a step of KeyStore (a generate of a fresh key_id below         *)
(* capacity, a sign or public-key fetch of the key find_key_index finds,   *)
(* a teardown or start that empties the store, or a step that changes no   *)
(* key and hands out no key material) or leaves its state unchanged; and   *)
(* only a step of the last kind may return an error.                       *)
KeyStoreRefined == KS!KSSpec

=============================================================================

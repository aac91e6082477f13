--------------------- MODULE SuperRelayTA_KeyStore_proofs ---------------------
(***************************************************************************)
(* Proof that SuperRelayTA implements KeyStore under the refinement        *)
(* mapping of SuperRelayTA_KeyStore, for every value of the constants and  *)
(* every set of terminated key_id buffers.                                 *)
(*                                                                         *)
(* Every command of a live instance is one of four kinds of step on the    *)
(* committed slots (InvokeKinds): a quiet one that changes none of them    *)
(* and hands out no key material, the commit of a generate, a successful   *)
(* sign that touches one slot, and a get_public_key.  Each maps to the     *)
(* matching KeyStore step.  A sign maps to a step of KeyStore only because *)
(* no two committed slots share a key_id (KeyIdsUnique): otherwise the     *)
(* touched slot's old record could still be in the store through its twin. *)
(* KeyIdsUnique is itself an invariant because a generate commits only a   *)
(* key_id that find_key_index did not find, and for a terminated buffer    *)
(* that is the key_id strncpy stores.                                      *)
(***************************************************************************)
EXTENDS SuperRelayTA_KeyStore, SuperRelayTA_proofs, FiniteSetTheorems

USE BoundsAssumption

\* the abstract record of slot i
Rec(i) ==
    [id |-> g_key_storage[i].info.key_id,
     pair |-> g_key_storage[i].priv.sk,
     uses |-> g_key_storage[i].info.usage_count]

-----------------------------------------------------------------------------
(* KeyIdsUnique.                                                           *)

(* A generate commits the key_id strncpy stored, which for a terminated   *)
(* buffer is the key_id find_key_index looked for and did not find.        *)
LEMMA FreshKeyId ==
  ASSUME NEW a \in IdArgs, NoMatch(a), NEW j \in 1..g_key_count
  PROVE  g_key_storage[j].info.key_id # StoredKeyId(a)
  BY TerminatedAssumption DEF NoMatch, KeyIdMatches, Terminated

LEMMA StepUnique ==
  ASSUME IInv, KeyIdsUnique, [Next]_vars
  PROVE  KeyIdsUnique'
  <1>1. CASE TA_InvokeCommandEntryPoint
    <2>1. /\ alive /\ alive' = alive /\ Core
          /\ \/ QuietStep
             \/ \E a \in IdArgs, k \in KeyPairs : GenStep(a, k)
             \/ \E i \in 1..g_key_count : SignStep(i) \/ PubStep(i)
      BY <1>1, InvokeKinds
    <2>2. LiveSlots = 1..g_key_count /\ LiveSlots' = 1..g_key_count'
      BY <2>1 DEF LiveSlots
    <2>3. \A i, j \in 1..g_key_count :
             i # j => g_key_storage[i].info.key_id # g_key_storage[j].info.key_id
      BY <2>2 DEF KeyIdsUnique
    <2>4. g_key_count \in Nat /\ now \in Nat
      BY <2>1, LiveCore DEF Core
    <2>5. CASE QuietStep \/ \E i \in 1..g_key_count : PubStep(i)
      <3>1. g_key_count' = g_key_count /\ Unchanged(g_key_count)
        BY <2>5 DEF QuietStep, PubStep, Unchanged
      <3>2. QED
        BY <2>2, <2>3, <3>1 DEF Unchanged, KeyIdsUnique
    <2>6. CASE \E i \in 1..g_key_count : SignStep(i)
      <3>1. PICK i \in 1..g_key_count : SignStep(i)
        BY <2>6
      <3>2. \A j \in 1..g_key_count :
               g_key_storage'[j].info.key_id = g_key_storage[j].info.key_id
        <4>1. i \in Slots /\ g_key_storage \in [Slots -> Entry]
          BY <2>1 DEF Core, Slots
        <4>2. Touched(i).info.key_id = g_key_storage[i].info.key_id
          BY <2>4, <4>1, TouchedRecord DEF Touched
        <4>3. QED
          BY <3>1, <4>1, <4>2 DEF SignStep, Core, Slots
      <3>3. QED
        BY <2>2, <2>3, <3>1, <3>2 DEF SignStep, KeyIdsUnique
    <2>7. CASE \E a \in IdArgs, k \in KeyPairs : GenStep(a, k)
      <3>1. PICK a \in IdArgs, k \in KeyPairs : GenStep(a, k)
        BY <2>7
      <3>2. \A j \in 1..g_key_count :
               g_key_storage'[g_key_count + 1].info.key_id
                 # g_key_storage'[j].info.key_id
        BY <3>1, FreshKeyId DEF GenStep, Unchanged
      <3>3. \A i, j \in 1..g_key_count :
               i # j => g_key_storage'[i].info.key_id
                          # g_key_storage'[j].info.key_id
        BY <2>3, <3>1 DEF GenStep, Unchanged
      <3>4. 1..g_key_count' = (1..g_key_count) \cup {g_key_count + 1}
        BY <2>4, <3>1 DEF GenStep
      <3>5. QED
        BY <2>2, <2>4, <3>2, <3>3, <3>4 DEF KeyIdsUnique
    <2>8. QED
      BY <2>1, <2>5, <2>6, <2>7
  <1>2. CASE TA_CreateEntryPoint \/ TA_DestroyEntryPoint
    <2>1. LiveSlots' = {}
      BY <1>2 DEF TA_CreateEntryPoint, TA_DestroyEntryPoint, LiveSlots
    <2>2. QED
      BY <2>1 DEF KeyIdsUnique
  <1>3. CASE \/ TA_OpenSessionEntryPoint \/ TA_CloseSessionEntryPoint
             \/ Tick \/ UNCHANGED vars
    <2>1. UNCHANGED <<alive, g_key_storage, g_key_count>>
      BY <1>3 DEF TA_OpenSessionEntryPoint, TA_CloseSessionEntryPoint,
         Tick, vars
    <2>2. QED
      BY <2>1 DEF KeyIdsUnique, LiveSlots
  <1>4. QED
    BY <1>1, <1>2, <1>3 DEF Next

(* No two committed keys share a key_id when every caller passes a        *)
(* terminated buffer: cmd_generate_key commits a key_id only after         *)
(* find_key_index did not find it (c:236-246), and a sign never changes a  *)
(* key_id, for every value of the constants.                              *)
THEOREM KeyIdsUniqueInvariant == Spec => []KeyIdsUnique
  <1>1. Init => KeyIdsUnique
    BY DEF Init, KeyIdsUnique, LiveSlots
  <1>2. QED
    BY <1>1, StepUnique, IInvInvariant, PTL DEF Spec

-----------------------------------------------------------------------------
(* The refinement.                                                         *)

LEMMA StoreViewLive ==
  /\ alive => StoreView = {Rec(i) : i \in 1..g_key_count}
  /\ alive' => StoreView' = {Rec(i)' : i \in 1..g_key_count'}
  BY DEF StoreView, LiveSlots, Rec

(* The store never holds more records than there are committed slots.     *)
LEMMA StoreViewBound ==
  ASSUME alive, g_key_count \in Nat
  PROVE  /\ IsFiniteSet(StoreView)
         /\ Cardinality(StoreView) <= g_key_count
  <1> DEFINE f == [i \in 1..g_key_count |-> Rec(i)]
  <1>1. f \in Surjection(1..g_key_count, StoreView)
    BY StoreViewLive DEF Surjection
  <1>2. IsFiniteSet(1..g_key_count) /\ Cardinality(1..g_key_count) = g_key_count
    BY FS_Interval
  <1>3. QED
    BY <1>1, <1>2, FS_Surjection

(* A quiet command is a Quiet step of the key store.                       *)
LEMMA QuietRefines ==
  ASSUME alive, alive' = alive, QuietStep
  PROVE  KS!Quiet
  <1>1. StoreView' = StoreView
    BY StoreViewLive DEF QuietStep, Unchanged, Rec
  <1>2. KeyMaterialOut' = {}
    BY DEF QuietStep, KeyMaterialOut, KeyMaterial
  <1>3. Failed' \in BOOLEAN
    BY DEF Failed
  <1>4. QED
    BY <1>1, <1>2, <1>3 DEF KS!Quiet

(* A committed generate is a Generate of a fresh key_id below capacity.   *)
LEMMA GenRefines ==
  ASSUME Core, alive, alive' = alive, NEW a \in IdArgs, NEW k \in KeyPairs,
         GenStep(a, k)
  PROVE  KS!Generate(StoredKeyId(a), k)
  <1> DEFINE new == [id |-> StoredKeyId(a), pair |-> k, uses |-> 0]
  <1>1. g_key_count \in Nat /\ g_key_count < MaxKeys
    BY DEF Core, GenStep, StoreFull
  <1>2. StoredKeyId(a) \notin KS!Ids
    <2>1. \A j \in 1..g_key_count : Rec(j).id # StoredKeyId(a)
      BY FreshKeyId DEF GenStep, Rec
    <2>2. QED
      BY <2>1, StoreViewLive DEF KS!Ids
  <1>3. Cardinality(StoreView) < MaxKeys
    <2>1. IsFiniteSet(StoreView) /\ Cardinality(StoreView) <= g_key_count
      BY <1>1, StoreViewBound
    <2>2. Cardinality(StoreView) \in Nat
      BY <2>1, FS_CardinalityType
    <2>3. QED
      BY <1>1, <2>1, <2>2
  <1>4. \A j \in {g_key_count + 1} : Rec(j)' = new
    BY DEF GenStep, Rec, SecretOf, new
  <1>5. \A j \in 1..g_key_count : Rec(j)' = Rec(j)
    BY DEF GenStep, Unchanged, Rec
  <1>6. 1..g_key_count' = (1..g_key_count) \cup {g_key_count + 1}
    BY <1>1 DEF GenStep
  <1>7. StoreView' = StoreView \cup {new}
    <2>1. StoreView = {Rec(j) : j \in 1..g_key_count}
      BY StoreViewLive
    <2>2. StoreView' = {Rec(j)' : j \in 1..g_key_count'}
      BY StoreViewLive
    <2>3. StoreView' = {Rec(j)' : j \in (1..g_key_count) \cup {g_key_count + 1}}
      BY <1>6, <2>2
    <2>4. QED
      BY <1>4, <1>5, <2>1, <2>3
  <1>8. KeyMaterialOut' = {}
    BY DEF GenStep, KeyMaterialOut, KeyMaterial
  <1>9. KS!Cardinality(StoreView) = Cardinality(StoreView)
    BY DEF KS!Cardinality, Cardinality
  <1>10. ~Failed'
    BY DEF GenStep, Failed
  <1>11. QED
    BY <1>2, <1>3, <1>7, <1>8, <1>9, <1>10 DEF KS!Generate, new

(* A successful sign is a Sign of the record of the slot it touched: the  *)
(* other records are those of other key_ids, so only this one changes.     *)
LEMMA SignRefines ==
  ASSUME Core, now \in Nat, alive, alive' = alive, KeyIdsUnique,
         NEW i \in 1..g_key_count, SignStep(i)
  PROVE  KS!Sign(Rec(i))
  <1> DEFINE r == Rec(i)
             r1 == [r EXCEPT !.uses = @ + 1]
  <1>1. i \in Slots /\ g_key_storage \in [Slots -> Entry] /\ g_key_count \in Nat
    BY DEF Core, Slots
  <1>2. Rec(i)' = r1
    <2>1. /\ Touched(i).info.key_id = g_key_storage[i].info.key_id
          /\ Touched(i).priv = g_key_storage[i].priv
          /\ Touched(i).info.usage_count = g_key_storage[i].info.usage_count + 1
      BY <1>1, TouchedRecord DEF Touched
    <2>2. g_key_storage'[i] = Touched(i)
      BY <1>1 DEF SignStep
    <2>3. QED
      BY <2>1, <2>2 DEF Rec, r1, r
  <1>3. \A j \in 1..g_key_count : j # i => Rec(j)' = Rec(j)
    BY <1>1 DEF SignStep, Rec, Core, Slots
  <1>4. \A j \in 1..g_key_count : j # i => Rec(j) # r
    BY LiveSlotsLive DEF KeyIdsUnique, Rec, r
  <1>5. StoreView = {Rec(j) : j \in 1..g_key_count}
        /\ StoreView' = {Rec(j)' : j \in 1..g_key_count}
    BY StoreViewLive DEF SignStep
  <1>6. StoreView' = (StoreView \ {r}) \cup {r1}
    <2>1. StoreView \ {r} = {Rec(j) : j \in (1..g_key_count) \ {i}}
      BY <1>4, <1>5
    <2>2. StoreView' = {Rec(j)' : j \in (1..g_key_count) \ {i}} \cup {r1}
      BY <1>2, <1>5
    <2>3. QED
      BY <1>3, <2>1, <2>2
  <1>7. r \in StoreView
    BY <1>5
  <1>8. KeyMaterialOut' = {SignatureBy(r.pair)}
    <2>1. g_key_storage[i].priv.sk \in KeyPairs
      <3>1. Complete(i)
        BY DEF Core
      <3>2. QED
        BY <3>1 DEF Complete, SecretOf
    <2>2. QED
      BY <2>1 DEF SignStep, KeyMaterialOut, Signatures, Rec, r
  <1>9. ~Failed'
    BY DEF SignStep, Failed
  <1>10. QED
    BY <1>6, <1>7, <1>8, <1>9 DEF KS!Sign

(* A get_public_key is a GetPublicKey of the record of the slot found.    *)
LEMMA PubRefines ==
  ASSUME alive, alive' = alive, NEW i \in 1..g_key_count, PubStep(i)
  PROVE  KS!GetPublicKey(Rec(i))
  <1>1. Rec(i) \in StoreView /\ StoreView' = StoreView
    BY StoreViewLive DEF PubStep, Rec
  <1>2. KeyMaterialOut' = {PublicOf(Rec(i).pair)}
    BY DEF PubStep, KeyMaterialOut, KeyMaterial, Rec
  <1>3. ~Failed'
    BY DEF PubStep, Failed
  <1>4. QED
    BY <1>1, <1>2, <1>3 DEF KS!GetPublicKey

(* Every step of the TA is a step of the key store or leaves its state,   *)
(* the records and the key material handed out, unchanged.                 *)
LEMMA StepRefines ==
  IInv /\ KeyIdsUnique /\ [Next]_vars => [KS!KSNext]_KS!ksvars
  <1> SUFFICES ASSUME IInv, KeyIdsUnique, [Next]_vars
               PROVE  [KS!KSNext]_KS!ksvars
    OBVIOUS
  <1>1. CASE TA_InvokeCommandEntryPoint
    <2>1. /\ alive /\ alive' = alive /\ Core
          /\ \/ QuietStep
             \/ \E a \in IdArgs, k \in KeyPairs : GenStep(a, k)
             \/ \E i \in 1..g_key_count : SignStep(i) \/ PubStep(i)
      BY <1>1, InvokeKinds
    <2>2. now \in Nat
      BY <2>1, LiveCore
    <2>3. CASE QuietStep
      BY <2>1, <2>3, QuietRefines DEF KS!KSNext
    <2>4. CASE \E a \in IdArgs, k \in KeyPairs : GenStep(a, k)
      <3>1. PICK a \in IdArgs, k \in KeyPairs : GenStep(a, k)
        BY <2>4
      <3>2. KS!Generate(StoredKeyId(a), k)
        BY <2>1, <3>1, GenRefines
      <3>3. StoredKeyId(a) \in KeyIdValues
        BY DEF KeyIdValues
      <3>4. QED
        BY <3>2, <3>3 DEF KS!KSNext
    <2>5. CASE \E i \in 1..g_key_count : SignStep(i)
      <3>1. PICK i \in 1..g_key_count : SignStep(i)
        BY <2>5
      <3>2. KS!Sign(Rec(i))
        BY <2>1, <2>2, <3>1, SignRefines
      <3>3. Rec(i) \in StoreView
        BY <3>2 DEF KS!Sign
      <3>4. QED
        BY <3>2, <3>3 DEF KS!KSNext
    <2>6. CASE \E i \in 1..g_key_count : PubStep(i)
      <3>1. PICK i \in 1..g_key_count : PubStep(i)
        BY <2>6
      <3>2. KS!GetPublicKey(Rec(i))
        BY <2>1, <3>1, PubRefines
      <3>3. Rec(i) \in StoreView
        BY <3>2 DEF KS!GetPublicKey
      <3>4. QED
        BY <3>2, <3>3 DEF KS!KSNext
    <2>7. QED
      BY <2>1, <2>3, <2>4, <2>5, <2>6
  <1>2. CASE TA_CreateEntryPoint
    <2>1. StoreView' = {} /\ KeyMaterialOut' = {} /\ ~Failed'
      BY <1>2 DEF TA_CreateEntryPoint, StoreView, LiveSlots, KeyMaterialOut,
                  Failed
    <2>2. QED
      BY <1>2, <2>1 DEF TA_CreateEntryPoint, KS!Start, KS!KSNext
  <1>3. CASE TA_DestroyEntryPoint
    <2>1. StoreView' = {} /\ KeyMaterialOut' = {} /\ ~Failed'
      BY <1>3 DEF TA_DestroyEntryPoint, StoreView, LiveSlots, KeyMaterialOut,
                  Failed
    <2>2. QED
      BY <1>3, <2>1 DEF TA_DestroyEntryPoint, KS!Teardown, KS!KSNext
  <1>4. CASE TA_OpenSessionEntryPoint \/ TA_CloseSessionEntryPoint
    <2>1. alive /\ alive' = alive /\ QuietStep
      BY <1>4 DEF TA_OpenSessionEntryPoint, TA_CloseSessionEntryPoint,
         QuietStep, Unchanged
    <2>2. QED
      BY <2>1, QuietRefines DEF KS!KSNext
  <1>5. CASE Tick \/ UNCHANGED vars
    <2>1. UNCHANGED <<alive, g_key_storage, g_key_count, lastOut, lastRet>>
      BY <1>5 DEF Tick, vars
    <2>2. UNCHANGED KS!ksvars
      BY <2>1 DEF KS!ksvars, StoreView, LiveSlots, KeyMaterialOut, Failed
    <2>3. QED
      BY <2>2
  <1>6. QED
    BY <1>1, <1>2, <1>3, <1>4, <1>5 DEF Next

(* The TA implements the key store of KeyStore.tla when every caller      *)
(* passes a terminated key_id buffer: from its first state on, every       *)
(* entry-point call (create, destroy, session open and close, and every    *)
(* command, failing or not) is a Start, Teardown, Generate, Sign,          *)
(* GetPublicKey or Quiet step of the abstract store under the mapping      *)
(* StoreView / KeyMaterialOut, or leaves it unchanged, for every value of  *)
(* the constants.                                                          *)
THEOREM KeyStoreRefinement == Spec => KeyStoreRefined
  <1>1. Init => KS!KSInit
    BY DEF Init, KS!KSInit, StoreView, LiveSlots, KeyMaterialOut, Failed
  <1>2. QED
    BY <1>1, StepRefines, IInvInvariant, KeyIdsUniqueInvariant, PTL
       DEF Spec, KeyStoreRefined, KS!KSSpec

\* the abstract store's invariants, read through the refinement mapping
KSP == INSTANCE KeyStore_proofs WITH
        KeyIds <- KeyIdValues, Pairs <- KeyPairs, Capacity <- MaxKeys,
        Signature <- SignatureBy, PublicKey <- PublicOf,
        up <- alive, keys <- StoreView, out <- KeyMaterialOut,
        failed <- Failed

LEMMA SameStoreSpec == KS!KSSpec <=> KSP!KSSpec
  <1>1. KS!KSInit <=> KSP!KSInit
    BY DEF KS!KSInit, KSP!KSInit
  <1>2. [KS!KSNext]_KS!ksvars <=> [KSP!KSNext]_KSP!ksvars
    <2>1. KS!Start <=> KSP!Start
      BY Zenon DEF KS!Start, KSP!Start
    <2>2. KS!Teardown <=> KSP!Teardown
      BY Zenon DEF KS!Teardown, KSP!Teardown
    <2>3. \A id, p : KS!Generate(id, p) <=> KSP!Generate(id, p)
      <3>1. KS!Cardinality(StoreView) = KSP!Cardinality(StoreView)
        BY DEF KS!Cardinality, KSP!Cardinality
      <3>2. QED
        BY <3>1, Zenon DEF KS!Generate, KSP!Generate, KS!Ids, KSP!Ids,
           KS!Record, KSP!Record
    <2>4. \A r : KS!Sign(r) <=> KSP!Sign(r)
      BY Zenon DEF KS!Sign, KSP!Sign, KS!Record, KSP!Record
    <2>5. \A r : KS!GetPublicKey(r) <=> KSP!GetPublicKey(r)
      BY Zenon DEF KS!GetPublicKey, KSP!GetPublicKey
    <2>6. KS!Quiet <=> KSP!Quiet
      BY Zenon DEF KS!Quiet, KSP!Quiet
    <2>8. QED
      BY <2>1, <2>2, <2>3, <2>4, <2>5, <2>6, Zenon
         DEF KS!KSNext, KSP!KSNext, KS!ksvars, KSP!ksvars
  <1>3. QED
    BY <1>1, <1>2, PTL DEF KS!KSSpec, KSP!KSSpec

(* Because the TA implements the abstract store, the records it exposes   *)
(* (StoreView: the live slots of g_key_storage) are always well formed,   *)
(* never two with one key_id and never more than SR_MAX_KEYS of them, for *)
(* every value of the constants: the guarantees of KeyStoreInvariant      *)
(* carried to generate_key_pair and sign_message by KeyStoreRefinement.   *)
THEOREM StoreViewInvariant == Spec => []KSP!KSInv
  <1>1. MaxKeys \in Nat
    BY BoundsAssumption
  <1>2. KSP!KSSpec => []KSP!KSInv
    BY <1>1, KSP!KeyStoreInvariant
  <1>3. QED
    BY <1>2, KeyStoreRefinement, SameStoreSpec DEF KeyStoreRefined

=============================================================================

------------------------- MODULE SuperRelayTA_proofs -------------------------
(***************************************************************************)
(* Proofs about SuperRelayTA, for every value of the constants that        *)
(* satisfies BoundsAssumption.                                             *)
(*                                                                         *)
(* TypeOK is not inductive by itself: cmd_sign_message writes a signature  *)
(* made with the private value of the key it finds, which is a keypair     *)
(* only if the slot is committed (LiveRecordsComplete), and                *)
(* cmd_health_check writes now - g_start_time, a natural number only if    *)
(* the clock has not gone back past the instance's start.  IInv adds both. *)
(*                                                                         *)
(* On IInv rest StoreMirror (with its own step lemma), the session         *)
(* accounting (with SessInv, which adds that no session is open on a       *)
(* destroyed instance) and the two action properties, both derived from   *)
(* CmdFrame: what a command may do to the committed slots.                 *)
(*                                                                         *)
(* InvokeKinds sorts every command into four kinds of step on the          *)
(* committed slots; UsageConsistent and the refinement proof of            *)
(* SuperRelayTA_KeyStore_proofs rest on it.                                *)
(***************************************************************************)
EXTENDS SuperRelayTA, TLAPS

IInv ==
    /\ TypeOK
    /\ g_start_time <= now
    /\ LiveRecordsComplete
    /\ NoSecretOutput

USE BoundsAssumption

(* A command of a live instance leaves Frame alone and keeps Core: the    *)
(* key tables, the counters it may change and its results typed, and every *)
(* committed slot Complete.  Core says nothing about alive, so that the    *)
(* provers never mix the Boolean with the arithmetic of the tables.        *)
Frame == <<alive, g_session_count, g_start_time, now, openSessions>>

\* the values a command may write to a caller's buffer
Disclosable == OutValue \ Secrets

Complete(i) ==
    /\ g_key_storage[i].info.key_type = SECP256K1
    /\ \E k \in KeyPairs : /\ g_key_storage[i].priv = SecretOf(k)
                           /\ g_key_storage[i].pub = PublicOf(k)

Core ==
    /\ g_key_storage \in [Slots -> Entry]
    /\ g_keys \in [Slots -> Info]
    /\ g_key_count \in 0..MaxKeys
    /\ g_operation_count \in Nat
    /\ lastRet \in RetCodes
    /\ lastOut \subseteq Disclosable
    /\ \A i \in 1..g_key_count : Complete(i)

-----------------------------------------------------------------------------
(* Lemmas about the operators the actions are built from.                  *)

LEMMA ZeroTyped == ZeroInfo \in Info /\ ZeroEntry \in Entry
  BY DEF ZeroInfo, ZeroEntry, Info, Entry, KeyIdValues, SECP256K1, STATUS_ACTIVE

LEMMA NewInfoTyped ==
  ASSUME NEW a \in IdArgs, NEW kt \in {SECP256K1, ED25519}, now \in Nat
  PROVE  /\ NewInfo(a, kt) \in Info
         /\ [ZeroEntry EXCEPT !.info = NewInfo(a, kt)] \in Entry
         /\ [ZeroEntry EXCEPT !.info = NewInfo(a, kt)].info.key_type = kt
  BY ZeroTyped DEF NewInfo, Info, Entry, KeyIdValues, ZeroEntry

(* No public value, address, signature, key info, health or version      *)
(* record, nor the zero bytes, is a private value: every kind of value a   *)
(* command writes out other than a secret is disclosable.                  *)
LEMMA DisclosableKinds ==
  /\ Publics \cup Addresses \cup {Zeroed} \cup Signatures \subseteq Disclosable
  /\ Info \cup HealthInfo \cup {VersionInfo} \subseteq Disclosable
  <1>1. Publics \cup Addresses \cup Signatures \subseteq Disclosable
    BY DEF Publics, Addresses, Signatures, Secrets, PublicOf, SecretOf,
           Sha256Tail, SignatureBy, Disclosable, OutValue
  <1>2. Zeroed \in Disclosable
    BY ZeroedAssumption DEF Disclosable, OutValue
  <1>3. Info \cup HealthInfo \cup {VersionInfo} \subseteq Disclosable
    BY DEF Info, HealthInfo, VersionInfo, Secrets, SecretOf, Disclosable,
           OutValue
  <1>4. QED
    BY <1>1, <1>2, <1>3

(* Setting the timestamps and the counter of a typed key info keeps it     *)
(* typed.                                                                  *)
LEMMA InfoTouched ==
  ASSUME NEW f \in Info, NEW t \in Nat, NEW u \in Nat
  PROVE  [f EXCEPT !.last_used_time = t, !.usage_count = u] \in Info
  BY DEF Info

(* What the key_type switch of cmd_generate_key leaves in the slot: a      *)
(* typed entry of the same key_type, and on success a whole secp256k1      *)
(* keypair.                                                                *)
LEMMA KeygenResultsProps ==
  ASSUME NEW e \in Entry, NEW kt \in {SECP256K1, ED25519},
         NEW g \in KeygenResults(e, kt)
  PROVE  /\ g.entry \in Entry
         /\ g.res \in RetCodes
         /\ g.entry.info.key_type = e.info.key_type
         /\ g.res = "TEE_SUCCESS" =>
               /\ kt = SECP256K1
               /\ \E k \in KeyPairs : /\ g.entry.priv = SecretOf(k)
                                      /\ g.entry.pub = PublicOf(k)
  <1>1. CASE kt = ED25519
    <2>1. g = [entry |-> e, res |-> "NOT_IMPLEMENTED"]
      BY <1>1 DEF KeygenResults
    <2>2. QED
      BY <2>1 DEF RetCodes
  <1>2. CASE kt = SECP256K1
    <2>1. PICK k \in KeyPairs, r \in KeygenOutcomes, d \in BOOLEAN :
                g = [entry |-> generate_secp256k1_keypair(e, k, r, d),
                     res |-> IF r = "OK" THEN "TEE_SUCCESS"
                                         ELSE "PRIMITIVE_FAILURE"]
      BY <1>2 DEF KeygenResults, SECP256K1, ED25519
    <2>2. derive_ethereum_address(PublicOf(k), d) \in Addresses \cup {Zeroed}
      BY DEF derive_ethereum_address, Addresses, Publics
    <2>3. SecretOf(k) \in Secrets /\ PublicOf(k) \in Publics
      BY DEF Secrets, Publics
    <2>4. CASE r = "FAIL_BEFORE_PRIV"
      BY <2>1, <2>4 DEF generate_secp256k1_keypair, RetCodes
    <2>5. CASE r = "FAIL_AFTER_PRIV"
      BY <2>1, <2>3, <2>5 DEF generate_secp256k1_keypair, RetCodes, Entry
    <2>6. CASE r = "OK"
      BY <1>2, <2>1, <2>2, <2>3, <2>6
         DEF generate_secp256k1_keypair, RetCodes, Entry, Info
    <2>7. QED
      BY <2>4, <2>5, <2>6 DEF KeygenOutcomes
  <1>3. QED
    BY <1>1, <1>2

(* In a live instance IInv is Core plus the typing of Frame; a step that *)
(* keeps the instance live and Frame unchanged keeps IInv if it keeps Core.*)
LEMMA LiveSlotsLive == ASSUME alive PROVE LiveSlots = 1..g_key_count
  BY DEF LiveSlots

LEMMA LiveCore ==
  ASSUME IInv, alive
  PROVE  /\ Core
         /\ g_session_count \in Nat /\ g_start_time \in Nat /\ now \in Nat
         /\ openSessions \in Nat /\ g_start_time <= now
  <1>1. \A i \in 1..g_key_count : Complete(i)
    BY LiveSlotsLive DEF IInv, LiveRecordsComplete, Complete
  <1>2. lastOut \subseteq Disclosable
    BY DEF IInv, TypeOK, NoSecretOutput, Disclosable
  <1>3. QED
    BY <1>1, <1>2 DEF IInv, TypeOK, Core

LEMMA CoreStep ==
  ASSUME IInv, alive, Core', UNCHANGED Frame
  PROVE  IInv'
  <1>1. alive' /\ alive' \in BOOLEAN
    BY DEF Frame
  <1>2. LiveSlots' = 1..g_key_count'
    BY <1>1 DEF LiveSlots
  <1>3. LiveRecordsComplete'
    BY <1>2 DEF Core, Complete, LiveRecordsComplete
  <1>4. /\ g_session_count' \in Nat /\ g_start_time' \in Nat /\ now' \in Nat
        /\ openSessions' \in Nat /\ g_start_time' <= now'
    BY LiveCore DEF Frame
  <1>5. lastOut' \subseteq OutValue /\ NoSecretOutput'
    BY DEF Core, Disclosable, NoSecretOutput
  <1>6. QED
    BY <1>1, <1>3, <1>4, <1>5 DEF IInv, TypeOK, Core

(* A command that returns an error before touching the TA state, or one    *)
(* that only writes typed values out, keeps Core.                          *)
LEMMA RejectCore ==
  ASSUME Core, NEW code \in RetCodes, Reject(code)
  PROVE  Core' /\ UNCHANGED Frame
  BY DEF Core, Complete, Reject, Frame

LEMMA ReplyCore ==
  ASSUME Core, NEW out \in SUBSET Disclosable, Reply(out)
  PROVE  Core' /\ UNCHANGED Frame
  BY DEF Core, Complete, Reply, Frame, RetCodes

LEMMA CountedReplyCore ==
  ASSUME Core, NEW out \in SUBSET Disclosable, CountedReply(out)
  PROVE  Core' /\ UNCHANGED Frame
  BY DEF Core, Complete, CountedReply, Frame, RetCodes

-----------------------------------------------------------------------------
(* The commands.                                                           *)

(* A generate that gets past the duplicate check writes slot g_key_count,  *)
(* which is free because the table is not full, and commits it only after  *)
(* a successful key generation, which leaves a whole keypair in it.        *)
LEMMA GenerateInSlotCore ==
  ASSUME Core, now \in Nat, ~StoreFull,
         NEW a \in IdArgs, NEW kt \in {SECP256K1, ED25519},
         GenerateInSlot(a, kt)
  PROVE  Core'
  <1> DEFINE e0 == [ZeroEntry EXCEPT !.info = NewInfo(a, kt)]
  <1>1. NextSlot \in Slots /\ NextSlot \notin 1..g_key_count
    BY DEF Core, StoreFull, NextSlot, Slots
  <1>2. e0 \in Entry /\ e0.info.key_type = kt
    BY NewInfoTyped
  <1>3. PICK g \in KeygenResults(e0, kt) :
          /\ g_key_storage' = [g_key_storage EXCEPT ![NextSlot] = g.entry]
          /\ \/ /\ UNCHANGED <<g_keys, g_key_count, g_operation_count>>
                /\ lastRet' \in RetCodes
                /\ lastOut' = {}
             \/ /\ ~KeygenFailed(g.res)
                /\ GenerateCommit(NextSlot, g.entry)
    <2>1. \A h \in KeygenResults(e0, kt) : h.res \in RetCodes
      BY <1>2, KeygenResultsProps
    <2>2. QED
      BY <2>1 DEF GenerateInSlot, RetCodes
  <1>4. /\ g.entry \in Entry
        /\ g.entry.info.key_type = kt
        /\ g.res = "TEE_SUCCESS" =>
              /\ kt = SECP256K1
              /\ \E k \in KeyPairs : /\ g.entry.priv = SecretOf(k)
                                     /\ g.entry.pub = PublicOf(k)
    BY <1>2, KeygenResultsProps
  <1>5. g_key_storage' \in [Slots -> Entry]
    BY <1>1, <1>3, <1>4 DEF Core
  <1>6. \A i \in 1..g_key_count : g_key_storage'[i] = g_key_storage[i]
    BY <1>1, <1>3 DEF Core
  <1>7. \A i \in 1..g_key_count : Complete(i)'
    BY <1>6 DEF Core, Complete
  <1>8. CASE UNCHANGED <<g_keys, g_key_count, g_operation_count>>
             /\ lastRet' \in RetCodes /\ lastOut' = {}
    BY <1>5, <1>7, <1>8 DEF Core
  <1>9. CASE ~KeygenFailed(g.res) /\ GenerateCommit(NextSlot, g.entry)
    <2>1. g_keys' \in [Slots -> Info]
      BY <1>1, <1>4, <1>9 DEF GenerateCommit, Entry, Core
    <2>2. /\ g_key_count' \in 0..MaxKeys /\ g_operation_count' \in Nat
          /\ lastRet' \in RetCodes
      BY <1>1, <1>9 DEF GenerateCommit, Core, Slots, NextSlot, RetCodes
    <2>3. lastOut' \subseteq Disclosable
      BY <1>4, <1>9, DisclosableKinds DEF GenerateCommit, Entry, Info
    <2>4. /\ g_key_storage'[NextSlot].info.key_type = SECP256K1
          /\ \E k \in KeyPairs : /\ g_key_storage'[NextSlot].priv = SecretOf(k)
                                 /\ g_key_storage'[NextSlot].pub = PublicOf(k)
      BY <1>1, <1>3, <1>4, <1>9 DEF KeygenFailed, Core
    <2>5. \A i \in 1..g_key_count' : Complete(i)'
      <3>1. g_key_count' = g_key_count + 1 /\ g_key_count \in Nat
        BY <1>9 DEF GenerateCommit, NextSlot, Core
      <3>2. QED
        BY <1>7, <2>4, <3>1 DEF NextSlot, Complete
    <2>6. QED
      BY <1>5, <2>1, <2>2, <2>3, <2>5 DEF Core
  <1>10. QED
    BY <1>3, <1>8, <1>9

LEMMA GenerateKeyCore ==
  ASSUME Core, now \in Nat, cmd_generate_key
  PROVE  Core' /\ UNCHANGED Frame
  <1>1. PICK a \in IdArgs, kt \in 0..KEY_TYPE_MAX : GenerateKey(a, kt)
    BY DEF cmd_generate_key
  <1>2. CASE Reject("BAD_PARAMETERS") \/ Reject("STORAGE_NO_SPACE")
             \/ Reject("KEY_ALREADY_EXISTS")
    BY <1>2, RejectCore DEF RetCodes
  <1>3. CASE ~StoreFull /\ kt < KEY_TYPE_MAX /\ GenerateInSlot(a, kt)
             /\ UNCHANGED Frame
    <2>1. kt \in {SECP256K1, ED25519}
      BY <1>3 DEF KEY_TYPE_MAX, SECP256K1, ED25519
    <2>2. QED
      BY <1>3, <2>1, GenerateInSlotCore
  <1>4. QED
    BY <1>1, <1>2, <1>3 DEF GenerateKey, Frame

(* A sign of a committed key records the use in both tables and writes a  *)
(* signature made with the key's private value, which is a keypair's.     *)
LEMMA SignWithCore ==
  ASSUME Core, now \in Nat, NEW i \in 1..g_key_count, SignWith(i)
  PROVE  Core' /\ UNCHANGED Frame
  <1> DEFINE e == g_key_storage[i]
             info == [e.info EXCEPT !.last_used_time = now, !.usage_count = @ + 1]
  <1>1. i \in Slots /\ e \in Entry /\ Complete(i)
    BY DEF Core, Slots
  <1>2. CASE Reject("PRIMITIVE_FAILURE")
    BY <1>2, RejectCore DEF RetCodes
  <1>3. CASE /\ RecordUse(i, info)
             /\ g_operation_count' = g_operation_count + 1
             /\ lastRet' = "TEE_SUCCESS"
             /\ lastOut' = {SignatureBy(e.priv.sk)}
             /\ UNCHANGED <<alive, g_key_count, g_session_count,
                            g_start_time, now, openSessions>>
    <2>1. info \in Info
      <3>1. e.info \in Info
        BY <1>1 DEF Entry
      <3>2. e.info.usage_count + 1 \in Nat
        BY <3>1 DEF Info
      <3>3. QED
        BY <3>1, <3>2, InfoTouched DEF info
    <2>2. g_key_storage' \in [Slots -> Entry] /\ g_keys' \in [Slots -> Info]
      BY <1>1, <1>3, <2>1 DEF RecordUse, Core, Entry
    <2>3. \A j \in 1..g_key_count' : Complete(j)'
      BY <1>1, <1>3 DEF RecordUse, Complete, Core
    <2>4. SignatureBy(e.priv.sk) \in Disclosable
      BY <1>1, DisclosableKinds DEF Complete, SecretOf, Signatures
    <2>5. QED
      BY <1>3, <2>2, <2>3, <2>4 DEF Core, Frame, RetCodes
  <1>4. QED
    BY <1>2, <1>3 DEF SignWith

LEMMA SignMessageCore ==
  ASSUME Core, now \in Nat, cmd_sign_message
  PROVE  Core' /\ UNCHANGED Frame
  <1>1. \/ Reject("BAD_PARAMETERS") \/ Reject("SHORT_BUFFER")
        \/ Reject("KEY_NOT_FOUND")
        \/ \E i \in 1..g_key_count : SignWith(i)
    BY DEF cmd_sign_message
  <1>2. CASE Reject("BAD_PARAMETERS") \/ Reject("SHORT_BUFFER")
             \/ Reject("KEY_NOT_FOUND")
    BY <1>2, RejectCore DEF RetCodes
  <1>3. CASE \E i \in 1..g_key_count : SignWith(i)
    BY <1>3, SignWithCore
  <1>4. QED
    BY <1>1, <1>2, <1>3

(* get_public_key copies out the public value and the address of a typed  *)
(* entry, never its private value.                                         *)
LEMMA GetPublicKeyCore ==
  ASSUME Core, cmd_get_public_key
  PROVE  Core' /\ UNCHANGED Frame
  <1>1. \/ Reject("BAD_PARAMETERS") \/ Reject("SHORT_BUFFER")
        \/ Reject("KEY_NOT_FOUND")
        \/ \E i \in 1..g_key_count : CountedReply(PublicKeyResult(i))
    BY DEF cmd_get_public_key
  <1>2. CASE Reject("BAD_PARAMETERS") \/ Reject("SHORT_BUFFER")
             \/ Reject("KEY_NOT_FOUND")
    BY <1>2, RejectCore DEF RetCodes
  <1>3. ASSUME NEW i \in 1..g_key_count
        PROVE  PublicKeyResult(i) \in SUBSET Disclosable
    <2>1. g_key_storage[i] \in Entry
      BY DEF Core, Slots
    <2>2. QED
      BY <2>1, DisclosableKinds DEF PublicKeyResult, Entry, Info
  <1>4. CASE \E i \in 1..g_key_count : CountedReply(PublicKeyResult(i))
    BY <1>3, <1>4, CountedReplyCore
  <1>5. QED
    BY <1>1, <1>2, <1>4

(* list_keys, get_version and health_check write typed values out.        *)
LEMMA ReadOnlyCore ==
  ASSUME Core, g_session_count \in Nat, now \in Nat, g_start_time \in Nat,
         g_start_time <= now,
         cmd_list_keys \/ cmd_get_version \/ cmd_health_check
  PROVE  Core' /\ UNCHANGED Frame
  <1>1. CASE Reject("BAD_PARAMETERS") \/ Reject("SHORT_BUFFER")
    BY <1>1, RejectCore DEF RetCodes
  <1>2. CASE CountedReply({g_keys[i] : i \in 1..g_key_count})
    <2>1. {g_keys[i] : i \in 1..g_key_count} \in SUBSET Disclosable
      BY DisclosableKinds DEF Core, Slots
    <2>2. QED
      BY <1>2, <2>1, CountedReplyCore
  <1>3. CASE Reply({VersionInfo})
    BY <1>3, ReplyCore, DisclosableKinds
  <1>4. CASE Reply({[active_sessions |-> g_session_count,
                     total_operations |-> g_operation_count,
                     storage_usage |-> g_key_count,
                     uptime |-> now - g_start_time]})
    <2>1. [active_sessions |-> g_session_count,
           total_operations |-> g_operation_count,
           storage_usage |-> g_key_count,
           uptime |-> now - g_start_time] \in HealthInfo
      BY DEF Core, HealthInfo
    <2>2. QED
      BY <1>4, <2>1, ReplyCore, DisclosableKinds
  <1>5. QED
    BY <1>1, <1>2, <1>3, <1>4 DEF cmd_list_keys, cmd_get_version,
                                  cmd_health_check

(* Every command of a live instance keeps Core and leaves Frame alone.    *)
LEMMA InvokeCore ==
  ASSUME IInv, TA_InvokeCommandEntryPoint
  PROVE  Core' /\ UNCHANGED Frame
  <1>1. alive
    BY DEF TA_InvokeCommandEntryPoint
  <1>2. /\ Core
        /\ g_session_count \in Nat /\ g_start_time \in Nat /\ now \in Nat
        /\ g_start_time <= now
    BY <1>1, LiveCore
  <1>3. CASE cmd_generate_key
    BY <1>2, <1>3, GenerateKeyCore
  <1>4. CASE cmd_sign_message
    BY <1>2, <1>4, SignMessageCore
  <1>5. CASE cmd_get_public_key
    BY <1>2, <1>5, GetPublicKeyCore
  <1>6. CASE cmd_list_keys \/ cmd_get_version \/ cmd_health_check
    BY <1>2, <1>6, ReadOnlyCore
  <1>7. CASE Reject("NOT_IMPLEMENTED") \/ Reject("BAD_PARAMETERS")
    BY <1>2, <1>7, RejectCore DEF RetCodes
  <1>8. QED
    BY <1>3, <1>4, <1>5, <1>6, <1>7 DEF TA_InvokeCommandEntryPoint

LEMMA InvokeIInv == IInv /\ TA_InvokeCommandEntryPoint => IInv'
  <1> SUFFICES ASSUME IInv, TA_InvokeCommandEntryPoint PROVE IInv'
    OBVIOUS
  <1>1. alive
    BY DEF TA_InvokeCommandEntryPoint
  <1>2. QED
    BY <1>1, InvokeCore, CoreStep

-----------------------------------------------------------------------------
(* The entry points other than TA_InvokeCommandEntryPoint.                 *)

LEMMA InitIInv == Init => IInv
  <1> SUFFICES ASSUME Init PROVE IInv
    OBVIOUS
  <1>1. g_key_storage \in [Slots -> Entry] /\ g_keys \in [Slots -> Info]
    BY ZeroTyped DEF Init
  <1>2. lastRet \in RetCodes
    BY DEF Init, RetCodes
  <1>3. alive \in BOOLEAN /\ LiveSlots = {}
    BY DEF Init, LiveSlots
  <1>4. /\ g_key_count \in 0..MaxKeys
        /\ g_session_count \in Nat /\ g_operation_count \in Nat
        /\ g_start_time \in Nat /\ now \in Nat /\ openSessions \in Nat
        /\ lastOut \subseteq OutValue /\ g_start_time <= now
    BY DEF Init
  <1>5. LiveRecordsComplete /\ NoSecretOutput
    BY <1>3 DEF LiveRecordsComplete, NoSecretOutput, Init
  <1>6. QED
    BY <1>1, <1>2, <1>3, <1>4, <1>5 DEF IInv, TypeOK

LEMMA CreateIInv == IInv /\ TA_CreateEntryPoint => IInv'
  <1> SUFFICES ASSUME IInv, TA_CreateEntryPoint PROVE IInv'
    OBVIOUS
  <1>1. alive' \in BOOLEAN /\ LiveSlots' = 1..g_key_count'
    BY DEF TA_CreateEntryPoint, LiveSlots
  <1>2. g_key_storage' \in [Slots -> Entry] /\ g_keys' \in [Slots -> Info]
    BY ZeroTyped DEF TA_CreateEntryPoint
  <1>3. /\ g_key_count' \in 0..MaxKeys
        /\ g_session_count' \in Nat /\ g_operation_count' \in Nat
        /\ g_start_time' \in Nat /\ now' \in Nat /\ openSessions' \in Nat
        /\ lastRet' \in RetCodes /\ lastOut' \subseteq OutValue
        /\ g_start_time' <= now'
    BY DEF IInv, TypeOK, TA_CreateEntryPoint, RetCodes
  <1>4. LiveRecordsComplete' /\ NoSecretOutput'
    BY <1>1, <1>3 DEF TA_CreateEntryPoint, LiveRecordsComplete, NoSecretOutput
  <1>5. QED
    BY <1>1, <1>2, <1>3, <1>4 DEF IInv, TypeOK

LEMMA DestroyIInv == IInv /\ TA_DestroyEntryPoint => IInv'
  <1> SUFFICES ASSUME IInv, TA_DestroyEntryPoint PROVE IInv'
    OBVIOUS
  <1>1. alive' \in BOOLEAN /\ LiveSlots' = {}
    BY DEF TA_DestroyEntryPoint, LiveSlots
  <1>2. g_key_storage' \in [Slots -> Entry] /\ g_keys' \in [Slots -> Info]
    BY ZeroTyped DEF TA_DestroyEntryPoint
  <1>3. /\ g_key_count' \in 0..MaxKeys
        /\ g_session_count' \in Nat /\ g_operation_count' \in Nat
        /\ g_start_time' \in Nat /\ now' \in Nat /\ openSessions' \in Nat
        /\ lastRet' \in RetCodes /\ lastOut' \subseteq OutValue
        /\ g_start_time' <= now'
    BY DEF IInv, TypeOK, TA_DestroyEntryPoint, RetCodes
  <1>4. LiveRecordsComplete' /\ NoSecretOutput'
    BY <1>1 DEF LiveRecordsComplete, TA_DestroyEntryPoint, NoSecretOutput
  <1>5. QED
    BY <1>1, <1>2, <1>3, <1>4 DEF IInv, TypeOK

(* Opening and closing a session changes the session counters only.       *)
LEMMA SessionIInv ==
  ASSUME IInv, TA_OpenSessionEntryPoint \/ TA_CloseSessionEntryPoint
  PROVE  IInv'
  <1>1. alive' = alive /\ alive' \in BOOLEAN
    BY DEF IInv, TypeOK, TA_OpenSessionEntryPoint, TA_CloseSessionEntryPoint
  <1>2. LiveSlots' = LiveSlots
    BY <1>1 DEF LiveSlots, TA_OpenSessionEntryPoint, TA_CloseSessionEntryPoint
  <1>3. /\ g_key_storage' = g_key_storage /\ g_keys' = g_keys
        /\ g_key_count' = g_key_count /\ g_operation_count' = g_operation_count
        /\ g_start_time' = g_start_time /\ now' = now
        /\ g_session_count' \in Nat /\ openSessions' \in Nat
        /\ lastRet' \in RetCodes /\ lastOut' = {}
    BY DEF IInv, TypeOK, TA_OpenSessionEntryPoint, TA_CloseSessionEntryPoint,
           RetCodes
  <1>4. LiveRecordsComplete' /\ NoSecretOutput'
    BY <1>2, <1>3 DEF IInv, LiveRecordsComplete, NoSecretOutput
  <1>5. QED
    BY <1>1, <1>3, <1>4 DEF IInv, TypeOK

LEMMA TickIInv == IInv /\ Tick => IInv'
  <1> SUFFICES ASSUME IInv, Tick PROVE IInv'
    OBVIOUS
  <1>1. alive' = alive /\ alive' \in BOOLEAN
    BY DEF IInv, TypeOK, Tick
  <1>2. LiveSlots' = LiveSlots
    BY <1>1 DEF LiveSlots, Tick
  <1>3. LiveRecordsComplete' /\ NoSecretOutput'
    BY <1>2 DEF IInv, LiveRecordsComplete, NoSecretOutput, Tick
  <1>4. /\ now' \in Nat /\ g_start_time' <= now'
    BY DEF IInv, TypeOK, Tick
  <1>5. QED
    BY <1>1, <1>3, <1>4 DEF IInv, TypeOK, Tick

-----------------------------------------------------------------------------
(* The invariance theorems.                                                *)

LEMMA StutterIInv == IInv /\ UNCHANGED vars => IInv'
  <1> SUFFICES ASSUME IInv, UNCHANGED vars PROVE IInv'
    OBVIOUS
  <1>1. alive' = alive /\ alive' \in BOOLEAN
    BY DEF IInv, TypeOK, vars
  <1>2. LiveSlots' = LiveSlots
    BY <1>1 DEF LiveSlots, vars
  <1>3. LiveRecordsComplete' /\ NoSecretOutput'
    BY <1>2 DEF IInv, LiveRecordsComplete, NoSecretOutput, vars
  <1>4. QED
    BY <1>1, <1>3 DEF IInv, TypeOK, vars

LEMMA StepIInv == IInv /\ [Next]_vars => IInv'
  <1> SUFFICES ASSUME IInv, [Next]_vars PROVE IInv'
    OBVIOUS
  <1>1. CASE TA_CreateEntryPoint
    BY <1>1, CreateIInv
  <1>2. CASE TA_DestroyEntryPoint
    BY <1>2, DestroyIInv
  <1>3. CASE TA_OpenSessionEntryPoint \/ TA_CloseSessionEntryPoint
    BY <1>3, SessionIInv
  <1>4. CASE TA_InvokeCommandEntryPoint
    BY <1>4, InvokeIInv
  <1>5. CASE Tick
    BY <1>5, TickIInv
  <1>6. CASE UNCHANGED vars
    BY <1>6, StutterIInv
  <1>7. QED
    BY <1>1, <1>2, <1>3, <1>4, <1>5, <1>6 DEF Next

(* IInv holds in every reachable state, whatever the bounds: the static    *)
(* tables keep their types through every entry point and command.          *)
THEOREM IInvInvariant == Spec => []IInv
  BY InitIInv, StepIInv, PTL DEF Spec

(* Type correctness of the TA's global state and of every command's        *)
(* results, for every SR_MAX_KEYS, SR_MAX_KEY_ID_SIZE and set of keypairs. *)
THEOREM TypeCorrect == Spec => []TypeOK
  <1>1. IInv => TypeOK
    BY DEF IInv
  <1>2. QED
    BY <1>1, IInvInvariant, PTL

(* Every key cmd_generate_key commits holds a whole secp256k1 keypair: no  *)
(* failed or Ed25519 generate is ever counted in g_key_count, so the       *)
(* ACCESS_DENIED and Ed25519 branches of cmd_sign_message are unreachable. *)
THEOREM CommittedKeysComplete == Spec => []LiveRecordsComplete
  <1>1. IInv => LiveRecordsComplete
    BY DEF IInv
  <1>2. QED
    BY <1>1, IInvInvariant, PTL

(* No command of the TA ever writes a private value to a caller's output   *)
(* buffer: sign writes a signature, get_public_key the public value and    *)
(* the address of a slot, generate the address, list the key infos.        *)
THEOREM NoSecretOutputInvariant == Spec => []NoSecretOutput
  <1>1. IInv => NoSecretOutput
    BY DEF IInv
  <1>2. QED
    BY <1>1, IInvInvariant, PTL

-----------------------------------------------------------------------------
(* The two tables.  Every step either leaves g_keys, g_key_storage and     *)
(* g_key_count alone, zeroes both tables, writes a slot beyond             *)
(* g_key_count of g_key_storage only, commits slot g_key_count+1 to both,  *)
(* or updates the info of one committed slot in both.                      *)

LEMMA MirrorUnchanged ==
  ASSUME StoreMirror, UNCHANGED <<g_keys, g_key_storage, g_key_count>>
  PROVE  StoreMirror'
  BY DEF StoreMirror

LEMMA MirrorZeroed ==
  ASSUME g_keys' = [i \in Slots |-> ZeroInfo],
         g_key_storage' = [i \in Slots |-> ZeroEntry]
  PROVE  StoreMirror'
  BY DEF StoreMirror, ZeroEntry

LEMMA GenerateInSlotMirror ==
  ASSUME Core, StoreMirror, ~StoreFull,
         NEW a \in IdArgs, NEW kt \in {SECP256K1, ED25519},
         GenerateInSlot(a, kt)
  PROVE  StoreMirror'
  <1> DEFINE e0 == [ZeroEntry EXCEPT !.info = NewInfo(a, kt)]
  <1>1. NextSlot \in Slots /\ NextSlot = g_key_count + 1 /\ g_key_count \in Nat
    BY DEF Core, StoreFull, NextSlot, Slots
  <1>2. PICK g \in KeygenResults(e0, kt) :
          /\ g_key_storage' = [g_key_storage EXCEPT ![NextSlot] = g.entry]
          /\ \/ UNCHANGED <<g_keys, g_key_count>>
             \/ GenerateCommit(NextSlot, g.entry)
    BY DEF GenerateInSlot
  <1>3. CASE UNCHANGED <<g_keys, g_key_count>>
    BY <1>1, <1>2, <1>3 DEF StoreMirror, Core
  <1>4. CASE GenerateCommit(NextSlot, g.entry)
    <2> SUFFICES ASSUME NEW i \in Slots
                 PROVE  g_keys'[i] = IF i <= g_key_count'
                                     THEN g_key_storage'[i].info ELSE ZeroInfo
      BY DEF StoreMirror
    <2>1. g_key_count' = NextSlot
      BY <1>4 DEF GenerateCommit
    <2>2. CASE i = NextSlot
      BY <1>1, <1>2, <1>4, <2>1, <2>2 DEF Core, GenerateCommit
    <2>3. CASE i # NextSlot
      <3>1. g_keys'[i] = g_keys[i] /\ g_key_storage'[i] = g_key_storage[i]
        BY <1>2, <1>4, <2>3 DEF Core, GenerateCommit
      <3>2. (i <= g_key_count') = (i <= g_key_count)
        BY <1>1, <2>1, <2>3 DEF Slots
      <3>3. QED
        BY <3>1, <3>2 DEF StoreMirror
    <2>4. QED
      BY <2>2, <2>3
  <1>5. QED
    BY <1>2, <1>3, <1>4

LEMMA SignWithMirror ==
  ASSUME Core, StoreMirror, NEW i \in 1..g_key_count, SignWith(i)
  PROVE  StoreMirror'
  <1> DEFINE e == g_key_storage[i]
             info == [e.info EXCEPT !.last_used_time = now, !.usage_count = @ + 1]
  <1>1. i \in Slots /\ e \in Entry
    BY DEF Core, Slots
  <1>2. CASE Reject("PRIMITIVE_FAILURE")
    BY <1>2, MirrorUnchanged DEF Reject
  <1>3. CASE RecordUse(i, info) /\ UNCHANGED g_key_count
    BY <1>1, <1>3 DEF RecordUse, StoreMirror, Core, Entry
  <1>4. QED
    BY <1>2, <1>3 DEF SignWith

LEMMA InvokeMirror ==
  ASSUME IInv, StoreMirror, TA_InvokeCommandEntryPoint
  PROVE  StoreMirror'
  <1>1. Core
    BY LiveCore DEF TA_InvokeCommandEntryPoint
  <1>2. ASSUME NEW code, Reject(code) PROVE StoreMirror'
    BY <1>2, MirrorUnchanged DEF Reject
  <1>3. ASSUME NEW out, Reply(out) \/ CountedReply(out) PROVE StoreMirror'
    BY <1>3, MirrorUnchanged DEF Reply, CountedReply
  <1>4. CASE cmd_generate_key
    <2>1. PICK a \in IdArgs, kt \in 0..KEY_TYPE_MAX : GenerateKey(a, kt)
      BY <1>4 DEF cmd_generate_key
    <2>2. CASE ~StoreFull /\ kt < KEY_TYPE_MAX /\ GenerateInSlot(a, kt)
      <3>1. kt \in {SECP256K1, ED25519}
        BY <2>2 DEF KEY_TYPE_MAX, SECP256K1, ED25519
      <3>2. QED
        BY <1>1, <2>2, <3>1, GenerateInSlotMirror
    <2>3. QED
      BY <1>2, <2>1, <2>2 DEF GenerateKey
  <1>5. CASE cmd_sign_message
    <2>1. CASE \E i \in 1..g_key_count : SignWith(i)
      BY <1>1, <2>1, SignWithMirror
    <2>2. QED
      BY <1>2, <1>5, <2>1 DEF cmd_sign_message
  <1>6. QED
    BY <1>2, <1>3, <1>4, <1>5 DEF TA_InvokeCommandEntryPoint, cmd_get_public_key,
       cmd_list_keys, cmd_get_version, cmd_health_check

LEMMA StepMirror == IInv /\ StoreMirror /\ [Next]_vars => StoreMirror'
  <1> SUFFICES ASSUME IInv, StoreMirror, [Next]_vars PROVE StoreMirror'
    OBVIOUS
  <1>1. CASE TA_CreateEntryPoint \/ TA_DestroyEntryPoint
    BY <1>1, MirrorZeroed DEF TA_CreateEntryPoint, TA_DestroyEntryPoint
  <1>2. CASE TA_InvokeCommandEntryPoint
    BY <1>2, InvokeMirror
  <1>3. CASE TA_OpenSessionEntryPoint \/ TA_CloseSessionEntryPoint \/ Tick
             \/ UNCHANGED vars
    BY <1>3, MirrorUnchanged DEF TA_OpenSessionEntryPoint,
       TA_CloseSessionEntryPoint, Tick, vars
  <1>4. QED
    BY <1>1, <1>2, <1>3 DEF Next

(* list_keys never disagrees with the keys sign_message updates: g_keys    *)
(* equals the info of every committed slot of g_key_storage and is zero    *)
(* beyond it, whatever generates failed in those slots, for every value of *)
(* the constants.                                                          *)
THEOREM StoreMirrorInvariant == Spec => []StoreMirror
  <1>1. Init => StoreMirror
    BY DEF Init, StoreMirror, ZeroEntry
  <1>2. QED
    BY <1>1, StepMirror, IInvInvariant, PTL DEF Spec

-----------------------------------------------------------------------------
(* Session accounting.  g_session_count follows the TEE's open sessions    *)
(* because TA_CreateEntryPoint resets it only when no session can be open: *)
(* the instance is destroyed only once its last session is closed.         *)
SessInv ==
    /\ SessionsAccurate
    /\ ~alive => openSessions = 0

LEMMA StepSess ==
  ASSUME IInv, SessInv, [Next]_vars
  PROVE  SessInv'
  <1>1. CASE TA_CreateEntryPoint
    <2>1. openSessions = 0
      BY <1>1 DEF SessInv, TA_CreateEntryPoint
    <2>2. alive' /\ g_session_count' = openSessions'
      BY <1>1, <2>1 DEF TA_CreateEntryPoint
    <2>3. QED
      BY <2>2 DEF SessInv, SessionsAccurate
  <1>2. CASE TA_DestroyEntryPoint
    <2>1. ~alive' /\ openSessions' = 0
      BY <1>2 DEF TA_DestroyEntryPoint
    <2>2. QED
      BY <2>1 DEF SessInv, SessionsAccurate
  <1>3. CASE TA_OpenSessionEntryPoint \/ TA_CloseSessionEntryPoint
    <2>1. alive /\ alive'
      BY <1>3 DEF TA_OpenSessionEntryPoint, TA_CloseSessionEntryPoint
    <2>2. g_session_count = openSessions
      BY <2>1 DEF SessInv, SessionsAccurate
    <2>3. g_session_count' = openSessions'
      BY <1>3, <2>2 DEF IInv, TypeOK, TA_OpenSessionEntryPoint,
         TA_CloseSessionEntryPoint
    <2>4. QED
      BY <2>1, <2>3 DEF SessInv, SessionsAccurate
  <1>4. CASE TA_InvokeCommandEntryPoint
    <2>1. UNCHANGED <<alive, g_session_count, openSessions>>
      BY <1>4, InvokeCore DEF Frame
    <2>2. QED
      BY <2>1 DEF SessInv, SessionsAccurate
  <1>5. CASE Tick \/ UNCHANGED vars
    <2>1. UNCHANGED <<alive, g_session_count, openSessions>>
      BY <1>5 DEF Tick, vars
    <2>2. QED
      BY <2>1 DEF SessInv, SessionsAccurate
  <1>6. QED
    BY <1>1, <1>2, <1>3, <1>4, <1>5 DEF Next

(* health_check's active_sessions is exact: in every reachable state of a  *)
(* live instance g_session_count equals the number of sessions the TEE has *)
(* open on it, so the floor at zero in TA_CloseSessionEntryPoint never     *)
(* fires, for every bound on the sessions.                                 *)
THEOREM SessionsAccurateInvariant == Spec => []SessionsAccurate
  <1>1. Init => SessInv
    BY DEF Init, SessInv, SessionsAccurate
  <1>2. SessInv => SessionsAccurate
    BY DEF SessInv
  <1>3. QED
    BY <1>1, <1>2, StepSess, IInvInvariant, PTL DEF Spec
-----------------------------------------------------------------------------
(* What a step does to the committed slots: a generate writes only the     *)
(* slot beyond g_key_count and commits it only on success, a sign changes  *)
(* only the usage fields of one committed slot and only on success, and    *)
(* every other command or entry point of a live instance changes none.     *)

LEMMA GenerateInSlotFrame ==
  ASSUME Core, ~StoreFull, NEW a, NEW kt, GenerateInSlot(a, kt)
  PROVE  /\ \A i \in 1..g_key_count : g_key_storage'[i] = g_key_storage[i]
         /\ g_key_count' \in {g_key_count, g_key_count + 1}
         /\ lastRet' # "TEE_SUCCESS" =>
               UNCHANGED <<g_keys, g_key_count, g_operation_count>>
  <1>1. NextSlot \notin 1..g_key_count
    BY DEF Core, NextSlot
  <1>2. PICK g \in KeygenResults([ZeroEntry EXCEPT !.info = NewInfo(a, kt)], kt) :
          /\ g_key_storage' = [g_key_storage EXCEPT ![NextSlot] = g.entry]
          /\ \/ UNCHANGED <<g_keys, g_key_count, g_operation_count>>
             \/ GenerateCommit(NextSlot, g.entry)
    BY DEF GenerateInSlot
  <1>3. \A i \in 1..g_key_count : g_key_storage'[i] = g_key_storage[i]
    BY <1>1, <1>2 DEF Core
  <1>4. QED
    BY <1>2, <1>3 DEF GenerateCommit, NextSlot

\* an entry after a successful sign at time t, and slot i after one now
TouchedEntry(o, t) ==
    [o EXCEPT !.info = [o.info EXCEPT !.last_used_time = t,
                                      !.usage_count = @ + 1]]
Touched(i) == TouchedEntry(g_key_storage[i], now)

\* what a command of a live instance may do to the committed slots
CmdFrame ==
    /\ g_key_count' >= g_key_count
    /\ \A i \in 1..g_key_count :
          \/ g_key_storage'[i] = g_key_storage[i]
          \/ lastRet' = "TEE_SUCCESS" /\ g_key_storage'[i] = Touched(i)
    /\ lastRet' \notin {"TEE_SUCCESS", "NONE"} =>
          UNCHANGED <<g_keys, g_key_count, g_operation_count>>

LEMMA ReturnFrame ==
  ASSUME g_key_count \in Nat, NEW code,
         Reject(code) \/ Reply(code) \/ CountedReply(code)
  PROVE  CmdFrame
  BY DEF Reject, Reply, CountedReply, CmdFrame

LEMMA GenerateKeyFrame ==
  ASSUME Core, cmd_generate_key
  PROVE  CmdFrame
  <1>1. g_key_count \in Nat
    BY DEF Core
  <1>2. PICK a \in IdArgs, kt \in 0..KEY_TYPE_MAX : GenerateKey(a, kt)
    BY DEF cmd_generate_key
  <1>3. CASE Reject("BAD_PARAMETERS") \/ Reject("STORAGE_NO_SPACE")
             \/ Reject("KEY_ALREADY_EXISTS")
    BY <1>1, <1>3, ReturnFrame
  <1>4. CASE ~StoreFull /\ GenerateInSlot(a, kt)
    <2>1. /\ \A i \in 1..g_key_count : g_key_storage'[i] = g_key_storage[i]
          /\ g_key_count' \in {g_key_count, g_key_count + 1}
          /\ lastRet' # "TEE_SUCCESS" =>
                UNCHANGED <<g_keys, g_key_count, g_operation_count>>
      BY <1>4, GenerateInSlotFrame
    <2>2. QED
      BY <1>1, <2>1 DEF CmdFrame
  <1>5. QED
    BY <1>2, <1>3, <1>4 DEF GenerateKey

LEMMA SignWithFrame ==
  ASSUME Core, NEW j \in 1..g_key_count, SignWith(j)
  PROVE  CmdFrame
  <1>1. g_key_count \in Nat /\ j \in Slots /\ g_key_storage \in [Slots -> Entry]
    BY DEF Core, Slots
  <1>2. CASE Reject("PRIMITIVE_FAILURE")
    BY <1>1, <1>2, ReturnFrame
  <1>3. CASE /\ RecordUse(j, [g_key_storage[j].info EXCEPT
                                !.last_used_time = now,
                                !.usage_count = @ + 1])
             /\ lastRet' = "TEE_SUCCESS"
             /\ UNCHANGED g_key_count
    <2>1. g_key_storage' = [g_key_storage EXCEPT ![j] = Touched(j)]
      BY <1>1, <1>3 DEF RecordUse, Touched, TouchedEntry
    <2>2. QED
      BY <1>1, <1>3, <2>1 DEF CmdFrame
  <1>4. QED
    BY <1>2, <1>3 DEF SignWith

LEMMA SignMessageFrame ==
  ASSUME Core, cmd_sign_message
  PROVE  CmdFrame
  <1>1. \/ Reject("BAD_PARAMETERS") \/ Reject("SHORT_BUFFER")
        \/ Reject("KEY_NOT_FOUND")
        \/ \E j \in 1..g_key_count : SignWith(j)
    BY DEF cmd_sign_message
  <1>2. QED
    BY <1>1, ReturnFrame, SignWithFrame DEF Core

LEMMA CommandFrame ==
  ASSUME IInv, TA_InvokeCommandEntryPoint
  PROVE  CmdFrame
  <1>1. Core
    BY LiveCore DEF TA_InvokeCommandEntryPoint
  <1>2. g_key_count \in Nat
    BY <1>1 DEF Core
  <1>3. CASE cmd_generate_key
    BY <1>1, <1>3, GenerateKeyFrame
  <1>4. CASE cmd_sign_message
    BY <1>1, <1>4, SignMessageFrame
  <1>5. CASE \/ cmd_get_public_key \/ cmd_list_keys \/ cmd_get_version
             \/ cmd_health_check
             \/ Reject("NOT_IMPLEMENTED") \/ Reject("BAD_PARAMETERS")
    <2>1. \E code : Reject(code) \/ Reply(code) \/ CountedReply(code)
      BY <1>5 DEF cmd_get_public_key, cmd_list_keys, cmd_get_version,
         cmd_health_check
    <2>2. QED
      BY <1>2, <2>1, ReturnFrame
  <1>6. QED
    BY <1>3, <1>4, <1>5 DEF TA_InvokeCommandEntryPoint

(* A failing call changes no committed state: whatever command fails, at  *)
(* whatever point (parameter checks, duplicate scan, key generation, the   *)
(* late output-buffer check, signing), g_keys, g_key_count,                *)
(* g_operation_count and the committed slots of g_key_storage are those of *)
(* before the call, for every value of the constants.                      *)
THEOREM FailureAtomicHolds == Spec => FailureAtomic
  <1>1. IInv /\ [Next]_vars => [FailureAtomicStep]_vars
    <2> SUFFICES ASSUME IInv, [Next]_vars PROVE FailureAtomicStep
      BY DEF FailureAtomicStep
    <2>1. CASE TA_InvokeCommandEntryPoint
      BY <2>1, CommandFrame DEF CmdFrame, FailureAtomicStep
    <2>2. CASE \/ TA_CreateEntryPoint \/ TA_DestroyEntryPoint
               \/ TA_OpenSessionEntryPoint \/ TA_CloseSessionEntryPoint
      BY <2>2 DEF TA_CreateEntryPoint, TA_DestroyEntryPoint,
         TA_OpenSessionEntryPoint, TA_CloseSessionEntryPoint, FailureAtomicStep
    <2>3. CASE Tick \/ UNCHANGED vars
      BY <2>3 DEF Tick, vars, FailureAtomicStep
    <2>4. QED
      BY <2>1, <2>2, <2>3 DEF Next
  <1>2. QED
    BY <1>1, IInvInvariant, PTL DEF Spec, FailureAtomic

\* entry n keeps the identity, keypair, address and creation time of o
KeepsIdentity(n, o) ==
    /\ n.priv = o.priv
    /\ n.pub = o.pub
    /\ n.info.key_id = o.info.key_id
    /\ n.info.key_type = o.info.key_type
    /\ n.info.ethereum_address = o.info.ethereum_address
    /\ n.info.created_time = o.info.created_time
    /\ n.info.usage_count >= o.info.usage_count

\* the consequent of LiveRecordsStableStep, for the steps that keep alive
StableBody ==
    /\ g_key_count' >= g_key_count
    /\ \A i \in 1..g_key_count : KeepsIdentity(g_key_storage'[i], g_key_storage[i])

LEMMA StableIntro == StableBody => LiveRecordsStableStep
  BY Zenon DEF StableBody, KeepsIdentity, LiveRecordsStableStep

LEMMA UntouchedKeeps ==
  ASSUME NEW o \in Entry
  PROVE  KeepsIdentity(o, o)
  <1>1. o.info.usage_count \in Nat
    BY DEF Entry, Info
  <1>2. QED
    BY <1>1 DEF KeepsIdentity

\* a successful sign keeps everything of a slot but its usage fields
LEMMA TouchedKeeps ==
  ASSUME NEW o \in Entry, NEW t \in Nat
  PROVE  KeepsIdentity(TouchedEntry(o, t), o)
  <1> DEFINE m == [o.info EXCEPT !.last_used_time = t, !.usage_count = @ + 1]
  <1>1. o.info \in Info
    BY DEF Entry
  <1>2. o.info.usage_count \in Nat
    BY <1>1 DEF Info
  <1>3. TouchedEntry(o, t) = [o EXCEPT !.info = m]
    BY DEF TouchedEntry, m
  <1>4. /\ [o EXCEPT !.info = m].priv = o.priv
        /\ [o EXCEPT !.info = m].pub = o.pub
        /\ [o EXCEPT !.info = m].info = m
    BY DEF Entry
  <1>5. /\ m.key_id = o.info.key_id
        /\ m.key_type = o.info.key_type
        /\ m.ethereum_address = o.info.ethereum_address
        /\ m.created_time = o.info.created_time
        /\ m.usage_count = o.info.usage_count + 1
    BY <1>1 DEF Info, m
  <1>6. [o EXCEPT !.info = m].info.usage_count = o.info.usage_count + 1
    BY <1>4, <1>5, Zenon
  <1>7. [o EXCEPT !.info = m].info.usage_count >= o.info.usage_count
    BY <1>2, <1>6
  <1>8. QED
    BY <1>3, <1>4, <1>5, <1>7, Zenon DEF KeepsIdentity

(* While the instance lives, the key table is append-only and a committed  *)
(* key keeps its key_id, type, keypair, address and creation time, with a  *)
(* usage_count that never decreases, for every value of the constants.     *)
THEOREM LiveRecordsStableHolds == Spec => LiveRecordsStable
  <1>1. IInv /\ [Next]_vars => [LiveRecordsStableStep]_vars
    <2> SUFFICES ASSUME IInv, [Next]_vars PROVE LiveRecordsStableStep
      BY DEF LiveRecordsStableStep
    <2>1. CASE TA_InvokeCommandEntryPoint
      <3>1. CmdFrame /\ Core /\ now \in Nat
        BY <2>1, CommandFrame, LiveCore DEF TA_InvokeCommandEntryPoint
      <3>2. \A i \in 1..g_key_count : g_key_storage[i] \in Entry /\ i \in Slots
        BY <3>1 DEF Core, Slots
      <3>3. ASSUME NEW i \in 1..g_key_count
            PROVE  KeepsIdentity(g_key_storage'[i], g_key_storage[i])
        <4>1. CASE g_key_storage'[i] = g_key_storage[i]
          BY <3>2, <4>1, UntouchedKeeps
        <4>2. CASE g_key_storage'[i] = Touched(i)
          BY <3>1, <3>2, <4>2, TouchedKeeps DEF Touched
        <4>3. QED
          BY <3>1, <4>1, <4>2 DEF CmdFrame
      <3>4. StableBody
        BY <3>1, <3>3 DEF CmdFrame, StableBody
      <3>5. QED
        BY <3>4, StableIntro
    <2>2. CASE TA_CreateEntryPoint \/ TA_DestroyEntryPoint
      BY <2>2 DEF TA_CreateEntryPoint, TA_DestroyEntryPoint,
         LiveRecordsStableStep
    <2>3. CASE \/ TA_OpenSessionEntryPoint \/ TA_CloseSessionEntryPoint
               \/ Tick \/ UNCHANGED vars
      <3>1. UNCHANGED <<g_key_storage, g_key_count>>
        BY <2>3 DEF TA_OpenSessionEntryPoint, TA_CloseSessionEntryPoint,
           Tick, vars
      <3>2. /\ g_key_count \in Nat
            /\ \A i \in 1..g_key_count : g_key_storage[i] \in Entry
        BY DEF IInv, TypeOK, Slots
      <3>3. \A i \in 1..g_key_count :
               KeepsIdentity(g_key_storage'[i], g_key_storage[i])
        BY <3>1, <3>2, UntouchedKeeps
      <3>4. StableBody
        BY <3>1, <3>2, <3>3 DEF StableBody
      <3>5. QED
        BY <3>4, StableIntro
    <2>4. QED
      BY <2>1, <2>2, <2>3 DEF Next
  <1>2. QED
    BY <1>1, IInvInvariant, PTL DEF Spec, LiveRecordsStable

-----------------------------------------------------------------------------
(* The four kinds of command step.  Every command of a live instance      *)
(* either leaves the committed slots alone and hands out no key material, *)
(* or commits a generate, or touches one slot with a successful sign, or  *)
(* hands out one slot's public value (InvokeKinds).                       *)

\* the key material a command may hand out
KeyMaterial == Signatures \cup Publics

(* A successful sign at time t keeps the key_id, the private value and the *)
(* creation time of the slot, sets its last use to t and counts one use.   *)
LEMMA TouchedRecord ==
  ASSUME NEW o \in Entry, NEW t \in Nat
  PROVE  /\ TouchedEntry(o, t).info.key_id = o.info.key_id
         /\ TouchedEntry(o, t).priv = o.priv
         /\ TouchedEntry(o, t).info.created_time = o.info.created_time
         /\ TouchedEntry(o, t).info.last_used_time = t
         /\ TouchedEntry(o, t).info.usage_count = o.info.usage_count + 1
  <1> DEFINE m == [o.info EXCEPT !.last_used_time = t, !.usage_count = @ + 1]
  <1>1. o.info \in Info
    BY DEF Entry
  <1>2. TouchedEntry(o, t) = [o EXCEPT !.info = m]
    BY DEF TouchedEntry, m
  <1>3. [o EXCEPT !.info = m].priv = o.priv /\ [o EXCEPT !.info = m].info = m
    BY DEF Entry
  <1>4. /\ m.key_id = o.info.key_id
        /\ m.created_time = o.info.created_time
        /\ m.last_used_time = t
        /\ m.usage_count = o.info.usage_count + 1
    BY <1>1 DEF Info, m
  <1>5. QED
    BY <1>2, <1>3, <1>4, Zenon

\* the committed slots 1..n are left alone
Unchanged(n) == \A i \in 1..n : g_key_storage'[i] = g_key_storage[i]

QuietStep ==
    /\ g_key_count' = g_key_count
    /\ Unchanged(g_key_count)
    /\ lastOut' \cap KeyMaterial = {}
    /\ g_operation_count' \in {g_operation_count, g_operation_count + 1}

GenStep(a, k) ==
    /\ ~StoreFull
    /\ NoMatch(a)
    /\ g_key_count' = g_key_count + 1
    /\ Unchanged(g_key_count)
    /\ g_key_storage'[g_key_count + 1].info.key_id = StoredKeyId(a)
    /\ g_key_storage'[g_key_count + 1].priv = SecretOf(k)
    /\ g_key_storage'[g_key_count + 1].info.usage_count = 0
    /\ g_key_storage'[g_key_count + 1].info.created_time = now
    /\ g_key_storage'[g_key_count + 1].info.last_used_time = now
    /\ lastOut' \cap KeyMaterial = {}
    /\ lastRet' = "TEE_SUCCESS"
    /\ g_operation_count' = g_operation_count + 1

SignStep(i) ==
    /\ g_key_count' = g_key_count
    /\ g_key_storage' = [g_key_storage EXCEPT ![i] = Touched(i)]
    /\ lastOut' = {SignatureBy(g_key_storage[i].priv.sk)}
    /\ lastRet' = "TEE_SUCCESS"
    /\ g_operation_count' = g_operation_count + 1

PubStep(i) ==
    /\ g_key_count' = g_key_count
    /\ g_key_storage' = g_key_storage
    /\ lastOut' \cap KeyMaterial = {PublicOf(g_key_storage[i].priv.sk)}
    /\ lastRet' = "TEE_SUCCESS"
    /\ g_operation_count' = g_operation_count + 1

-----------------------------------------------------------------------------
(* Addresses, the zero bytes, key infos, health and version records are   *)
(* no key material.                                                        *)
LEMMA NotKeyMaterial ==
  (Addresses \cup {Zeroed} \cup Info \cup HealthInfo \cup {VersionInfo})
      \cap KeyMaterial = {}
  <1>1. (Addresses \cup Info \cup HealthInfo \cup {VersionInfo})
           \cap KeyMaterial = {}
    BY DEF Addresses, Publics, Signatures, Sha256Tail, PublicOf, SignatureBy,
           Info, HealthInfo, VersionInfo, KeyMaterial
  <1>2. Zeroed \notin KeyMaterial
    BY ZeroedAssumption DEF KeyMaterial
  <1>3. QED
    BY <1>1, <1>2

(* A successful key generation leaves the key_id and usage_count of the   *)
(* entry it started from, the private value of a keypair and an address   *)
(* or the zero bytes.                                                      *)
LEMMA KeygenCommitted ==
  ASSUME NEW e \in Entry, NEW kt \in {SECP256K1, ED25519},
         NEW g \in KeygenResults(e, kt), g.res = "TEE_SUCCESS"
  PROVE  \E k \in KeyPairs :
            /\ g.entry.priv = SecretOf(k)
            /\ g.entry.info.key_id = e.info.key_id
            /\ g.entry.info.usage_count = e.info.usage_count
            /\ g.entry.info.created_time = e.info.created_time
            /\ g.entry.info.last_used_time = e.info.last_used_time
            /\ g.entry.info.ethereum_address \in Addresses \cup {Zeroed}
  <1>1. kt = SECP256K1
    BY KeygenResultsProps
  <1>2. PICK k \in KeyPairs, r \in KeygenOutcomes, d \in BOOLEAN :
              g = [entry |-> generate_secp256k1_keypair(e, k, r, d),
                   res |-> IF r = "OK" THEN "TEE_SUCCESS"
                                       ELSE "PRIMITIVE_FAILURE"]
    BY <1>1 DEF KeygenResults, SECP256K1, ED25519
  <1>3. r = "OK"
    BY <1>2
  <1>4. derive_ethereum_address(PublicOf(k), d) \in Addresses \cup {Zeroed}
    BY DEF derive_ethereum_address, Addresses, Publics
  <1>5. QED
    BY <1>2, <1>3, <1>4 DEF generate_secp256k1_keypair, Entry, Info

(* A command that returns before changing state, or replies with values   *)
(* that are no key material, is quiet.                                     *)
LEMMA RejectQuiet ==
  ASSUME NEW code, Reject(code)
  PROVE  QuietStep
  BY DEF Reject, QuietStep, Unchanged

LEMMA ReplyQuiet ==
  ASSUME NEW out, out \cap KeyMaterial = {}, Reply(out) \/ CountedReply(out)
  PROVE  QuietStep
  BY DEF Reply, CountedReply, QuietStep, Unchanged

(* cmd_generate_key either fails, leaving the committed slots alone and    *)
(* handing out nothing, or commits slot g_key_count + 1 with the key_id    *)
(* strncpy stored, a fresh keypair and no use, after the table was found   *)
(* not full and find_key_index found no match.                             *)
LEMMA GenerateKinds ==
  ASSUME Core, now \in Nat, cmd_generate_key
  PROVE  \/ QuietStep
         \/ \E a \in IdArgs, k \in KeyPairs : GenStep(a, k)
  <1>1. PICK a \in IdArgs, kt \in 0..KEY_TYPE_MAX : GenerateKey(a, kt)
    BY DEF cmd_generate_key
  <1>2. CASE Reject("BAD_PARAMETERS") \/ Reject("STORAGE_NO_SPACE")
             \/ Reject("KEY_ALREADY_EXISTS")
    BY <1>2, RejectQuiet
  <1>3. CASE ~StoreFull /\ NoMatch(a) /\ kt < KEY_TYPE_MAX
             /\ GenerateInSlot(a, kt)
    <2> DEFINE e0 == [ZeroEntry EXCEPT !.info = NewInfo(a, kt)]
    <2>1. kt \in {SECP256K1, ED25519}
      BY <1>3 DEF KEY_TYPE_MAX, SECP256K1, ED25519
    <2>2. /\ e0 \in Entry
          /\ e0.info.key_id = StoredKeyId(a)
          /\ e0.info.usage_count = 0
          /\ e0.info.created_time = now
          /\ e0.info.last_used_time = now
      BY <2>1, NewInfoTyped DEF NewInfo, ZeroEntry
    <2>3. NextSlot = g_key_count + 1 /\ NextSlot \notin 1..g_key_count
      BY DEF Core, NextSlot
    <2>4. PICK g \in KeygenResults(e0, kt) :
            /\ g_key_storage' = [g_key_storage EXCEPT ![NextSlot] = g.entry]
            /\ \/ /\ UNCHANGED <<g_key_count, g_operation_count>>
                  /\ lastOut' = {}
               \/ /\ ~KeygenFailed(g.res)
                  /\ GenerateCommit(NextSlot, g.entry)
      BY <1>3 DEF GenerateInSlot
    <2>5. Unchanged(g_key_count)
      BY <2>3, <2>4 DEF Core, Unchanged
    <2>6. CASE UNCHANGED <<g_key_count, g_operation_count>> /\ lastOut' = {}
      BY <2>5, <2>6 DEF QuietStep
    <2>7. CASE ~KeygenFailed(g.res) /\ GenerateCommit(NextSlot, g.entry)
      <3>1. PICK k \in KeyPairs :
                /\ g.entry.priv = SecretOf(k)
                /\ g.entry.info.key_id = StoredKeyId(a)
                /\ g.entry.info.usage_count = 0
                /\ g.entry.info.created_time = now
                /\ g.entry.info.last_used_time = now
                /\ g.entry.info.ethereum_address \in Addresses \cup {Zeroed}
        <4>1. g.res = "TEE_SUCCESS"
          BY <2>7 DEF KeygenFailed
        <4>2. \E k \in KeyPairs :
                /\ g.entry.priv = SecretOf(k)
                /\ g.entry.info.key_id = e0.info.key_id
                /\ g.entry.info.usage_count = e0.info.usage_count
                /\ g.entry.info.created_time = e0.info.created_time
                /\ g.entry.info.last_used_time = e0.info.last_used_time
                /\ g.entry.info.ethereum_address \in Addresses \cup {Zeroed}
          BY <2>1, <2>2, <4>1, KeygenCommitted
        <4>3. QED
          BY <2>2, <4>2
      <3>2. NextSlot \in Slots
        BY <1>3, <2>3 DEF Core, StoreFull, Slots
      <3>3. g_key_storage'[g_key_count + 1] = g.entry
        BY <2>3, <2>4, <3>2 DEF Core
      <3>4. lastOut' \cap KeyMaterial = {}
        <4>1. g.entry.info.ethereum_address \notin KeyMaterial
          BY <3>1, NotKeyMaterial
        <4>2. QED
          BY <2>7, <4>1 DEF GenerateCommit
      <3>5. GenStep(a, k)
        BY <1>3, <2>3, <2>5, <2>7, <3>1, <3>3, <3>4
           DEF GenerateCommit, GenStep
      <3>6. QED
        BY <3>5
    <2>8. QED
      BY <2>4, <2>6, <2>7
  <1>4. QED
    BY <1>1, <1>2, <1>3 DEF GenerateKey

(* cmd_sign_message either fails or touches the usage fields of the one   *)
(* slot it found and hands out a signature made with that slot's key.      *)
LEMMA SignKinds ==
  ASSUME Core, cmd_sign_message
  PROVE  \/ QuietStep
         \/ \E i \in 1..g_key_count : SignStep(i)
  <1>1. CASE Reject("BAD_PARAMETERS") \/ Reject("SHORT_BUFFER")
             \/ Reject("KEY_NOT_FOUND") \/ Reject("PRIMITIVE_FAILURE")
    BY <1>1, RejectQuiet
  <1>2. ASSUME NEW i \in 1..g_key_count,
               RecordUse(i, [g_key_storage[i].info EXCEPT
                               !.last_used_time = now,
                               !.usage_count = @ + 1]),
               lastOut' = {SignatureBy(g_key_storage[i].priv.sk)},
               lastRet' = "TEE_SUCCESS",
               g_operation_count' = g_operation_count + 1,
               UNCHANGED g_key_count
        PROVE  SignStep(i)
    <2>1. i \in Slots /\ g_key_storage \in [Slots -> Entry]
      BY DEF Core, Slots
    <2>2. g_key_storage' = [g_key_storage EXCEPT ![i] = Touched(i)]
      BY <1>2, <2>1 DEF RecordUse, Touched, TouchedEntry
    <2>3. QED
      BY <1>2, <2>2 DEF SignStep
  <1>3. QED
    BY <1>1, <1>2 DEF cmd_sign_message, SignWith

(* get_public_key hands out the public value of the key it found, and an *)
(* address, which is no key material.                                      *)
LEMMA PublicKeyKinds ==
  ASSUME Core, cmd_get_public_key
  PROVE  \/ QuietStep
         \/ \E i \in 1..g_key_count : PubStep(i)
  <1>1. CASE Reject("BAD_PARAMETERS") \/ Reject("SHORT_BUFFER")
             \/ Reject("KEY_NOT_FOUND")
    BY <1>1, RejectQuiet
  <1>2. ASSUME NEW i \in 1..g_key_count, CountedReply(PublicKeyResult(i))
        PROVE  PubStep(i)
    <2>1. g_key_storage[i] \in Entry
      BY DEF Core, Slots
    <2>2. PICK k \in KeyPairs : /\ g_key_storage[i].priv = SecretOf(k)
                                /\ g_key_storage[i].pub = PublicOf(k)
      <3>1. Complete(i)
        BY DEF Core
      <3>2. QED
        BY <3>1 DEF Complete
    <2>3. g_key_storage[i].info.ethereum_address \notin KeyMaterial
      BY <2>1, NotKeyMaterial DEF Entry, Info
    <2>4. PublicOf(k) \in KeyMaterial /\ g_key_storage[i].priv.sk = k
      BY <2>2 DEF KeyMaterial, Publics, SecretOf
    <2>5. PublicKeyResult(i) \cap KeyMaterial = {PublicOf(k)}
      BY <2>2, <2>3, <2>4 DEF PublicKeyResult
    <2>6. QED
      BY <1>2, <2>4, <2>5 DEF CountedReply, PubStep
  <1>3. QED
    BY <1>1, <1>2 DEF cmd_get_public_key

(* list_keys, get_version and health_check hand out no key material.      *)
LEMMA ReadOnlyKinds ==
  ASSUME Core, cmd_list_keys \/ cmd_get_version \/ cmd_health_check
  PROVE  QuietStep
  <1>1. CASE Reject("BAD_PARAMETERS") \/ Reject("SHORT_BUFFER")
    BY <1>1, RejectQuiet
  <1>2. {g_keys[i] : i \in 1..g_key_count} \cap KeyMaterial = {}
    <2>1. \A i \in 1..g_key_count : g_keys[i] \in Info
      BY DEF Core, Slots
    <2>2. QED
      BY <2>1, NotKeyMaterial
  <1>3. {VersionInfo} \cap KeyMaterial = {}
    BY NotKeyMaterial
  <1>4. {[active_sessions |-> g_session_count,
          total_operations |-> g_operation_count,
          storage_usage |-> g_key_count,
          uptime |-> now - g_start_time]} \cap KeyMaterial = {}
    BY DEF KeyMaterial, Signatures, Publics, SignatureBy, PublicOf
  <1>5. QED
    BY <1>1, <1>2, <1>3, <1>4, ReplyQuiet
       DEF cmd_list_keys, cmd_get_version, cmd_health_check

(* Every command of a live instance is a step of one of the four kinds.   *)
LEMMA InvokeKinds ==
  ASSUME IInv, TA_InvokeCommandEntryPoint
  PROVE  /\ alive /\ alive' = alive
         /\ Core
         /\ \/ QuietStep
            \/ \E a \in IdArgs, k \in KeyPairs : GenStep(a, k)
            \/ \E i \in 1..g_key_count : SignStep(i) \/ PubStep(i)
  <1>1. alive /\ alive' = alive
    BY InvokeCore DEF TA_InvokeCommandEntryPoint, Frame
  <1>2. Core /\ now \in Nat
    BY <1>1, LiveCore
  <1>3. \/ QuietStep
        \/ \E a \in IdArgs, k \in KeyPairs : GenStep(a, k)
        \/ \E i \in 1..g_key_count : SignStep(i) \/ PubStep(i)
    <2>1. CASE cmd_generate_key
      BY <1>2, <2>1, GenerateKinds
    <2>2. CASE cmd_sign_message
      BY <1>2, <2>2, SignKinds
    <2>3. CASE cmd_get_public_key
      BY <1>2, <2>3, PublicKeyKinds
    <2>4. CASE cmd_list_keys \/ cmd_get_version \/ cmd_health_check
      BY <1>2, <2>4, ReadOnlyKinds
    <2>5. CASE Reject("NOT_IMPLEMENTED") \/ Reject("BAD_PARAMETERS")
      BY <2>5, RejectQuiet
    <2>6. QED
      BY <2>1, <2>2, <2>3, <2>4, <2>5 DEF TA_InvokeCommandEntryPoint
  <1>4. QED
    BY <1>1, <1>2, <1>3


-----------------------------------------------------------------------------
(* UsageConsistent.                                                        *)

\* the timestamps and the counter of key info f are ordered at time t
Ordered(f, t) ==
    /\ g_start_time <= f.created_time
    /\ f.created_time <= f.last_used_time
    /\ f.last_used_time <= t
    /\ f.usage_count = 0 => f.last_used_time = f.created_time

LEMMA UsageOrdered ==
  UsageConsistent <=> \A i \in LiveSlots : Ordered(g_key_storage[i].info, now)
  BY DEF UsageConsistent, Ordered

(* A command keeps the timestamps ordered: it leaves the committed slots  *)
(* and the clock alone, or a sign sets a slot's last use to now, after its *)
(* creation, or a commit stamps a new slot with now, after the start.      *)
LEMMA InvokeUsage ==
  ASSUME IInv, UsageConsistent, TA_InvokeCommandEntryPoint
  PROVE  UsageConsistent'
  <1>1. /\ alive /\ alive' = alive /\ Core
        /\ \/ QuietStep
           \/ \E a \in IdArgs, k \in KeyPairs : GenStep(a, k)
           \/ \E i \in 1..g_key_count : SignStep(i) \/ PubStep(i)
    BY InvokeKinds
  <1>2. now' = now /\ g_start_time' = g_start_time
    BY InvokeCore DEF Frame
  <1>3. LiveSlots = 1..g_key_count /\ LiveSlots' = 1..g_key_count'
    BY <1>1 DEF LiveSlots
  <1>4. /\ \A i \in 1..g_key_count : Ordered(g_key_storage[i].info, now)
        /\ now \in Nat /\ g_start_time \in Nat /\ g_start_time <= now
        /\ g_key_count \in Nat
        /\ \A i \in 1..g_key_count : g_key_storage[i] \in Entry
    BY <1>1, <1>3, UsageOrdered, LiveCore DEF Core, Slots
  <1>5. SUFFICES \A i \in 1..g_key_count' : Ordered(g_key_storage'[i].info, now)
    BY <1>2, <1>3 DEF UsageConsistent, Ordered
  <1>6. CASE QuietStep \/ \E i \in 1..g_key_count : PubStep(i)
    BY <1>4, <1>6 DEF QuietStep, PubStep, Unchanged
  <1>7. CASE \E i \in 1..g_key_count : SignStep(i)
    <2>1. PICK i \in 1..g_key_count : SignStep(i)
      BY <1>7
    <2>2. i \in Slots /\ g_key_storage \in [Slots -> Entry]
      BY <1>1 DEF Core, Slots
    <2>3. \A j \in (1..g_key_count) \ {i} : g_key_storage'[j] = g_key_storage[j]
      BY <2>1, <2>2 DEF SignStep
    <2>4. g_key_storage'[i] = Touched(i)
      BY <2>1, <2>2 DEF SignStep
    <2>5. Ordered(g_key_storage'[i].info, now)
      <3>1. /\ Touched(i).info.created_time = g_key_storage[i].info.created_time
            /\ Touched(i).info.last_used_time = now
            /\ Touched(i).info.usage_count = g_key_storage[i].info.usage_count + 1
        BY <1>4, <2>2, TouchedRecord DEF Touched
      <3>2. /\ g_key_storage'[i].info.created_time = g_key_storage[i].info.created_time
            /\ g_key_storage'[i].info.last_used_time = now
            /\ g_key_storage'[i].info.usage_count = g_key_storage[i].info.usage_count + 1
        BY <2>4, <3>1
      <3>3. g_key_storage[i].info.usage_count \in Nat
        BY <2>2 DEF Entry, Info
      <3>4. /\ g_start_time <= g_key_storage[i].info.created_time
            /\ g_key_storage[i].info.created_time <= now
        BY <1>4, <2>2 DEF Ordered, Entry, Info
      <3>5. QED
        BY <1>4, <3>2, <3>3, <3>4 DEF Ordered
    <2>6. QED
      BY <1>4, <2>1, <2>3, <2>5 DEF SignStep
  <1>8. CASE \E a \in IdArgs, k \in KeyPairs : GenStep(a, k)
    <2>1. PICK a \in IdArgs, k \in KeyPairs : GenStep(a, k)
      BY <1>8
    <2>2. Ordered(g_key_storage'[g_key_count + 1].info, now)
      BY <1>4, <2>1 DEF GenStep, Ordered
    <2>3. 1..g_key_count' = (1..g_key_count) \cup {g_key_count + 1}
      BY <1>4, <2>1 DEF GenStep
    <2>4. QED
      BY <1>4, <2>1, <2>2, <2>3 DEF GenStep, Unchanged
  <1>9. QED
    BY <1>1, <1>6, <1>7, <1>8

LEMMA StepUsage ==
  ASSUME IInv, UsageConsistent, [Next]_vars
  PROVE  UsageConsistent'
  <1>1. CASE TA_InvokeCommandEntryPoint
    BY <1>1, InvokeUsage
  <1>2. CASE TA_CreateEntryPoint \/ TA_DestroyEntryPoint
    <2>1. LiveSlots' = {}
      BY <1>2 DEF TA_CreateEntryPoint, TA_DestroyEntryPoint, LiveSlots
    <2>2. QED
      BY <2>1 DEF UsageConsistent
  <1>3. CASE Tick
    <2>1. /\ UNCHANGED <<alive, g_key_storage, g_key_count, g_start_time>>
          /\ now' = now + 1
      BY <1>3 DEF Tick
    <2>2. \A i \in LiveSlots : g_key_storage[i].info.last_used_time \in Nat
      BY DEF IInv, TypeOK, LiveSlots, Slots, Entry, Info
    <2>3. QED
      BY <2>1, <2>2 DEF UsageConsistent, LiveSlots, IInv, TypeOK
  <1>4. CASE \/ TA_OpenSessionEntryPoint \/ TA_CloseSessionEntryPoint
             \/ UNCHANGED vars
    <2>1. UNCHANGED <<alive, g_key_storage, g_key_count, g_start_time, now>>
      BY <1>4 DEF TA_OpenSessionEntryPoint, TA_CloseSessionEntryPoint, vars
    <2>2. QED
      BY <2>1 DEF UsageConsistent, LiveSlots
  <1>5. QED
    BY <1>1, <1>2, <1>3, <1>4 DEF Next

(* The timestamps of every committed key stay ordered, for every value of *)
(* the constants: the instance started before the key was created          *)
(* (TA_CreateEntryPoint stamps g_start_time, cmd_generate_key              *)
(* created_time), the key was last used between its creation and now      *)
(* (cmd_sign_message stamps last_used_time only on success), and a key     *)
(* never used to sign still carries its creation time.                     *)
THEOREM UsageConsistentInvariant == Spec => []UsageConsistent
  <1>1. Init => UsageConsistent
    BY DEF Init, UsageConsistent, LiveSlots
  <1>2. QED
    BY <1>1, StepUsage, IInvInvariant, PTL DEF Spec

=============================================================================

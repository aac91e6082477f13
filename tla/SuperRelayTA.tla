---------------------------- MODULE SuperRelayTA ----------------------------
(***************************************************************************)
(* The SuperRelay trusted application (src/ta/super_relay_ta/             *)
(* super_relay_ta.c): a single-instance OP-TEE TA that keeps up to         *)
(* SR_MAX_KEYS keypairs in a static table, and serves the commands of      *)
(* TA_InvokeCommandEntryPoint one at a time.                               *)
(*                                                                         *)
(* State.  The two parallel tables of the C file, g_key_storage (secret    *)
(* and public material plus an sr_key_info_t) and g_keys (the public       *)
(* sr_key_info_t copies that list_keys returns), the counters g_key_count, *)
(* g_session_count, g_operation_count and g_start_time, the TEE clock, and *)
(* what the last command returned and wrote to the caller's buffers.       *)
(*                                                                         *)
(* Data abstraction.  A key_id is the sequence of bytes the C code reads   *)
(* from the caller's buffer; the caller's buffer is a record               *)
(* [mem, size]: mem are the bytes strncmp can read from the buffer start   *)
(* (SR_MAX_KEY_ID_SIZE of them, the ones beyond size included: the code    *)
(* reads them), size is memref.size.  A keypair is a model value k; its    *)
(* private scalar, public point, the SHA-256-and-truncate address and an   *)
(* ECDSA signature made with it are records tagged with k.  Zeroed is the  *)
(* all-zero byte pattern memset leaves in a buffer.                        *)
(***************************************************************************)
EXTENDS Naturals, Sequences, FiniteSets

CONSTANTS
    MaxKeys,        \* SR_MAX_KEYS
    MaxKeyIdSize,   \* SR_MAX_KEY_ID_SIZE
    IdBytes,        \* the non-zero byte values a key_id buffer may hold
    IdArgs,         \* the key_id buffers ([mem, size]) callers pass
    KeyPairs,       \* the keypairs the TEE key generator may produce
    Zeroed,         \* the all-zero bytes of a cleared buffer
    MaxTime,        \* bound on the TEE system time (seconds)
    MaxOps,         \* bound on g_operation_count
    MaxSessions     \* bound on the number of open sessions

NUL == 0

ASSUME BoundsAssumption ==
    /\ MaxKeys \in Nat \ {0}
    /\ MaxKeyIdSize \in Nat \ {0}
    /\ MaxTime \in Nat
    /\ MaxOps \in Nat
    /\ MaxSessions \in Nat

ASSUME IdArgsAssumption ==
    /\ IdBytes \subseteq Nat \ {0}
    /\ IdArgs \subseteq [mem : [1..MaxKeyIdSize -> IdBytes \cup {NUL}],
                         size : 0..MaxKeyIdSize]

\* super_relay_ta.h: sr_key_type_t and sr_key_status_t
SECP256K1 == 0
ED25519 == 1
KEY_TYPE_MAX == 2
STATUS_ACTIVE == 0

-----------------------------------------------------------------------------
(* Key material.  The TEE produces a keypair k; the code copies its        *)
(* private value and its X || Y public value into the entry.               *)
SecretOf(k) == [sk |-> k]
PublicOf(k) == [pk |-> k]
\* SHA-256 over the 64-byte public key, bytes 12..31 of the digest
Sha256Tail(pub) == [eth |-> pub]
\* TEE_AsymmetricSignDigest with the private value of k
SignatureBy(k) == [sig |-> k]

Secrets == {SecretOf(k) : k \in KeyPairs}
Publics == {PublicOf(k) : k \in KeyPairs}
Addresses == {Sha256Tail(p) : p \in Publics}
Signatures == {SignatureBy(k) : k \in KeyPairs}

\* the zero bytes memset leaves are no key, address or signature value
ASSUME ZeroedAssumption ==
    Zeroed \notin Secrets \cup Publics \cup Addresses \cup Signatures

(* C strings.  CLen(s, n) is the number of bytes before the first NUL     *)
(* among the first n of s; CStr(s, n) those bytes.                         *)
CLen(s, n) == Cardinality({i \in 1..n : \A j \in 1..i : s[j] # NUL})
CStr(s, n) == SubSeq(s, 1, CLen(s, n))

\* what strncmp(.., key_id, SR_MAX_KEY_ID_SIZE) reads from the caller
LookupKeyId(a) == CStr(a.mem, MaxKeyIdSize)
\* what strncpy(entry->key_id, key_id, key_id_len) and the NUL at
\* key_id[key_id_len] store
StoredKeyId(a) == CStr(a.mem, a.size)

KeyIdValues == {StoredKeyId(a) : a \in IdArgs} \cup {<<>>}

Info == [key_id : KeyIdValues,
         key_type : {SECP256K1, ED25519},
         status : {STATUS_ACTIVE},
         created_time : Nat,
         last_used_time : Nat,
         usage_count : Nat,
         ethereum_address : Addresses \cup {Zeroed}]

Entry == [priv : Secrets \cup {Zeroed},
          pub : Publics \cup {Zeroed},
          info : Info]

ZeroInfo == [key_id |-> <<>>, key_type |-> SECP256K1, status |-> STATUS_ACTIVE,
             created_time |-> 0, last_used_time |-> 0, usage_count |-> 0,
             ethereum_address |-> Zeroed]

ZeroEntry == [priv |-> Zeroed, pub |-> Zeroed, info |-> ZeroInfo]

HealthInfo == [active_sessions : Nat, total_operations : Nat,
               storage_usage : Nat, uptime : Nat]
VersionInfo == [major |-> 1, minor |-> 0, patch |-> 0]

\* anything a command may write to the caller's output buffers
OutValue == Secrets \cup Publics \cup Addresses \cup {Zeroed}
              \cup Signatures \cup Info \cup HealthInfo \cup {VersionInfo}

RetCodes == {"NONE", "TEE_SUCCESS", "BAD_PARAMETERS", "STORAGE_NO_SPACE",
             "KEY_ALREADY_EXISTS", "KEY_NOT_FOUND", "NOT_IMPLEMENTED",
             "SHORT_BUFFER", "PRIMITIVE_FAILURE"}

-----------------------------------------------------------------------------
VARIABLES
    alive,              \* the TA instance exists (created, not destroyed)
    g_key_storage,      \* slot -> entry: secret, public and key info
    g_keys,             \* slot -> sr_key_info_t copy returned by list_keys
    g_key_count,        \* number of committed slots
    g_session_count,
    g_operation_count,
    g_start_time,
    now,                \* TEE_GetSystemTime().seconds
    openSessions,       \* sessions the TEE core has open on the instance
    lastRet,            \* TEE_Result of the last entry point call
    lastOut             \* values the last command wrote to output buffers

vars == <<alive, g_key_storage, g_keys, g_key_count, g_session_count,
          g_operation_count, g_start_time, now, openSessions, lastRet, lastOut>>

Slots == 1..MaxKeys

TypeOK ==
    /\ alive \in BOOLEAN
    /\ g_key_storage \in [Slots -> Entry]
    /\ g_keys \in [Slots -> Info]
    /\ g_key_count \in 0..MaxKeys
    /\ g_session_count \in Nat
    /\ g_operation_count \in Nat
    /\ g_start_time \in Nat
    /\ now \in Nat
    /\ openSessions \in Nat
    /\ lastRet \in RetCodes
    /\ lastOut \subseteq OutValue

Init ==
    /\ alive = FALSE
    /\ g_key_storage = [i \in Slots |-> ZeroEntry]
    /\ g_keys = [i \in Slots |-> ZeroInfo]
    /\ g_key_count = 0
    /\ g_session_count = 0
    /\ g_operation_count = 0
    /\ g_start_time = 0
    /\ now = 0
    /\ openSessions = 0
    /\ lastRet = "NONE"
    /\ lastOut = {}

-----------------------------------------------------------------------------
(* Helpers of the command handlers.                                        *)

\* key_id_len == 0 || key_id_len >= SR_MAX_KEY_ID_SIZE is rejected
ValidKeyIdLen(a) == a.size # 0 /\ a.size < MaxKeyIdSize

\* find_key_index: strncmp over slots 0 .. g_key_count-1, first match wins
KeyIdMatches(i, a) == g_key_storage[i].info.key_id = LookupKeyId(a)
FirstMatch(i, a) ==
    /\ KeyIdMatches(i, a)
    /\ \A j \in 1..(i - 1) : ~KeyIdMatches(j, a)
\* mutant of NoMatch: the scan stops one slot short
NoMatch_SkipLast(a) == \A i \in 1..(g_key_count - 1) : ~KeyIdMatches(i, a)
NoMatch(a) == \A i \in 1..g_key_count : ~KeyIdMatches(i, a)

\* a command that returns code before changing any TA state
Reject(code) ==
    /\ lastRet' = code
    /\ lastOut' = {}
    /\ UNCHANGED <<alive, g_key_storage, g_keys, g_key_count, g_session_count,
                   g_operation_count, g_start_time, now, openSessions>>

\* a successful command that only writes out to the caller
Reply(out) ==
    /\ lastRet' = "TEE_SUCCESS"
    /\ lastOut' = out
    /\ UNCHANGED <<alive, g_key_storage, g_keys, g_key_count, g_session_count,
                   g_operation_count, g_start_time, now, openSessions>>

\* a successful read of key state: Reply plus g_operation_count++
CountedReply(out) ==
    /\ g_operation_count < MaxOps
    /\ g_operation_count' = g_operation_count + 1
    /\ lastRet' = "TEE_SUCCESS"
    /\ lastOut' = out
    /\ UNCHANGED <<alive, g_key_storage, g_keys, g_key_count, g_session_count,
                   g_start_time, now, openSessions>>

\* g_key_count >= SR_MAX_KEYS: the table is full
\* mutant of StoreFull: > for >=
StoreFull_OffByOne == g_key_count > MaxKeys
StoreFull == g_key_count >= MaxKeys

\* key_entry = &g_key_storage[g_key_count]
NextSlot == g_key_count + 1

(* The entry a generate writes into slot g_key_count: memset, then the     *)
(* metadata of lines 265-275.                                              *)
\* mutant of NewInfo: last_used_time left at the memset zero
NewInfo_NoLastUsed(a, kt) ==
    [key_id |-> StoredKeyId(a), key_type |-> kt, status |-> STATUS_ACTIVE,
     created_time |-> now, last_used_time |-> 0, usage_count |-> 0,
     ethereum_address |-> Zeroed]
NewInfo(a, kt) ==
    [key_id |-> StoredKeyId(a),
     key_type |-> kt,
     status |-> STATUS_ACTIVE,
     created_time |-> now,
     last_used_time |-> now,
     usage_count |-> 0,
     ethereum_address |-> Zeroed]

(* derive_ethereum_address: on a digest failure it zero-fills the address  *)
(* and returns nothing.                                                    *)
derive_ethereum_address(pub, digestOK) ==
    IF digestOK THEN Sha256Tail(pub) ELSE Zeroed

(* generate_secp256k1_keypair, by how far it gets: a failure before the    *)
(* private value is extracted writes nothing, a failure extracting X or Y  *)
(* leaves the private value in the entry, success fills the entry.         *)
KeygenOutcomes == {"FAIL_BEFORE_PRIV", "FAIL_AFTER_PRIV", "OK"}
generate_secp256k1_keypair(e, k, r, digestOK) ==
    CASE r = "FAIL_BEFORE_PRIV" -> e
      [] r = "FAIL_AFTER_PRIV" -> [e EXCEPT !.priv = SecretOf(k)]
      [] r = "OK" ->
           [e EXCEPT !.priv = SecretOf(k), !.pub = PublicOf(k),
                     !.info.ethereum_address =
                         derive_ethereum_address(PublicOf(k), digestOK)]

(* The switch on key_type: the entry left in the slot and res.             *)
KeygenResults(e, kt) ==
    IF kt = ED25519
    THEN {[entry |-> e, res |-> "NOT_IMPLEMENTED"]}
    ELSE {[entry |-> generate_secp256k1_keypair(e, k, r, d),
           res |-> IF r = "OK" THEN "TEE_SUCCESS" ELSE "PRIMITIVE_FAILURE"] :
              k \in KeyPairs, r \in KeygenOutcomes, d \in BOOLEAN}

\* if (res != TEE_SUCCESS) return res;
\* mutant of KeygenFailed: the result of key generation is not checked
KeygenFailed_Ignored(res) == FALSE
KeygenFailed(res) == res # "TEE_SUCCESS"

(* Lines 300-312: the address is copied out and the slot committed to     *)
(* both tables.                                                            *)
\* mutant of GenerateCommit: g_operation_count++ forgotten
GenerateCommit_NoCount(slot, e) ==
    /\ g_operation_count < MaxOps
    /\ g_keys' = [g_keys EXCEPT ![slot] = e.info]
    /\ g_key_count' = slot
    /\ UNCHANGED g_operation_count
    /\ lastRet' = "TEE_SUCCESS"
    /\ lastOut' = {e.info.ethereum_address}
GenerateCommit(slot, e) ==
    /\ g_operation_count < MaxOps
    /\ g_keys' = [g_keys EXCEPT ![slot] = e.info]
    /\ g_key_count' = slot
    /\ g_operation_count' = g_operation_count + 1
    /\ lastRet' = "TEE_SUCCESS"
    /\ lastOut' = {e.info.ethereum_address}

(* cmd_generate_key after the parameter checks: slot g_key_count is        *)
(* written, key generation runs, the output buffer is checked, and only    *)
(* then is the slot committed.  A failure leaves the slot written.         *)
\* mutant of GenerateInSlot: the slot is committed before the buffer check
GenerateInSlot_CommitFirst(a, kt) ==
    LET slot == NextSlot IN
    \E g \in KeygenResults([ZeroEntry EXCEPT !.info = NewInfo(a, kt)], kt) :
       /\ g_key_storage' = [g_key_storage EXCEPT ![slot] = g.entry]
       /\ \/ /\ KeygenFailed(g.res)
             /\ lastRet' = g.res
             /\ lastOut' = {}
             /\ UNCHANGED <<g_keys, g_key_count, g_operation_count>>
          \/ /\ ~KeygenFailed(g.res)
             /\ g_operation_count < MaxOps
             /\ g_keys' = [g_keys EXCEPT ![slot] = g.entry.info]
             /\ g_key_count' = slot
             /\ g_operation_count' = g_operation_count + 1
             /\ lastRet' = "SHORT_BUFFER"
             /\ lastOut' = {}
          \/ /\ ~KeygenFailed(g.res)
             /\ GenerateCommit(slot, g.entry)
GenerateInSlot(a, kt) ==
    LET slot == NextSlot IN
    \E g \in KeygenResults([ZeroEntry EXCEPT !.info = NewInfo(a, kt)], kt) :
       /\ g_key_storage' = [g_key_storage EXCEPT ![slot] = g.entry]
       /\ \/ /\ KeygenFailed(g.res)
             /\ lastRet' = g.res
             /\ lastOut' = {}
             /\ UNCHANGED <<g_keys, g_key_count, g_operation_count>>
          \/ /\ ~KeygenFailed(g.res)
             /\ lastRet' = "SHORT_BUFFER"         \* params[2] too small
             /\ lastOut' = {}
             /\ UNCHANGED <<g_keys, g_key_count, g_operation_count>>
          \/ /\ ~KeygenFailed(g.res)
             /\ GenerateCommit(slot, g.entry)

(* cmd_generate_key called with the key_id buffer a (params[0]) and the   *)
(* key type kt (params[1].value.a).  The capacity test comes before the    *)
(* parameters are read and before the duplicate scan.                      *)
GenerateKey(a, kt) ==
    \/ Reject("BAD_PARAMETERS")                  \* param_types mismatch
    \/ /\ StoreFull
       /\ Reject("STORAGE_NO_SPACE")
    \/ /\ ~StoreFull
       /\ \/ /\ ~ValidKeyIdLen(a) \/ kt >= KEY_TYPE_MAX
             /\ Reject("BAD_PARAMETERS")
          \/ /\ ValidKeyIdLen(a) /\ kt < KEY_TYPE_MAX
             /\ ~NoMatch(a)
             /\ Reject("KEY_ALREADY_EXISTS")
          \/ /\ ValidKeyIdLen(a) /\ kt < KEY_TYPE_MAX
             /\ NoMatch(a)
             /\ GenerateInSlot(a, kt)
             /\ UNCHANGED <<alive, g_session_count, g_start_time, now,
                            openSessions>>

cmd_generate_key == \E a \in IdArgs, kt \in 0..KEY_TYPE_MAX : GenerateKey(a, kt)

(* Lines 400-403: the updated info is stored in both tables.              *)
\* mutant of RecordUse: g_keys[key_index] is not refreshed
RecordUse_NoMirror(i, info) ==
    /\ g_key_storage' = [g_key_storage EXCEPT ![i].info = info]
    /\ UNCHANGED g_keys
RecordUse(i, info) ==
    /\ g_key_storage' = [g_key_storage EXCEPT ![i].info = info]
    /\ g_keys' = [g_keys EXCEPT ![i] = info]

(* cmd_sign_message on slot i once the key is found.  The code's           *)
(* status # ACTIVE and Ed25519 branches are guards here: no committed key  *)
(* has another status or type (LiveRecordsComplete).                       *)
\* mutant of SignWith: usage statistics updated before the result is known
SignWith_EarlyUse(i) ==
    LET e == g_key_storage[i]
        info == [e.info EXCEPT !.last_used_time = now, !.usage_count = @ + 1]
    IN  /\ e.info.status = STATUS_ACTIVE
        /\ e.info.key_type = SECP256K1
        /\ g_operation_count < MaxOps
        /\ RecordUse(i, info)
        /\ \/ /\ lastRet' = "PRIMITIVE_FAILURE"
              /\ lastOut' = {}
              /\ UNCHANGED g_operation_count
           \/ /\ g_operation_count' = g_operation_count + 1
              /\ lastRet' = "TEE_SUCCESS"
              /\ lastOut' = {SignatureBy(e.priv.sk)}
        /\ UNCHANGED <<alive, g_key_count, g_session_count, g_start_time, now,
                       openSessions>>
SignWith(i) ==
    LET e == g_key_storage[i]
        info == [e.info EXCEPT !.last_used_time = now, !.usage_count = @ + 1]
    IN  /\ e.info.status = STATUS_ACTIVE
        /\ e.info.key_type = SECP256K1
        /\ \/ Reject("PRIMITIVE_FAILURE")        \* sign_message_ecdsa failed
           \/ /\ g_operation_count < MaxOps
              /\ RecordUse(i, info)
              /\ g_operation_count' = g_operation_count + 1
              /\ lastRet' = "TEE_SUCCESS"
              /\ lastOut' = {SignatureBy(e.priv.sk)}
              /\ UNCHANGED <<alive, g_key_count, g_session_count,
                             g_start_time, now, openSessions>>

cmd_sign_message ==
    \/ Reject("BAD_PARAMETERS")                  \* param_types mismatch
    \/ \E a \in IdArgs :
       \/ /\ ~ValidKeyIdLen(a)
          /\ Reject("BAD_PARAMETERS")
       \/ /\ ValidKeyIdLen(a)
          /\ \/ Reject("BAD_PARAMETERS")         \* hash_len # 32
             \/ Reject("SHORT_BUFFER")           \* params[2] too small
             \/ /\ NoMatch(a)
                /\ Reject("KEY_NOT_FOUND")
             \/ \E i \in 1..g_key_count :
                  /\ FirstMatch(i, a)
                  /\ SignWith(i)

(* Lines 456-460: the public key and the address are copied out.         *)
\* mutant of PublicKeyResult: the private buffer copied for the public one
PublicKeyResult_Priv(i) ==
    {g_key_storage[i].priv, g_key_storage[i].info.ethereum_address}
PublicKeyResult(i) ==
    {g_key_storage[i].pub, g_key_storage[i].info.ethereum_address}

cmd_get_public_key ==
    \/ Reject("BAD_PARAMETERS")                  \* param_types mismatch
    \/ \E a \in IdArgs :
       \/ /\ ~ValidKeyIdLen(a)
          /\ Reject("BAD_PARAMETERS")
       \/ /\ ValidKeyIdLen(a)
          /\ \/ Reject("SHORT_BUFFER")           \* params[1] too small
             \/ /\ NoMatch(a)
                /\ Reject("KEY_NOT_FOUND")
             \/ \E i \in 1..g_key_count :
                  /\ FirstMatch(i, a)
                  /\ CountedReply(PublicKeyResult(i))

cmd_list_keys ==
    \/ Reject("BAD_PARAMETERS")
    \/ Reject("SHORT_BUFFER")
    \/ CountedReply({g_keys[i] : i \in 1..g_key_count})

cmd_get_version ==
    \/ Reject("BAD_PARAMETERS")
    \/ Reject("SHORT_BUFFER")
    \/ Reply({VersionInfo})

cmd_health_check ==
    \/ Reject("BAD_PARAMETERS")
    \/ Reject("SHORT_BUFFER")
    \/ Reply({[active_sessions |-> g_session_count,
               total_operations |-> g_operation_count,
               storage_usage |-> g_key_count,
               uptime |-> now - g_start_time]})

-----------------------------------------------------------------------------
(* Entry points.                                                           *)

TA_CreateEntryPoint ==
    /\ ~alive
    /\ alive' = TRUE
    /\ g_key_storage' = [i \in Slots |-> ZeroEntry]
    /\ g_keys' = [i \in Slots |-> ZeroInfo]
    /\ g_key_count' = 0
    /\ g_session_count' = 0
    /\ g_operation_count' = 0
    /\ g_start_time' = now
    /\ lastRet' = "NONE"
    /\ lastOut' = {}
    /\ UNCHANGED <<now, openSessions>>

\* the TEE destroys the instance once no session is open on it
TA_DestroyEntryPoint ==
    /\ alive
    /\ openSessions = 0
    /\ alive' = FALSE
    /\ g_key_storage' = [i \in Slots |-> ZeroEntry]
    /\ g_keys' = [i \in Slots |-> ZeroInfo]
    /\ lastRet' = "NONE"
    /\ lastOut' = {}
    /\ UNCHANGED <<g_key_count, g_session_count, g_operation_count,
                   g_start_time, now, openSessions>>

\* mutant of TA_OpenSessionEntryPoint: the global state is reset per session
TA_OpenSessionEntryPoint_Reinit ==
    /\ alive
    /\ openSessions < MaxSessions
    /\ openSessions' = openSessions + 1
    /\ g_session_count' = g_session_count + 1
    /\ g_key_storage' = [i \in Slots |-> ZeroEntry]
    /\ g_keys' = [i \in Slots |-> ZeroInfo]
    /\ g_key_count' = 0
    /\ lastRet' = "TEE_SUCCESS"
    /\ lastOut' = {}
    /\ UNCHANGED <<alive, g_operation_count, g_start_time, now>>
TA_OpenSessionEntryPoint ==
    /\ alive
    /\ openSessions < MaxSessions
    /\ openSessions' = openSessions + 1
    /\ g_session_count' = g_session_count + 1
    /\ lastRet' = "TEE_SUCCESS"
    /\ lastOut' = {}
    /\ UNCHANGED <<alive, g_key_storage, g_keys, g_key_count,
                   g_operation_count, g_start_time, now>>

\* mutant of TA_CloseSessionEntryPoint: the floor test off by one
TA_CloseSessionEntryPoint_FloorOffByOne ==
    /\ alive
    /\ openSessions > 0
    /\ openSessions' = openSessions - 1
    /\ g_session_count' = IF g_session_count > 1 THEN g_session_count - 1
                                                 ELSE g_session_count
    /\ lastRet' = "NONE"
    /\ lastOut' = {}
    /\ UNCHANGED <<alive, g_key_storage, g_keys, g_key_count,
                   g_operation_count, g_start_time, now>>
TA_CloseSessionEntryPoint ==
    /\ alive
    /\ openSessions > 0
    /\ openSessions' = openSessions - 1
    /\ g_session_count' = IF g_session_count > 0 THEN g_session_count - 1
                                                 ELSE g_session_count
    /\ lastRet' = "NONE"
    /\ lastOut' = {}
    /\ UNCHANGED <<alive, g_key_storage, g_keys, g_key_count,
                   g_operation_count, g_start_time, now>>

\* the TEE serialises the commands of all sessions of the single instance
TA_InvokeCommandEntryPoint ==
    /\ alive
    /\ openSessions > 0
    /\ \/ cmd_generate_key
       \/ cmd_sign_message
       \/ cmd_get_public_key
       \/ cmd_list_keys
       \/ cmd_get_version
       \/ cmd_health_check
       \/ Reject("NOT_IMPLEMENTED")              \* IMPORT_KEY, DELETE_KEY
       \/ Reject("BAD_PARAMETERS")               \* unknown cmd_id

\* TEE_GetSystemTime does not go back during the life of an instance
Tick ==
    /\ now < MaxTime
    /\ now' = now + 1
    /\ UNCHANGED <<alive, g_key_storage, g_keys, g_key_count, g_session_count,
                   g_operation_count, g_start_time, openSessions, lastRet,
                   lastOut>>

Next ==
    \/ TA_CreateEntryPoint
    \/ TA_DestroyEntryPoint
    \/ TA_OpenSessionEntryPoint
    \/ TA_CloseSessionEntryPoint
    \/ TA_InvokeCommandEntryPoint
    \/ Tick

Spec == Init /\ [][Next]_vars

-----------------------------------------------------------------------------
(* Properties.                                                             *)

\* the committed slots of a live instance
LiveSlots == IF alive THEN 1..g_key_count ELSE {}

\* sum of usage_count over the committed slots
UsageSum ==
    LET s[n \in 0..g_key_count] ==
            IF n = 0 THEN 0 ELSE s[n - 1] + g_key_storage[n].info.usage_count
    IN  s[g_key_count]

(* The two parallel tables agree: every committed slot of g_keys (what     *)
(* list_keys returns) equals the info of the same slot of g_key_storage    *)
(* (what sign_message updates), and the slots beyond g_key_count of g_keys *)
(* are zero, whatever generate attempts failed in them.                    *)
StoreMirror ==
    \A i \in Slots :
        g_keys[i] = IF i <= g_key_count THEN g_key_storage[i].info ELSE ZeroInfo

(* Every committed key holds a whole secp256k1 keypair: the private and    *)
(* public values of one generated keypair.  No failed or Ed25519 generate  *)
(* is ever committed, which makes the ACCESS_DENIED and Ed25519 branches   *)
(* of cmd_sign_message dead code.                                          *)
LiveRecordsComplete ==
    \A i \in LiveSlots :
        /\ g_key_storage[i].info.key_type = SECP256K1
        /\ \E k \in KeyPairs :
              /\ g_key_storage[i].priv = SecretOf(k)
              /\ g_key_storage[i].pub = PublicOf(k)

(* The timestamps of a committed key are ordered: the instance started     *)
(* before the key was created, it was last used between its creation and  *)
(* now, and a key never used to sign still carries its creation time.      *)
UsageConsistent ==
    \A i \in LiveSlots :
        LET f == g_key_storage[i].info IN
        /\ g_start_time <= f.created_time
        /\ f.created_time <= f.last_used_time
        /\ f.last_used_time <= now
        /\ f.usage_count = 0 => f.last_used_time = f.created_time

(* g_operation_count counts at least one operation per committed key (its *)
(* generate) and one per use recorded in a usage_count (its signs).        *)
OpAccounting ==
    alive => g_operation_count >= g_key_count + UsageSum

(* A command that fails changes no committed state: neither table, nor     *)
(* g_key_count, nor g_operation_count (spec section 7).                    *)
FailureAtomicStep ==
    lastRet' \notin {"TEE_SUCCESS", "NONE"} =>
        /\ UNCHANGED <<g_keys, g_key_count, g_operation_count>>
        /\ \A i \in 1..g_key_count : g_key_storage'[i] = g_key_storage[i]
FailureAtomic == [][FailureAtomicStep]_vars

(* While the instance lives, the table is append-only and a committed key *)
(* keeps its identity, its keypair, its address and its creation time;    *)
(* only last_used_time and a growing usage_count may change.              *)
LiveRecordsStableStep ==
    alive /\ alive' =>
        /\ g_key_count' >= g_key_count
        /\ \A i \in 1..g_key_count :
             LET o == g_key_storage[i]
                 n == g_key_storage'[i]
             IN  /\ n.priv = o.priv
                 /\ n.pub = o.pub
                 /\ n.info.key_id = o.info.key_id
                 /\ n.info.key_type = o.info.key_type
                 /\ n.info.ethereum_address = o.info.ethereum_address
                 /\ n.info.created_time = o.info.created_time
                 /\ n.info.usage_count >= o.info.usage_count
LiveRecordsStable == [][LiveRecordsStableStep]_vars

(* The active_sessions figure of health_check is exact: while the         *)
(* instance lives, g_session_count equals the number of sessions the TEE   *)
(* has open on it, through every open, close, destroy and re-create        *)
(* (spec section 8: the net of open_session/close_session, never           *)
(* negative).                                                              *)
SessionsAccurate ==
    alive => g_session_count = openSessions

(* No command ever writes a private value to a caller's output buffer.    *)
NoSecretOutput == lastOut \cap Secrets = {}

(* Two committed keys never share a key_id: find_key_index can reach      *)
(* every committed key (spec section 3).                                   *)
KeyIdsUnique ==
    \A i, j \in LiveSlots :
        i # j => g_key_storage[i].info.key_id # g_key_storage[j].info.key_id

(* No committed key has an empty key_id (spec section 4.2).               *)
NonEmptyKeyIds ==
    \A i \in LiveSlots : g_key_storage[i].info.key_id # <<>>

(* The address of every committed key is the hash-and-truncate of its     *)
(* public key (spec section 8).                                            *)
AddressMatchesPublicKey ==
    \A i \in LiveSlots :
        g_key_storage[i].info.ethereum_address = Sha256Tail(g_key_storage[i].pub)

(* A failed generate leaves no partial record behind: every slot beyond   *)
(* g_key_count is zero (spec section 4.2).                                 *)
NoPartialRecord ==
    \A i \in Slots : i > g_key_count => g_key_storage[i] = ZeroEntry

=============================================================================

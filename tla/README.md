# SuperRelay TA — TLA+ models, model-checking runs and proofs

This directory is a formal model of the SuperRelay trusted application.
The TA lives in `src/ta/super_relay_ta/`: `super_relay_ta.c`, `include/super_relay_ta.h` and `user_ta_header_defines.h`.
The directory holds:

* TLA+ modules that model the TA;
* TLC configurations that model-check the modules on small instances;
* TLAPS proofs that hold for every value of the constants.

## 1. The system

The TA is an OP-TEE application built with the flags `TA_FLAG_SINGLE_INSTANCE | TA_FLAG_MULTI_SESSION | TA_FLAG_INSTANCE_KEEP_ALIVE`.
There is one instance, several sessions may be open on it, and the TEE core runs its entry points one at a time.
So there is no concurrency inside the TA. Sessions interleave at the granularity of whole entry-point calls, and that is exactly what the model's `Next` does.

| Part (spec.md §2) | Code | State it owns | Operations |
|---|---|---|---|
| Key Store | `g_key_storage[16]`, `g_keys[16]`, `g_key_count`, `find_key_index` (c:17-57) | two parallel tables: the full entry (secret, public, info) and the public `sr_key_info_t` copy | lookup with `strncmp`, append |
| Key Lifecycle Engine | `cmd_generate_key`, `generate_secp256k1_keypair`, `derive_ethereum_address`, `cmd_get_public_key`, `cmd_list_keys` (c:59-140, 213-317, 412-501) | — | generate, get public key, list |
| Signing Engine | `cmd_sign_message`, `sign_message_ecdsa` (c:142-207, 319-410) | `last_used_time`, `usage_count` of a key | sign |
| Command Dispatcher | `TA_InvokeCommandEntryPoint` (c:617-655) | — | route on `cmd_id`; import and delete return NOT_IMPLEMENTED |
| Session & Telemetry | `TA_Create/Destroy/OpenSession/CloseSessionEntryPoint`, `cmd_health_check`, `cmd_get_version` (c:503-615) | `g_session_count`, `g_operation_count`, `g_start_time` | create, destroy, open, close, health, version |
| Primitive Provider | GlobalPlatform TEE API | — | external; not modelled (see §6) |

The parts interact through the tables.
Generate writes slot `g_key_count` of `g_key_storage` before it knows whether key generation will succeed.
It copies the info to `g_keys` and bumps `g_key_count` only at the end.
Sign finds a key by `strncmp` over the committed slots and, after a successful signature, updates the info in both tables.
List returns `g_keys[0..g_key_count)`, and get-public-key returns the public half of one entry.

What makes the code hard to test:

* the C-string handling of the caller's key_id buffer, where lookup and storage read different bytes;
* a generate that fails half-way, after the slot has already been written;
* two tables that must stay equal;
* counters shared by every command.

## 2. Modules

### `SuperRelayTA.tla`: the whole TA

**Constants.** `MaxKeys` (SR_MAX_KEYS), `MaxKeyIdSize` (SR_MAX_KEY_ID_SIZE), `IdBytes` and `IdArgs` (the caller buffers), `KeyPairs` (what the key generator may return), `Zeroed` (memset bytes), `MaxTime`, `MaxOps`, `MaxSessions`.

**Variables.** The C globals keep their names: `g_key_storage` and `g_keys` are functions over `1..MaxKeys`, with slot `i` standing for C index `i-1`.
Besides the globals:

* `alive` says whether the instance exists;
* `now` is TEE_GetSystemTime;
* `openSessions` is the number of sessions the TEE core has open;
* `lastRet` and `lastOut` are the result and the values written to the caller's output buffers.

**Actions.** There is one action per entry point, and `TA_InvokeCommandEntryPoint` is the disjunction of the whole `cmd_*` handlers.
Every handler keeps its early returns, in the code's order, as disjuncts:

* the parameter-type mismatch (nondeterministic, since `param_types` is the caller's choice);
* the size checks;
* `find_key_index`;
* the key-generation outcome: a failure before the private value is extracted, a failure after it (X or Y extraction), or success, with or without a digest failure;
* the output-buffer check, which comes after key generation.

The trailing bookkeeping (the copy to `g_keys`, `g_key_count++`, `g_operation_count++`) is part of the same step.

**Data abstraction.**

* A key_id buffer is `[mem, size]`. `mem` holds the `MaxKeyIdSize` bytes that `strncmp` may read and `size` is `memref.size`.
  * `LookupKeyId` is what `strncmp(.., SR_MAX_KEY_ID_SIZE)` compares: the bytes up to the first NUL.
  * `StoredKeyId` is what `strncpy(.., key_id_len)` plus the NUL at `key_id_len` stores.
* A keypair is a model value `k`. Its private value, public value, address and a signature made with it are records tagged with `k`. SHA-256-and-truncate is the injective `Sha256Tail`.
* `health_check`'s `storage_usage` is reported as `g_key_count`. The code multiplies it by `sizeof(sr_key_entry_t)`, and no property reads it.

### `MC_SuperRelayTA.tla`: the TLC instance

* `MCAllIdArgs` is every buffer of bytes `{1,2,NUL}` with every size.
* `MCTerminatedIdArgs` holds only the buffers whose terminator lies within `memref.size`, which is what a client passing `strlen+1` sends.
* Symmetry over `KeyPairs` is sound because no property names a keypair.

* `MCPaddedIdArgs` holds the buffers of a client that zero-fills a 3-byte buffer and passes `size = 2`: the empty id and the one-byte ids. It is the small argument set of the refinement and capacity-order runs.

**Generate.** `GenerateKey(a, kt)` is `cmd_generate_key` for one buffer and one key type (c:213-258), in the code's order:

1. the parameter-type check;
2. the capacity test `g_key_count >= SR_MAX_KEYS` (c:233), before the parameters are read;
3. the length and key-type checks;
4. the duplicate scan;
5. `GenerateInSlot`.

`cmd_generate_key` is `GenerateKey` for some buffer and type.

### `KeyStore.tla`: what the key store promises

This is the abstract specification of spec.md §3-5, with no slots, C strings or counters.
It has four variables:

* `up` says whether the process exists;
* `keys` is a set of records `[id, pair, uses]`;
* `out` is the key material the last command handed out;
* `failed` says whether the last command reported an error.

Its steps:

* `Start` and `Teardown` empty the store.
* `Generate(id, p)` adds a record for an identifier not yet present, while the store is below `Capacity`.
* `Sign(r)` replaces `r` by `r` with one more use and hands out `Signature(r.pair)`.
* `GetPublicKey(r)` hands out `PublicKey(r.pair)`.
* `Quiet` is every other command, and every failing one: no record changes and no key material is handed out.
* Only `Quiet` may set `failed`. A command that returns an error but adds or changes a record is therefore not a step of the store.

`keys` is a set of records, not a function from id to record, so a second record with an existing id is visible to the refinement check.

### `SuperRelayTA_KeyStore.tla`: the refinement mapping

* `StoreView` maps each committed slot to a record: its `key_id`, the keypair whose private value the slot holds, and its `usage_count`.
* `KeyMaterialOut` is the part of `lastOut` that is a signature or a public key. The address written by generate and get_public_key is not key material.
* `Failed` is `lastRet` being an error code, that is, neither `TEE_SUCCESS` nor `NONE`.
* `KS == INSTANCE KeyStore WITH ...` is the abstract store under this mapping, and `KeyStoreRefined == KS!KSSpec`.
* `TerminatedAssumption` says that every caller buffer is terminated: `strncmp` and `strncpy` read the same key_id from it. The refinement holds only under this assumption (see the `duplicate_ids` finding).

### `SuperRelayTA_Requests.tla`: generate requests as a history variable

`request` records the buffer and key type of the step's `generate_key`, or `{}` for any other step.
No step reads it.
`ExistingIdRejected` relates the result of a generate to its request.

### Proof modules: TLAPS proofs (§4)

* `SuperRelayTA_proofs.tla`: typing, the inductive invariant and the invariants and action properties of the core run.
* `SuperRelayTA_Accounting_proofs.tla`: `OpAccounting`, with the running-sum lemmas it needs.
* `KeyStore_proofs.tla`: the abstract store's own invariants (unique ids, capacity).
* `SuperRelayTA_KeyStore_proofs.tla`: `KeyIdsUnique`, the refinement, and the abstract invariants carried over to the TA.

## 3. Runs

All runs use 2 slots, 2 keypairs, key_id bytes `{1,2}`, one clock tick, `MaxOps = 3`, and `MaxSessions = 2` for `core` (1 for the others).

| Run | cfg | Expect | What it shows |
|---|---|---|---|
| core | MC_SuperRelayTA.cfg | pass (≈147k states, ≈2 min) | `TypeOK`, `StoreMirror` (the tables agree and unused `g_keys` slots stay zero), `LiveRecordsComplete` (only whole keypairs are committed), `UsageConsistent` (timestamps ordered), `OpAccounting` (`g_operation_count` ≥ generates + signs), `NoSecretOutput`, `SessionsAccurate`, `FailureAtomic` (a failing command changes no committed state), `LiveRecordsStable` (append-only, identity and key material immutable) |
| terminated_ids | MC_Terminated.cfg | pass | `KeyIdsUnique` for well-formed (NUL-terminated) buffers; `MaxKeyIdSize = 3` so that non-empty ids exist |
| duplicate_ids | MC_DuplicateIds.cfg | violation | `KeyIdsUnique` fails for unterminated buffers (finding) |
| empty_key_id | MC_EmptyKeyId.cfg | violation | `NonEmptyKeyIds` fails (finding) |
| address_digest | MC_AddressDigest.cfg | violation | `AddressMatchesPublicKey` fails on a swallowed digest error (finding) |
| partial_record | MC_PartialRecord.cfg | violation | `NoPartialRecord` fails: a failed generate leaves its slot, with the private key (finding) |
| key_store_refinement | MC_KeyStore.cfg | pass (≈113k states, ≈1 min) | `KeyStoreRefined`: every step of the TA is a step of `KeyStore` under `StoreView`/`KeyMaterialOut`/`Failed`, or a stutter. Uses padded buffers. Its mutant commits the slot before the late output-buffer check (c:301), so a `SHORT_BUFFER` generate would keep its key. |
| capacity_order | MC_CapacityOrder.cfg | violation | `ExistingIdRejected` fails (finding). Two generates fill the table. A third generate of an id already present then returns `STORAGE_NO_SPACE`, not `KEY_ALREADY_EXISTS`, because the capacity test (c:233) runs before the duplicate scan (c:255). spec.md §9 and §4 say the generate of an existing id fails with AlreadyExists. |

**Why the bounds are enough.**

* Two slots give a full table, a duplicate and a first-match with a later slot.
* Two keypairs let two keys differ.
* Bytes `{1,2,NUL}` with sizes 0..2 (0..3) give empty, terminated and unterminated ids, ids that differ only past `size`, and ids rejected by length.
* `MaxOps = 3` allows two generates and a sign, or a generate and two signs.
* The padded buffers of the refinement run give two distinct ids and the empty id. That is enough for a duplicate, a full table and a sign among two records. The state space is the same as with every terminated buffer, but the search is faster.
* Two sessions make the close floor and the open/close pairing matter.
* One tick separates creation, use and start times.

Every action and every disjunct of every handler fires in `core`.

**Fairness.** None is assumed and no liveness is checked.
The TA is request-driven: it acts only when the TEE core calls an entry point, and the code has no loop, wait or retry of its own.
Every entry point returns after a bounded number of steps, which TLA+ steps model atomically.

## 4. What is proved (TLAPS)

`SuperRelayTA_proofs.tla` proves the following theorems for every value of the constants satisfying `BoundsAssumption` (positive `MaxKeys` and `MaxKeyIdSize`, natural bounds):

| Theorem | Statement |
|---|---|
| `IInvInvariant` | `Spec => []IInv` |
| `TypeCorrect` | `Spec => []TypeOK` |
| `CommittedKeysComplete` | `Spec => []LiveRecordsComplete` |
| `StoreMirrorInvariant` | `Spec => []StoreMirror` |
| `SessionsAccurateInvariant` | `Spec => []SessionsAccurate` |
| `FailureAtomicHolds` | `Spec => FailureAtomic` |
| `LiveRecordsStableHolds` | `Spec => LiveRecordsStable` |
| `NoSecretOutputInvariant` | `Spec => []NoSecretOutput` |
| `UsageConsistentInvariant` | `Spec => []UsageConsistent` |

`SuperRelayTA_Accounting_proofs.tla` proves, under the same assumption:

| Theorem | Statement |
|---|---|
| `OpAccountingInvariant` | `Spec => []OpAccounting` |

`KeyStore_proofs.tla` proves, for every natural `Capacity`:

| Theorem | Statement |
|---|---|
| `KeyStoreInvariant` | `KSSpec => []KSInv`: records well formed, `UniqueIds`, `WithinCapacity` |

`SuperRelayTA_KeyStore_proofs.tla` adds two theorems. They also assume `TerminatedAssumption`: `LookupKeyId(a) = StoredKeyId(a)` for every caller buffer.

| Theorem | Statement |
|---|---|
| `KeyIdsUniqueInvariant` | `Spec => []KeyIdsUnique` |
| `KeyStoreRefinement` | `Spec => KeyStoreRefined`, i.e. the TA implements `KeyStore` |
| `StoreViewInvariant` | `Spec => []KSP!KSInv`: `KSInv` of the abstract store, read through the mapping |

**The inductive invariant.** It is `IInv == TypeOK /\ g_start_time <= now /\ LiveRecordsComplete /\ NoSecretOutput`.
`NoSecretOutput` is carried inside `Core` as `lastOut \subseteq Disclosable`, meaning every value written out is a non-secret kind of value.
`ZeroedAssumption` states that the zero bytes of a failed digest are no key value. `DisclosableKinds` uses it to show that every kind of value other than a secret is disclosable. `TypeOK` alone is not inductive, for two reasons:

* sign writes `SignatureBy(e.priv.sk)`, which is typed only if the slot's `priv` is a keypair's secret. That is what `LiveRecordsComplete` says of committed slots.
* health_check writes `now - g_start_time`, which is a natural number only if the clock is not before the start.

**The argument.** There is one lemma per entry point.
Commands are proved through `Core`: the tables, `g_key_count`, `g_operation_count` and the results are typed, and every committed slot is `Complete`. `Core` excludes the Boolean `alive`, and a live instance's commands leave `Frame` unchanged.

* The key step is `GenerateInSlotCore`. The slot written is `g_key_count+1`, which is free because the table is not full, so committed slots are untouched.
* Only the commit branch grows `g_key_count`, and it needs `res = TEE_SUCCESS`. `KeygenResultsProps` shows that this means a secp256k1 type and a whole keypair.
* `InfoTouched` and `NewInfoTyped` type the info records that sign and generate write.

**The other invariants and the action properties.**

* `StoreMirror` is inductive relative to `IInv`:
  * create and destroy zero both tables;
  * a failed generate writes a slot beyond `g_key_count` of `g_key_storage` only, where `g_keys` stays zero;
  * a commit writes the same info to both tables at the new slot;
  * sign writes the same info to both tables.
* `SessionsAccurate` needs `SessInv`, which adds `~alive => openSessions = 0`: an instance is destroyed only once its last session closed, so the reset in `TA_CreateEntryPoint` agrees with the TEE.
* Both action properties are derived from `CmdFrame`, the lemma stating what a command of a live instance may do to the committed slots:
  * it may leave them alone;
  * it may apply `Touched` to one of them, and only with `TEE_SUCCESS`;
  * on failure it leaves `g_keys`, `g_key_count` and `g_operation_count` alone.

**The usage timestamps.** `UsageConsistent` is inductive relative to `IInv`, through `InvokeKinds` (below, proved in `SuperRelayTA_proofs.tla` so that both proof modules use it). `StepUsage` has one case per disjunct of `Next`:

* a quiet step and a get_public_key leave the committed slots and the clock alone;
* a sign keeps the slot's `created_time` and sets `last_used_time` to `now`, which is not before it, and the count it raises is no longer 0;
* a commit stamps both times of the new slot with `now`, and `g_start_time <= now` is a conjunct of `IInv`;
* a tick only raises `now`, and create and destroy leave no live slot.

**The refinement.** `InvokeKinds` sorts every command of a live instance into one of four kinds of step on the committed slots:

* `QuietStep`: every reject, every failure of generate or sign, list, version and health. It changes no committed slot and hands out no key material (`NotKeyMaterial`: addresses, the zero bytes and info, health and version records are not signatures or public keys).
* `GenStep(a, k)`: the commit of a generate, with `TEE_SUCCESS`. `SignStep` and `PubStep` also return `TEE_SUCCESS`.
* `SignStep(i)`: a successful sign of slot `i`.
* `PubStep(i)`: a get_public_key of slot `i`.

Each kind maps to a step of `KeyStore`:

* `QuietRefines`: a quiet step maps to `Quiet`.
* `GenRefines`: a commit maps to `Generate`.
  * The id is fresh. `FreshKeyId` turns `NoMatch` into "no committed slot has `StoredKeyId(a)`", using `TerminatedAssumption`.
  * The capacity bound holds. `StoreViewBound` bounds `Cardinality(StoreView)` by `g_key_count`, through `FS_Surjection` and `FS_Interval`.
* `SignRefines`: a successful sign maps to `Sign`. It needs `KeyIdsUnique`: the record of a touched slot must leave the store, and it does only if no other slot maps to the same record.
* `PubRefines`: a get_public_key maps to `GetPublicKey`.

`KeyIdsUnique` is proved inductive relative to `IInv` in `StepUnique`. A commit adds a fresh id, a sign keeps every key_id (`TouchedRecord`), and create and destroy empty the live slots.
`StepRefines` combines the cases for every disjunct of `Next`. The theorem follows by PTL from `IInvInvariant` and `KeyIdsUniqueInvariant`.

**The operation count.** `OpAccounting` says `g_operation_count >= g_key_count + UsageSum` on a live instance. `UsageSum` is the last entry of a running sum over the slots, a recursive function. TLAPS reads such a definition as a `CHOOSE` of a function equal to its own right-hand side. `PSum` is that same `CHOOSE`, so `UsageSum = PSum(g_key_storage, g_key_count)[g_key_count]` holds by definition (`UsageSumIs`). The library's induction theorems take an operator parameter, which the installed provers cannot instantiate. So the inductions are done by least counterexample instead: `LeastNat` gives every non-empty set of naturals a least element (from `WFMin` and `NatLessThanWellFounded`).

* `PrefixSumExists` shows that some function satisfies the recursion (`IsPrefixSum`), so the `CHOOSE` does denote one. `PSumDef` combines this with the next lemma.
* `PrefixSumAgree`: two running sums over tables that agree on the counts of `1..k` agree everywhere.
* `PrefixSumBump`: raising one count by one raises the total by one.

`InvokeKinds` also records what each kind of step does to `g_operation_count`:

* a quiet step leaves it alone or raises it by one (a counted reply);
* a commit and a sign raise it by one;
* a get_public_key raises it by one.

`InvokeAccounting` combines the kinds with the sum lemmas:

* a quiet step or get_public_key keeps the sum, by `PrefixSumAgree`;
* a sign raises the sum and the count by one each, by `PrefixSumBump`;
* a commit raises `g_key_count` and the count by one each, and the new slot has `usage_count = 0`.

Create resets everything to 0, and the other steps leave the state alone. The model's `MaxOps` only disables steps. The `uint32_t` wrap is not modelled (§6), and the theorem is about unbounded counters.

**The abstract store and its transfer.** `KeyStoreInvariant` is proved in `KeyStore_proofs.tla`, with one lemma per action. `WithinCapacity` is inductive only together with `UniqueIds`. A `Sign` removes a record and adds one with the same id, and the cardinality is kept (`FS_RemoveElement`, `FS_AddElement`) only because no other record has that id. `StoreViewInvariant` carries the result to the TA: `KSP` instantiates `KeyStore_proofs` with the refinement mapping of `SuperRelayTA_KeyStore.tla`, and `SameStoreSpec` shows that `KS!KSSpec` and `KSP!KSSpec` are the same formula. The theorem then follows from `KeyStoreRefinement`. TLC also checked `KSP!KSInv` as an invariant on the refinement instance, with 112,615 states.

## 5. What is only model-checked

* `KeyIdsUnique` and the refinement are proved only for terminated buffers. For other buffers they fail: that is the `duplicate_ids` finding, which TLC shows.
* The C-string operators `CLen`/`CStr` themselves are not reasoned about by the prover. `TerminatedAssumption` is stated in terms of what they return, and TLC evaluates it on the refinement run.
* `ExistingIdRejected` and the other violation runs are TLC only.
* Liveness is out of scope (no fairness, see §3). The prover would not reach it anyway.

## 6. Not modelled

* **Primitive Provider.** The GlobalPlatform crypto calls are external. Each call's outcome is a nondeterministic success or failure, and its results are named by keypair. The code has further issues the model does not represent:
  * the code calls `TEE_DigestDoFinal` with an argument list that does not match GlobalPlatform's;
  * it allocates a P-256 (`TEE_ALG_ECDSA_P256`) operation although the spec says secp256k1;
  * it populates the signing keypair with the private value alone.

  These are properties of the crypto library and the curve, out of TLC's reach.
* **The wire layout** of the result structures and the version string.
* **Counter wrap**: `uint32_t` wraps after 2^32 operations, and the counters are bounded far below that. The proof of `OpAccounting` is about unbounded counters.
* **A non-monotonic TEE clock.**
* **The build properties** (UUID, sizes). Their flags only justify the serialised model.

## 7. Plan

1. *Done*:
   * the core module with every entry point and command;
   * three passing runs (core, terminated ids, refinement) and five violation runs for the findings;
   * TLAPS proofs of typing, committed-key completeness, the table mirror, session accounting, `NoSecretOutput` and the two action properties;
   * the abstract `KeyStore` and the proof that the TA refines it for terminated buffers, together with `KeyIdsUnique`;
   * the proof of `UsageConsistent`;
   * the proof of `OpAccounting` (running-sum lemmas by least counterexample), of the abstract store's invariants, and their transfer to the TA.
2. Extend `KeyStore` with the output of list_keys, the info records, so that the refinement also covers what list returns.
3. Add a bounded-width variant of the counters (`% 2^w` with a small `w`) to exhibit the wrap of `g_operation_count` and `usage_count` against `OpAccounting`.

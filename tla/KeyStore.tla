------------------------------ MODULE KeyStore ------------------------------
(***************************************************************************)
(* What the TA's key store promises its callers (spec.md sections 3-5),   *)
(* with no tables, slots, C strings or counters: a volatile set of key     *)
(* records (identifier, keypair, use count) of bounded size, at most one   *)
(* per identifier, empty whenever the process starts and lost when it is   *)
(* torn down.                                                              *)
(*                                                                         *)
(* A generate adds a fresh identifier atomically; a sign of a stored key   *)
(* counts one use and hands out a signature made with that key's pair; a   *)
(* public-key fetch hands out that key's public half.  Every other command *)
(* and every failing one changes no key and hands out no key material.    *)
(***************************************************************************)
EXTENDS Naturals, FiniteSets

CONSTANTS
    KeyIds,         \* the identifiers callers can name
    Pairs,          \* the keypairs generation may produce
    Capacity,       \* the store's record bound N
    Signature(_),   \* the signature made with a keypair
    PublicKey(_)    \* the public half of a keypair

VARIABLES
    up,             \* the process exists (initialised, not torn down)
    keys,           \* the set of records [id, pair, uses]
    out,            \* the key material handed out by the last command
    failed          \* the last command reported an error

ksvars == <<up, keys, out, failed>>

Record == [id : KeyIds, pair : Pairs, uses : Nat]

\* the identifiers present in the store
Ids == {r.id : r \in keys}

KSTypeOK ==
    /\ up \in BOOLEAN
    /\ keys \subseteq Record
    /\ out \subseteq {Signature(p) : p \in Pairs} \cup {PublicKey(p) : p \in Pairs}
    /\ failed \in BOOLEAN

KSInit ==
    /\ up = FALSE
    /\ keys = {}
    /\ out = {}
    /\ failed = FALSE

\* process initialisation: the store starts empty
Start ==
    /\ ~up
    /\ up' = TRUE
    /\ keys' = {}
    /\ out' = {}
    /\ failed' = FALSE

\* process teardown: every record is dropped
Teardown ==
    /\ up
    /\ up' = FALSE
    /\ keys' = {}
    /\ out' = {}
    /\ failed' = FALSE

\* insert: a fresh identifier below capacity gets a new keypair
Generate(id, p) ==
    /\ up
    /\ id \notin Ids
    /\ Cardinality(keys) < Capacity
    /\ keys' = keys \cup {[id |-> id, pair |-> p, uses |-> 0]}
    /\ out' = {}
    /\ failed' = FALSE
    /\ UNCHANGED up

\* sign with a stored key: one more use, a signature by its pair
Sign(r) ==
    /\ up
    /\ r \in keys
    /\ keys' = (keys \ {r}) \cup {[r EXCEPT !.uses = @ + 1]}
    /\ out' = {Signature(r.pair)}
    /\ failed' = FALSE
    /\ UNCHANGED up

\* get_public_key of a stored key
GetPublicKey(r) ==
    /\ up
    /\ r \in keys
    /\ out' = {PublicKey(r.pair)}
    /\ failed' = FALSE
    /\ UNCHANGED <<up, keys>>

\* list, health, version, session changes and every failing command
Quiet ==
    /\ up
    /\ out' = {}
    /\ failed' \in BOOLEAN
    /\ UNCHANGED <<up, keys>>

KSNext ==
    \/ Start
    \/ Teardown
    \/ \E id \in KeyIds, p \in Pairs : Generate(id, p)
    \/ \E r \in keys : Sign(r) \/ GetPublicKey(r)
    \/ Quiet

KSSpec == KSInit /\ [][KSNext]_ksvars

=============================================================================

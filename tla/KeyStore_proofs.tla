--------------------------- MODULE KeyStore_proofs ---------------------------
(***************************************************************************)
(* The key store keeps its promises: the records are of the right kind, no *)
(* two share an identifier, and there are never more than Capacity of      *)
(* them.  The capacity bound is inductive only together with uniqueness: a *)
(* sign replaces a record by one with the same identifier and one more     *)
(* use, which keeps the count only because no other record has that        *)
(* identifier.                                                             *)
(***************************************************************************)
EXTENDS KeyStore, FiniteSetTheorems, TLAPS

\* at most one record per identifier
UniqueIds == \A r1, r2 \in keys : r1.id = r2.id => r1 = r2

\* the store holds at most Capacity records
WithinCapacity == IsFiniteSet(keys) /\ Cardinality(keys) <= Capacity

KSInv == KSTypeOK /\ UniqueIds /\ WithinCapacity

\* the record a sign of r leaves in the store
Used(r) == [r EXCEPT !.uses = @ + 1]

LEMMA EmptyStore ==
  ASSUME Capacity \in Nat, keys' = {}
  PROVE  UniqueIds' /\ WithinCapacity'
  BY FS_EmptySet DEF UniqueIds, WithinCapacity

LEMMA GenerateInv ==
  ASSUME Capacity \in Nat, KSInv, NEW id \in KeyIds, NEW p \in Pairs,
         Generate(id, p)
  PROVE  KSInv'
  <1> DEFINE new == [id |-> id, pair |-> p, uses |-> 0]
  <1>1. keys' = keys \cup {new} /\ new \in Record
    BY DEF Generate, Record
  <1>2. new \notin keys /\ \A r \in keys : r.id # id
    BY DEF Generate, Ids
  <1>3. IsFiniteSet(keys') /\ Cardinality(keys') = Cardinality(keys) + 1
    BY <1>1, <1>2, FS_AddElement DEF KSInv, WithinCapacity
  <1>4. Cardinality(keys) \in Nat
    BY FS_CardinalityType DEF KSInv, WithinCapacity
  <1>5. WithinCapacity'
    BY <1>3, <1>4 DEF Generate, WithinCapacity
  <1>6. UniqueIds'
    BY <1>1, <1>2 DEF KSInv, UniqueIds
  <1>7. KSTypeOK'
    BY <1>1 DEF KSInv, KSTypeOK, Generate
  <1>8. QED
    BY <1>5, <1>6, <1>7 DEF KSInv

LEMMA SignInv ==
  ASSUME Capacity \in Nat, KSInv, NEW r \in keys, Sign(r)
  PROVE  KSInv'
  <1>1. r \in Record /\ Used(r) \in Record
    BY DEF KSInv, KSTypeOK, Record, Used
  <1>2. keys' = (keys \ {r}) \cup {Used(r)} /\ Used(r).id = r.id
    BY <1>1 DEF Sign, Used, Record
  <1>3. \A q \in keys \ {r} : q.id # r.id
    BY DEF KSInv, UniqueIds
  <1>4. Used(r) \notin keys \ {r}
    BY <1>2, <1>3
  <1>5. /\ IsFiniteSet(keys \ {r})
        /\ Cardinality(keys \ {r}) = Cardinality(keys) - 1
    BY FS_RemoveElement DEF KSInv, WithinCapacity
  <1>6. /\ IsFiniteSet(keys')
        /\ Cardinality(keys') = Cardinality(keys \ {r}) + 1
    BY <1>2, <1>4, <1>5, FS_AddElement
  <1>7. Cardinality(keys) \in Nat
    BY FS_CardinalityType DEF KSInv, WithinCapacity
  <1>8. WithinCapacity'
    BY <1>5, <1>6, <1>7 DEF KSInv, WithinCapacity
  <1>9. UniqueIds'
    BY <1>2, <1>3 DEF KSInv, UniqueIds
  <1>10. KSTypeOK'
    BY <1>1, <1>2 DEF KSInv, KSTypeOK, Sign, Record
  <1>11. QED
    BY <1>8, <1>9, <1>10 DEF KSInv

LEMMA KSStepInv ==
  ASSUME Capacity \in Nat, KSInv, [KSNext]_ksvars
  PROVE  KSInv'
  <1>1. CASE Start \/ Teardown
    <2>1. keys' = {} /\ KSTypeOK'
      BY <1>1 DEF Start, Teardown, KSTypeOK
    <2>2. QED
      BY <2>1, EmptyStore DEF KSInv
  <1>2. CASE \E id \in KeyIds, p \in Pairs : Generate(id, p)
    BY <1>2, GenerateInv
  <1>3. CASE \E r \in keys : Sign(r)
    BY <1>3, SignInv
  <1>4. CASE \/ \E r \in keys : GetPublicKey(r)
             \/ Quiet \/ UNCHANGED ksvars
    BY <1>4 DEF GetPublicKey, Quiet, ksvars, KSInv, KSTypeOK, UniqueIds,
       WithinCapacity, Record
  <1>5. QED
    BY <1>1, <1>2, <1>3, <1>4 DEF KSNext

(* The abstract key store of spec sections 4.1-4.2 never holds two        *)
(* records with one identifier (insert fails with AlreadyExists) nor more  *)
(* than Capacity records (insert fails with CapacityExceeded), whatever    *)
(* the capacity, and a sign keeps both.                                    *)
THEOREM KeyStoreInvariant ==
  ASSUME Capacity \in Nat
  PROVE  KSSpec => []KSInv
  <1>1. KSInit => KSInv
    <2> SUFFICES ASSUME KSInit PROVE KSInv
      OBVIOUS
    <2>1. keys = {} /\ KSTypeOK
      BY DEF KSInit, KSTypeOK
    <2>2. IsFiniteSet(keys) /\ Cardinality(keys) = 0
      BY <2>1, FS_EmptySet
    <2>3. QED
      BY <2>1, <2>2 DEF KSInv, UniqueIds, WithinCapacity
  <1>2. QED
    BY <1>1, KSStepInv, PTL DEF KSSpec
=============================================================================

------------------ MODULE SuperRelayTA_Accounting_proofs ------------------
(***************************************************************************)
(* Proof of OpAccounting: g_operation_count is at least g_key_count plus   *)
(* the sum of the committed keys' usage_count, for every value of the      *)
(* constants.                                                              *)
(*                                                                         *)
(* UsageSum is a recursive function, which TLAPS reads as                  *)
(* CHOOSE s : s = [n \in 0..k |-> ...].  That this CHOOSE has the defining *)
(* equation (PSumDef), and how the sum moves when one usage_count moves,   *)
(* are shown by least-counterexample induction: the least element of a    *)
(* non-empty set of naturals (LeastNat, from WFMin and                     *)
(* NatLessThanWellFounded) cannot be a counterexample.  A commit then adds *)
(* one key with no use and one operation, a successful sign one use and   *)
(* one operation, and every other command leaves the sum alone and counts  *)
(* at most one operation.                                                  *)
(***************************************************************************)
EXTENDS SuperRelayTA_proofs, WellFoundedInduction

USE BoundsAssumption

\* the running sums UsageSum is the last of, for the table st with k keys
PSum(st, k) ==
    CHOOSE s : s = [n \in 0..k |-> IF n = 0 THEN 0
                                   ELSE s[n - 1] + st[n].info.usage_count]

\* s holds the running sums of the usage counts of slots 1..k of st
IsPrefixSum(s, st, k) ==
    /\ s[0] = 0
    /\ \A n \in 1..k : s[n] = s[n - 1] + st[n].info.usage_count

-----------------------------------------------------------------------------
(* Running sums.                                                           *)

(* Every non-empty set of naturals has a least element.                    *)
LEMMA LeastNat ==
  ASSUME NEW T \in SUBSET Nat, T # {}
  PROVE  \E m \in T : \A n \in T : m <= n
  <1>1. \E m \in T : \A n \in T : ~(<<n, m>> \in OpToRel(<, Nat))
    BY NatLessThanWellFounded, WFMin
  <1>2. PICK m \in T : \A n \in T : ~(<<n, m>> \in OpToRel(<, Nat))
    BY <1>1
  <1>3. ASSUME NEW n \in T, n < m PROVE <<n, m>> \in OpToRel(<, Nat)
    <2>1. <<n, m>> \in Nat \X Nat /\ <<n, m>>[1] < <<n, m>>[2]
      BY <1>3
    <2>2. QED
      BY <2>1, Zenon DEF OpToRel
  <1>4. ASSUME NEW n \in T PROVE m <= n
    <2>1. ~(n < m)
      BY <1>2, <1>3, Zenon
    <2>2. QED
      BY <2>1
  <1>5. QED
    BY <1>4
(* One more use at slot i of the first k slots adds one to the sum.      *)
LEMMA PrefixSumBump ==
  ASSUME NEW k \in Nat, NEW st, NEW st2, NEW s, NEW t, NEW i \in 1..k,
         \A n \in 0..k : s[n] \in Nat,
         \A n \in 1..k : st[n].info.usage_count \in Nat,
         \A n \in (1..k) \ {i} : st2[n].info.usage_count = st[n].info.usage_count,
         st2[i].info.usage_count = st[i].info.usage_count + 1,
         IsPrefixSum(s, st, k), IsPrefixSum(t, st2, k)
  PROVE  t[k] = s[k] + 1
  <1> DEFINE Bad == {n \in 0..k : t[n] # s[n] + (IF i <= n THEN 1 ELSE 0)}
  <1>1. SUFFICES ASSUME Bad # {} PROVE FALSE
    <2>1. \A n \in 0..k : t[n] = s[n] + (IF i <= n THEN 1 ELSE 0)
      BY DEF Bad
    <2>2. QED
      BY <2>1
  <1>2. PICK m \in Bad : \A n \in Bad : m <= n
    <2>1. Bad \in SUBSET Nat
      BY DEF Bad
    <2>2. QED
      BY <1>1, <2>1, LeastNat
  <1>3. m # 0
    BY <1>2 DEF IsPrefixSum
  <1>4. t[m - 1] = s[m - 1] + (IF i <= m - 1 THEN 1 ELSE 0)
    BY <1>2, <1>3
  <1>5. /\ t[m] = t[m - 1] + st2[m].info.usage_count
        /\ s[m] = s[m - 1] + st[m].info.usage_count
    BY <1>2, <1>3 DEF IsPrefixSum
  <1>6. QED
    BY <1>2, <1>3, <1>4, <1>5

(* Running sums exist for every table of natural counts.                 *)
LEMMA PrefixSumExists ==
  ASSUME NEW st, NEW k \in Nat,
         \A n \in 1..k : st[n].info.usage_count \in Nat
  PROVE  \E s \in [0..k -> Nat] : IsPrefixSum(s, st, k)
  <1> DEFINE Bad == {m \in 0..k : ~\E s \in [0..m -> Nat] : IsPrefixSum(s, st, m)}
  <1>1. SUFFICES ASSUME Bad # {} PROVE FALSE
    BY DEF Bad
  <1>2. PICK m \in Bad : \A n \in Bad : m <= n
    <2>1. Bad \in SUBSET Nat
      BY DEF Bad
    <2>2. QED
      BY <1>1, <2>1, LeastNat
  <1>3. CASE m = 0
    <2>1. [n \in 0..0 |-> 0] \in [0..0 -> Nat]
      OBVIOUS
    <2>2. IsPrefixSum([n \in 0..0 |-> 0], st, 0)
      BY DEF IsPrefixSum
    <2>3. QED
      BY <1>2, <1>3, <2>1, <2>2
  <1>4. CASE m # 0
    <2>1. PICK s \in [0..m - 1 -> Nat] : IsPrefixSum(s, st, m - 1)
      BY <1>2, <1>4
    <2> DEFINE s2 == [n \in 0..m |-> IF n < m THEN s[n]
                                     ELSE s[m - 1] + st[m].info.usage_count]
    <2>2. s2 \in [0..m -> Nat]
      BY <1>2, <1>4, <2>1 DEF s2
    <2>3. IsPrefixSum(s2, st, m)
      <3>1. m \in Nat \ {0} /\ s2[0] = 0
        BY <1>2, <1>4, <2>1 DEF s2, IsPrefixSum
      <3>2. ASSUME NEW j \in 1..(m - 1)
            PROVE  s2[j] = s2[j - 1] + st[j].info.usage_count
        <4>1. s2[j] = s[j] /\ s2[j - 1] = s[j - 1]
          BY <3>1 DEF s2
        <4>2. QED
          BY <2>1, <4>1 DEF IsPrefixSum
      <3>3. s2[m] = s2[m - 1] + st[m].info.usage_count
        BY <3>1 DEF s2
      <3>4. ASSUME NEW n \in 1..m
            PROVE  s2[n] = s2[n - 1] + st[n].info.usage_count
        <4>1. CASE n < m
          <5>1. n \in 1..(m - 1)
            BY <3>1, <4>1
          <5>2. QED
            BY <3>2, <5>1, Zenon
        <4>2. CASE n = m
          BY <3>3, <4>2
        <4>3. QED
          BY <3>1, <4>1, <4>2
      <3>5. QED
        BY <3>1, <3>4 DEF IsPrefixSum
    <2>4. QED
      BY <1>2, <2>2, <2>3
  <1>5. QED
    BY <1>3, <1>4

(* Running sums of two tables with the same first k counts agree.         *)
LEMMA PrefixSumAgree ==
  ASSUME NEW k \in Nat, NEW st, NEW st2, NEW s, NEW t,
         \A n \in 0..k : s[n] \in Nat,
         \A n \in 1..k : st2[n].info.usage_count = st[n].info.usage_count,
         IsPrefixSum(s, st, k), IsPrefixSum(t, st2, k)
  PROVE  \A n \in 0..k : t[n] = s[n]
  <1> DEFINE Bad == {n \in 0..k : t[n] # s[n]}
  <1>1. SUFFICES ASSUME Bad # {} PROVE FALSE
    BY DEF Bad
  <1>2. PICK m \in Bad : \A n \in Bad : m <= n
    <2>1. Bad \in SUBSET Nat
      BY DEF Bad
    <2>2. QED
      BY <1>1, <2>1, LeastNat
  <1>3. m # 0
    BY <1>2 DEF IsPrefixSum
  <1>4. t[m - 1] = s[m - 1]
    BY <1>2, <1>3
  <1>5. QED
    BY <1>2, <1>3, <1>4 DEF IsPrefixSum

(* PSum, the CHOOSE that UsageSum unfolds to, is the running sum.         *)
LEMMA PSumDef ==
  ASSUME NEW st, NEW k \in Nat,
         \A n \in 1..k : st[n].info.usage_count \in Nat
  PROVE  /\ PSum(st, k) \in [0..k -> Nat]
         /\ IsPrefixSum(PSum(st, k), st, k)
  <1>1. PICK w \in [0..k -> Nat] : IsPrefixSum(w, st, k)
    BY PrefixSumExists
  <1>2. w = [n \in 0..k |-> IF n = 0 THEN 0 ELSE w[n - 1] + st[n].info.usage_count]
    BY <1>1 DEF IsPrefixSum
  <1>3. PSum(st, k) = [n \in 0..k |-> IF n = 0 THEN 0
                                      ELSE PSum(st, k)[n - 1] + st[n].info.usage_count]
    BY <1>2, Zenon DEF PSum
  <1>4. IsPrefixSum(PSum(st, k), st, k)
    BY <1>3 DEF IsPrefixSum
  <1>5. \A n \in 0..k : PSum(st, k)[n] = w[n]
    <2>1. \A n \in 0..k : w[n] \in Nat
      BY <1>1
    <2>2. \A n \in 1..k : st[n].info.usage_count = st[n].info.usage_count
      OBVIOUS
    <2>3. QED
      BY <1>1, <1>4, <2>1, <2>2, PrefixSumAgree
  <1>6. QED
    BY <1>1, <1>3, <1>5

-----------------------------------------------------------------------------
(* The accounting of the entry points.                                     *)

LEMMA UsageSumIs ==
  /\ UsageSum = PSum(g_key_storage, g_key_count)[g_key_count]
  /\ UsageSum' = PSum(g_key_storage', g_key_count')[g_key_count']
  BY DEF UsageSum, PSum

\* the usage counts of a typed table are natural numbers
LEMMA TableCounts ==
  ASSUME NEW st \in [Slots -> Entry], NEW k \in 0..MaxKeys
  PROVE  \A n \in 1..k : st[n].info.usage_count \in Nat
  BY DEF Slots, Entry, Info

(* A command counts one operation with each commit and each successful    *)
(* sign, and with no other change of the committed slots' keys or uses.   *)
LEMMA InvokeAccounting ==
  ASSUME IInv, OpAccounting, TA_InvokeCommandEntryPoint
  PROVE  OpAccounting'
  <1>1. /\ alive /\ alive' = alive /\ Core
        /\ \/ QuietStep
           \/ \E a \in IdArgs, k \in KeyPairs : GenStep(a, k)
           \/ \E i \in 1..g_key_count : SignStep(i) \/ PubStep(i)
    BY InvokeKinds
  <1>2. /\ g_key_storage \in [Slots -> Entry] /\ g_key_count \in 0..MaxKeys
        /\ g_key_storage' \in [Slots -> Entry] /\ g_key_count' \in 0..MaxKeys
        /\ g_operation_count \in Nat /\ g_operation_count' \in Nat
    BY <1>1, InvokeCore DEF Core
  <1>3. /\ \A n \in 1..g_key_count : g_key_storage[n].info.usage_count \in Nat
        /\ \A n \in 1..g_key_count' : g_key_storage'[n].info.usage_count \in Nat
    BY <1>2, TableCounts
  <1>s. PICK s, t : /\ s = PSum(g_key_storage, g_key_count)
                    /\ t = PSum(g_key_storage', g_key_count')
    OBVIOUS
  <1>4. /\ s \in [0..g_key_count -> Nat]
        /\ IsPrefixSum(s, g_key_storage, g_key_count)
        /\ t \in [0..g_key_count' -> Nat]
        /\ IsPrefixSum(t, g_key_storage', g_key_count')
    BY <1>s, <1>2, <1>3, PSumDef
  <1>5. g_operation_count >= g_key_count + s[g_key_count]
    BY <1>s, <1>1, UsageSumIs DEF OpAccounting
  <1>6. SUFFICES g_operation_count' >= g_key_count' + t[g_key_count']
    BY <1>s, <1>1, UsageSumIs DEF OpAccounting
  <1>7. CASE QuietStep \/ \E i \in 1..g_key_count : PubStep(i)
    <2>1. /\ g_key_count' = g_key_count /\ Unchanged(g_key_count)
          /\ g_operation_count' \in {g_operation_count, g_operation_count + 1}
      BY <1>7 DEF QuietStep, PubStep, Unchanged
    <2>2. /\ \A n \in 0..g_key_count : s[n] \in Nat
          /\ \A n \in 1..g_key_count :
                g_key_storage'[n].info.usage_count =
                   g_key_storage[n].info.usage_count
          /\ IsPrefixSum(t, g_key_storage', g_key_count)
      BY <1>4, <2>1 DEF Unchanged
    <2>3. t[g_key_count] = s[g_key_count]
      <3>1. g_key_count \in Nat /\ IsPrefixSum(s, g_key_storage, g_key_count)
        BY <1>2, <1>4
      <3>2. QED
        BY <2>2, <3>1, PrefixSumAgree
    <2>4. QED
      BY <1>2, <1>4, <1>5, <2>1, <2>3
  <1>8. CASE \E i \in 1..g_key_count : SignStep(i)
    <2>1. PICK i \in 1..g_key_count : SignStep(i)
      BY <1>8
    <2>2. /\ g_key_count' = g_key_count
          /\ g_operation_count' = g_operation_count + 1
          /\ g_key_storage' = [g_key_storage EXCEPT ![i] = Touched(i)]
      BY <2>1 DEF SignStep
    <2>3. i \in Slots /\ g_key_storage[i] \in Entry
      BY <1>2 DEF Slots
    <2>4. Touched(i).info.usage_count = g_key_storage[i].info.usage_count + 1
      BY <1>2, <2>3, TouchedRecord DEF Touched, IInv, TypeOK
    <2>5. /\ \A n \in 0..g_key_count : s[n] \in Nat
          /\ \A n \in (1..g_key_count) \ {i} :
                g_key_storage'[n].info.usage_count =
                   g_key_storage[n].info.usage_count
          /\ g_key_storage'[i].info.usage_count =
                g_key_storage[i].info.usage_count + 1
          /\ IsPrefixSum(t, g_key_storage', g_key_count)
      BY <1>2, <1>4, <2>2, <2>3, <2>4 DEF Slots
    <2>6. t[g_key_count] = s[g_key_count] + 1
      <3>1. /\ g_key_count \in Nat
            /\ \A n \in 1..g_key_count : g_key_storage[n].info.usage_count \in Nat
            /\ IsPrefixSum(s, g_key_storage, g_key_count)
        BY <1>2, <1>3, <1>4
      <3>2. QED
        BY <2>1, <2>5, <3>1, PrefixSumBump
    <2>7. QED
      BY <1>2, <1>4, <1>5, <2>2, <2>6
  <1>9. CASE \E a \in IdArgs, kp \in KeyPairs : GenStep(a, kp)
    <2>1. PICK a \in IdArgs, kp \in KeyPairs : GenStep(a, kp)
      BY <1>9
    <2>2. /\ g_key_count' = g_key_count + 1
          /\ g_operation_count' = g_operation_count + 1
          /\ Unchanged(g_key_count)
          /\ g_key_storage'[g_key_count + 1].info.usage_count = 0
      BY <2>1 DEF GenStep
    <2>3. /\ \A n \in 0..g_key_count : s[n] \in Nat
          /\ \A n \in 1..g_key_count :
                g_key_storage'[n].info.usage_count =
                   g_key_storage[n].info.usage_count
          /\ IsPrefixSum(t, g_key_storage', g_key_count)
          /\ t[g_key_count + 1] = t[g_key_count] + 0
      <3>1. g_key_count \in Nat /\ g_key_count + 1 \in 1..g_key_count'
        BY <1>2, <2>2 DEF Slots
      <3>2. \A n \in 0..g_key_count : s[n] \in Nat
        BY <1>4
      <3>3. \A n \in 1..g_key_count :
              g_key_storage'[n].info.usage_count =
                 g_key_storage[n].info.usage_count
        BY <2>2 DEF Unchanged
      <3>4. t[g_key_count + 1] = t[g_key_count] + 0
        BY <1>4, <2>2, <3>1 DEF IsPrefixSum
      <3>5. IsPrefixSum(t, g_key_storage', g_key_count)
        <4>1. t[0] = 0 /\ \A n \in 1..g_key_count' :
                t[n] = t[n - 1] + g_key_storage'[n].info.usage_count
          BY <1>4 DEF IsPrefixSum
        <4>2. QED
          BY <4>1, <2>2, <3>1 DEF IsPrefixSum
      <3>6. QED
        BY <3>2, <3>3, <3>4, <3>5
    <2>4. t[g_key_count] = s[g_key_count]
      <3>1. g_key_count \in Nat /\ IsPrefixSum(s, g_key_storage, g_key_count)
        BY <1>2, <1>4
      <3>2. QED
        BY <2>3, <3>1, PrefixSumAgree
    <2>5. QED
      BY <1>2, <1>4, <1>5, <2>2, <2>3, <2>4
  <1>10. QED
    BY <1>1, <1>7, <1>8, <1>9

LEMMA StepAccounting ==
  ASSUME IInv, OpAccounting, [Next]_vars
  PROVE  OpAccounting'
  <1>1. CASE TA_InvokeCommandEntryPoint
    BY <1>1, InvokeAccounting
  <1>2. CASE TA_CreateEntryPoint
    <2>1. g_key_count' = 0 /\ g_operation_count' = 0
      BY <1>2 DEF TA_CreateEntryPoint
    <2>2. IsPrefixSum(PSum(g_key_storage', 0), g_key_storage', 0)
      BY PSumDef
    <2>3. UsageSum' = 0
      BY <2>1, <2>2, UsageSumIs DEF IsPrefixSum
    <2>4. QED
      BY <2>1, <2>3 DEF OpAccounting
  <1>3. CASE TA_DestroyEntryPoint
    BY <1>3 DEF TA_DestroyEntryPoint, OpAccounting
  <1>4. CASE \/ TA_OpenSessionEntryPoint \/ TA_CloseSessionEntryPoint
             \/ Tick \/ UNCHANGED vars
    <2>1. UNCHANGED <<alive, g_key_storage, g_key_count, g_operation_count>>
      BY <1>4 DEF TA_OpenSessionEntryPoint, TA_CloseSessionEntryPoint,
         Tick, vars
    <2>2. UsageSum' = UsageSum
      BY <2>1, UsageSumIs
    <2>3. QED
      BY <2>1, <2>2 DEF OpAccounting
  <1>5. QED
    BY <1>1, <1>2, <1>3, <1>4 DEF Next

(* g_operation_count never falls behind the work it counts, for every     *)
(* value of the constants: cmd_generate_key counts one operation with each *)
(* key it commits and cmd_sign_message one with each use it records in a  *)
(* usage_count, so while the instance lives g_operation_count is at least *)
(* g_key_count plus the sum of the usage counts.  The model's bound MaxOps *)
(* only disables steps; the wrap of the uint32_t counter is not modelled.  *)
THEOREM OpAccountingInvariant == Spec => []OpAccounting
  <1>1. Init => OpAccounting
    BY DEF Init, OpAccounting
  <1>2. QED
    BY <1>1, StepAccounting, IInvInvariant, PTL DEF Spec
====

------------------------- MODULE EventLedgerProofs -------------------------
(***************************************************************************)
(* The rollup of the abstract ledger counts its events, for any number of  *)
(* events, contents and buckets.                                           *)
(***************************************************************************)
EXTENDS EventLedger, FiniteSetTheorems, TLAPS

LedgerInv == LedgerTypeOK /\ RollupMatches

\* The events of a bucket and the ones a step adds to it are finitely many.
LEMMA BucketsFinite ==
  ASSUME LedgerAssumption, NEW l \in Ledgers, NEW k \in Key
  PROVE  IsFiniteSet(InBucket(l, k))
<1>1. InBucket(l, k) \subseteq EventId
  BY DEF InBucket, Stored
<1>. QED
  BY <1>1, FS_Subset DEF LedgerAssumption

\* A step that keeps what is stored grows each bucket by its new events only.
LEMMA BucketGrowth ==
  ASSUME LedgerAssumption, NEW l \in Ledgers, NEW m \in Ledgers, NEW k \in Key,
         \A id \in Stored(l) : m[id] = l[id]
  PROVE  Cardinality(InBucket(m, k))
           = Cardinality(InBucket(l, k)) + Cardinality(NewIn(l, m, k))
<1>1. InBucket(m, k) = InBucket(l, k) \cup NewIn(l, m, k)
  BY DEF InBucket, NewIn, Stored
<1>2. InBucket(l, k) \cap NewIn(l, m, k) = {}
  BY DEF InBucket, NewIn
<1>3. IsFiniteSet(InBucket(l, k)) /\ IsFiniteSet(NewIn(l, m, k))
  BY BucketsFinite, FS_Subset DEF NewIn
<1>4. Cardinality(InBucket(m, k))
        = Cardinality(InBucket(l, k)) + Cardinality(NewIn(l, m, k)) - Cardinality({})
  BY <1>1, <1>2, <1>3, FS_Union
<1>5. Cardinality(InBucket(l, k)) \in Nat /\ Cardinality(NewIn(l, m, k)) \in Nat
  BY <1>3, FS_CardinalityType
<1>. QED
  BY <1>4, <1>5, FS_EmptySet

\* The empty ledger has empty buckets and zero counters.
LEMMA LedgerInitInv == LedgerInit => LedgerInv
<1>. SUFFICES ASSUME LedgerInit PROVE LedgerInv
  OBVIOUS
<1>1. LedgerTypeOK
  BY DEF LedgerInit, LedgerTypeOK, Ledgers
<1>2. ASSUME NEW k \in Key PROVE InBucket(ledger, k) = {}
  BY DEF InBucket, Stored, LedgerInit
<1>3. RollupMatches
  BY <1>2, FS_EmptySet DEF RollupMatches, LedgerInit
<1>. QED
  BY <1>1, <1>3 DEF LedgerInv

\* A batch of new events and a stutter keep the counters equal to the buckets.
LEMMA LedgerStepInv ==
  ASSUME LedgerAssumption
  PROVE  LedgerInv /\ [Accept]_ledgerVars => LedgerInv'
<1>. SUFFICES ASSUME LedgerInv, [Accept]_ledgerVars PROVE LedgerInv'
  OBVIOUS
<1>1. CASE Accept
  <2>1. \A k \in Key : Cardinality(NewIn(ledger, ledger', k)) \in Nat
    BY <1>1, BucketsFinite, FS_Subset, FS_CardinalityType DEF Accept, NewIn
  <2>2. LedgerTypeOK'
    BY <1>1, <2>1 DEF LedgerInv, LedgerTypeOK, Accept
  <2>3. ASSUME NEW k \in Key
        PROVE  rollup'[k] = Cardinality(InBucket(ledger', k))
    <3>1. rollup'[k] = rollup[k] + Cardinality(NewIn(ledger, ledger', k))
      BY <1>1 DEF Accept
    <3>2. rollup[k] = Cardinality(InBucket(ledger, k))
      BY DEF LedgerInv, RollupMatches
    <3>3. Cardinality(InBucket(ledger', k))
            = Cardinality(InBucket(ledger, k)) + Cardinality(NewIn(ledger, ledger', k))
      BY <1>1, BucketGrowth DEF Accept, LedgerInv, LedgerTypeOK
    <3>. QED
      BY <3>1, <3>2, <3>3
  <2>. QED
    BY <2>2, <2>3 DEF LedgerInv, RollupMatches
<1>2. CASE UNCHANGED ledgerVars
  BY <1>2 DEF ledgerVars, LedgerInv, LedgerTypeOK, RollupMatches, InBucket, Stored
<1>. QED
  BY <1>1, <1>2

(***************************************************************************)
(* Whatever is accepted, in whatever order, each bucket's counter is the   *)
(* number of its stored events.                                            *)
(***************************************************************************)
THEOREM LedgerRollup ==
  ASSUME LedgerAssumption
  PROVE  LedgerSpec => []RollupMatches
<1>1. LedgerInv => RollupMatches
  BY DEF LedgerInv
<1>2. LedgerInv /\ [Accept]_ledgerVars => LedgerInv'
  BY LedgerStepInv
<1>. QED
  BY LedgerInitInv, <1>1, <1>2, PTL DEF LedgerSpec

=============================================================================

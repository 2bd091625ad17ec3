----------------------------- MODULE EpochProofs -----------------------------
(***************************************************************************)
(* The settled validity window, for every integer width, every default     *)
(* validity and every network cap not below it.                            *)
(***************************************************************************)
EXTENDS Epoch, TLAPS

\* settleMaxEpoch's arithmetic: the sum saturates, so it neither wraps nor falls below its base,
\* and reaches the full validity unless it is the largest epoch.
LEMMA ExtendBounds ==
    ASSUME NEW base \in Epochs
    PROVE  /\ Extend(base) \in Epochs
           /\ Extend(base) >= base
           /\ Extend(base) > 0
           /\ Extend(base) <= base + DefaultValidityEpochs
           /\ Extend(base) = MaxUint \/ Extend(base) = base + DefaultValidityEpochs
<1>. USE WidthAssumption, ValidityAssumption DEF Epochs, MaxUint
<1>1. CASE base > MaxUint - DefaultValidityEpochs
  BY <1>1 DEF Extend
<1>2. CASE base <= MaxUint - DefaultValidityEpochs
  <2>1. base + DefaultValidityEpochs \in 0..EpochWidth - 1
    BY <1>2
  <2>2. (base + DefaultValidityEpochs) % EpochWidth = base + DefaultValidityEpochs
    BY <2>1
  <2>3. QED
    BY <1>2, <2>2 DEF Extend
<1>3. QED
  BY <1>1, <1>2

\* The floor is one of its two arguments, and not below either.
LEMMA LaterBounds ==
    ASSUME NEW a \in Epochs, NEW b \in Epochs
    PROVE  Later(a, b) \in {a, b} /\ Later(a, b) >= a /\ Later(a, b) >= b
BY WidthAssumption DEF Later, Epochs, MaxUint

\* The caller's MinEpoch is an epoch, 0 when unset.
LEMMA MinEpochType == ASSUME intent \in Intents PROVE MinEpoch \in Epochs
BY WidthAssumption, UnsetAssumption DEF MinEpoch, derefEpoch, Intents, Epochs, MaxUint

\* The inductive invariant: what settleMaxEpoch establishes about a window survives every step
\* of the network and of the indexer up to the sequencing.
THEOREM Invariance == Spec => []EpochInv
<1>. DEFINE Inv == EpochInv
<1>1. Init => Inv
  BY WidthAssumption DEF EpochInv, Init, TypeOK, Epochs, MaxUint, Places, HasWindow
<1>2. Inv /\ [Next]_vars => Inv'
  <2> SUFFICES ASSUME Inv, [Next]_vars PROVE Inv'
    OBVIOUS
  <2>. USE DEF EpochInv, TypeOK, HasWindow, Pinned, Places
  <2>0. MinEpoch \in Epochs
    BY MinEpochType
  <2>1. CASE SettlePinned
    BY <2>0, <2>1, WidthAssumption DEF SettlePinned, network, WindowIsNonEmpty, Intents, Epochs, MaxUint, MinEpoch
  <2>2. CASE Unsettled
    BY <2>2 DEF Unsettled, network, MinEpoch
  <2>3. CASE SettleFromIndexer
    <3>. DEFINE base == Later(served, MinEpoch)
    <3>1. base \in {served, MinEpoch} /\ base >= served /\ base >= MinEpoch /\ base \in Epochs
      BY <2>0, LaterBounds
    <3>2. /\ Extend(base) \in Epochs /\ Extend(base) >= base /\ Extend(base) > 0
          /\ Extend(base) <= base + DefaultValidityEpochs
          /\ Extend(base) = MaxUint \/ Extend(base) = base + DefaultValidityEpochs
      BY <3>1, ExtendBounds
    <3>3. /\ UNCHANGED <<epoch, served, intent>> /\ read' = served /\ maxEpoch' = Extend(base)
          /\ pc' = "settled" /\ intent.maxEpoch = 0 /\ MinEpoch' = MinEpoch
      BY <2>3 DEF SettleFromIndexer, network, MinEpoch
    <3>. HIDE DEF base
    <3>4. QED
      BY <2>0, <3>1, <3>2, <3>3, WidthAssumption, ValidityAssumption DEF Epochs, MaxUint
  <2>4. CASE NextEpoch
    <3>1. UNCHANGED <<served, intent, pc, read, maxEpoch>> /\ MinEpoch' = MinEpoch
      BY <2>4 DEF NextEpoch, MinEpoch
    <3>2. epoch < MaxUint /\ epoch' = epoch + 1
      BY <2>4 DEF NextEpoch
    <3>3. QED
      BY <3>1, <3>2, WidthAssumption, ValidityAssumption DEF Epochs, MaxUint
  <2>5. CASE IndexerCatchesUp
    BY <2>5, WidthAssumption DEF IndexerCatchesUp, MinEpoch, Epochs, MaxUint
  <2>6. CASE Sequence
    <3>1. UNCHANGED <<epoch, served, intent, read, maxEpoch>> /\ MinEpoch' = MinEpoch
      BY <2>6 DEF Sequence, network, MinEpoch
    <3>2. pc = "settled" /\ pc' \in {"expired", "too_long", "sequenced"} /\ epoch >= MinEpoch
      BY <2>6 DEF Sequence
    <3>3. pc' = "expired" => epoch > maxEpoch
      BY <2>6 DEF Sequence
    <3>4. pc' = "too_long" => maxEpoch > epoch + MaxTransactionValidityEpochs
      BY <2>6 DEF Sequence
    <3>5. /\ epoch \in Nat /\ maxEpoch \in Nat /\ read \in Nat /\ MinEpoch \in Nat
          /\ DefaultValidityEpochs \in Nat /\ MaxTransactionValidityEpochs \in Nat
          /\ MaxUint \in Nat /\ epoch <= MaxUint
          /\ DefaultValidityEpochs <= MaxTransactionValidityEpochs
      BY <2>0, WidthAssumption, ValidityAssumption DEF Epochs, MaxUint
    <3>6. pc' = "expired" /\ ~Pinned => epoch > read + DefaultValidityEpochs
      BY <3>2, <3>3, <3>5
    <3>7. pc' = "too_long" => Pinned
      <4>. SUFFICES ASSUME pc' = "too_long", ~Pinned PROVE FALSE
        OBVIOUS
      <4>1. read <= epoch /\ MinEpoch <= epoch
        BY <3>2
      <4>2. \/ maxEpoch <= read + DefaultValidityEpochs
            \/ maxEpoch <= MinEpoch + DefaultValidityEpochs
        BY <3>2
      <4>3. QED
        BY <3>4, <3>5, <4>1, <4>2
    <3>8. QED
      BY <3>1, <3>2, <3>6, <3>7
  <2>7. CASE UNCHANGED vars
    BY <2>7 DEF vars, MinEpoch
  <2>8. QED
    BY <2>1, <2>2, <2>3, <2>4, <2>5, <2>6, <2>7 DEF Next
<1>3. QED
  BY <1>1, <1>2, PTL DEF Spec

\* Every variable keeps its type: the settled max_epoch is an epoch, never a sum beyond the width.
THEOREM TypeCorrect == Spec => []TypeOK
<1>1. EpochInv => TypeOK
  BY DEF EpochInv
<1>2. QED
  BY <1>1, Invariance, PTL

\* A settled window contains an epoch and has a positive max_epoch (epoch.go 65-96).
THEOREM WindowAlwaysOpen == Spec => []WindowOpen
<1>1. EpochInv => WindowOpen
  BY DEF EpochInv, WindowOpen
<1>2. QED
  BY <1>1, Invariance, PTL

\* An unpinned transaction that expires was given the full default window (epoch.go 68-78).
THEOREM ExpiresOnlyLate == Spec => []ExpiresLate
<1>1. EpochInv => ExpiresLate
  BY DEF EpochInv, ExpiresLate
<1>2. QED
  BY <1>1, Invariance, PTL

\* The network's cap on the window's length never refuses what the SDK settled (epoch.go 23-33).
THEOREM CapNeverHits == Spec => []OnlyPinsTooLong
<1>1. EpochInv => OnlyPinsTooLong
  BY DEF EpochInv, OnlyPinsTooLong
<1>2. QED
  BY <1>1, Invariance, PTL

=============================================================================

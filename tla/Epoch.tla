-------------------------------- MODULE Epoch --------------------------------
(***************************************************************************)
(* The mandatory validity window of a transaction: how settleMaxEpoch      *)
(* settles max_epoch, and what the network makes of the window when the    *)
(* transaction is sequenced some epochs later.                             *)
(*                                                                         *)
(* The epoch an indexer serves lags behind the network's; the network      *)
(* moves on between the read, the seal and the sequencing.  Epochs are     *)
(* unsigned integers of a fixed width: sums wrap at EpochWidth.            *)
(***************************************************************************)
EXTENDS Naturals

(* A definition named X_Y is a deliberately wrong form of X that no action uses: the      *)
(* property that guards X is checked to fail when X is replaced by it.                    *)
CONSTANTS
    EpochWidth,                    \* 2^64 in the code
    DefaultValidityEpochs,         \* 10
    MaxTransactionValidityEpochs,  \* 2160, the network's cap
    Unset                          \* a nil MinEpoch

MaxUint == EpochWidth - 1
Epochs == 0..MaxUint

ASSUME WidthAssumption == EpochWidth \in Nat \ {0}
ASSUME ValidityAssumption ==
    /\ DefaultValidityEpochs \in 1..MaxUint
    /\ MaxTransactionValidityEpochs \in Nat
    /\ DefaultValidityEpochs <= MaxTransactionValidityEpochs
ASSUME UnsetAssumption == Unset \notin Nat

VARIABLES
    epoch,      \* the network's epoch
    served,     \* the epoch the indexer serves
    intent,     \* the caller's pins, and whether the transport can read the epoch
    pc,         \* where the transaction is
    read,       \* the epoch settleMaxEpoch read, 0 if it read none
    maxEpoch    \* the settled max_epoch, 0 until then

vars == <<epoch, served, intent, pc, read, maxEpoch>>
network == <<epoch, served>>

Intents == [minEpoch : Epochs \cup {Unset}, maxEpoch : Epochs, provider : BOOLEAN]
Places == {"intent", "settled", "refused", "sequenced", "expired", "too_long"}

Init ==
    /\ epoch \in Epochs
    /\ served \in Epochs /\ served <= epoch
    /\ intent \in Intents
    /\ pc = "intent"
    /\ read = 0
    /\ maxEpoch = 0

-----------------------------------------------------------------------------

derefEpoch(p) == IF p = Unset THEN 0 ELSE p

MinEpoch == derefEpoch(intent.minEpoch)
Pinned == intent.maxEpoch # 0

\* checkWindowIsNonEmpty returns nil.
WindowIsNonEmpty(max, min) == min = 0 \/ max >= min

Later_Sum(current, min) == current + min
Later(current, min) == IF min > current THEN min ELSE current

\* base + DefaultValidityEpochs, saturated at the largest epoch instead of wrapping.
Extend_Wrapping(base) == (base + DefaultValidityEpochs) % EpochWidth
Extend_Unbounded(base) == base + DefaultValidityEpochs
Extend_Short(base) == Extend_Unbounded(base) - 1
Extend(base) ==
    IF base > MaxUint - DefaultValidityEpochs
    THEN MaxUint
    ELSE (base + DefaultValidityEpochs) % EpochWidth

\* A pin is checked against MinEpoch and otherwise taken as given.
SettlePinned ==
    /\ pc = "intent"
    /\ Pinned
    /\ IF WindowIsNonEmpty(intent.maxEpoch, MinEpoch)
       THEN pc' = "settled" /\ maxEpoch' = intent.maxEpoch
       ELSE pc' = "refused" /\ UNCHANGED maxEpoch
    /\ UNCHANGED <<network, intent, read>>

\* No epoch provider, or its request fails.
Unsettled ==
    /\ pc = "intent"
    /\ ~Pinned
    /\ pc' = "refused"
    /\ UNCHANGED <<network, intent, read, maxEpoch>>

SettleFromIndexer ==
    /\ pc = "intent"
    /\ ~Pinned
    /\ intent.provider
    /\ read' = served
    /\ maxEpoch' = Extend(Later(served, MinEpoch))
    /\ pc' = "settled"
    /\ UNCHANGED <<network, intent>>

-----------------------------------------------------------------------------
(* The network and the indexer (outside src/), as the comments of epoch.go describe them. *)

NextEpoch ==
    /\ epoch < MaxUint
    /\ epoch' = epoch + 1
    /\ UNCHANGED <<served, intent, pc, read, maxEpoch>>

IndexerCatchesUp ==
    /\ served < epoch
    /\ served' = served + 1
    /\ UNCHANGED <<epoch, intent, pc, read, maxEpoch>>

\* A transaction is not sequenceable before its min_epoch; after max_epoch it has expired, and
\* a window reaching too far past the sequencing epoch is refused.
Sequence ==
    /\ pc = "settled"
    /\ epoch >= MinEpoch
    /\ pc' = IF epoch > maxEpoch THEN "expired"
             ELSE IF maxEpoch > epoch + MaxTransactionValidityEpochs THEN "too_long"
             ELSE "sequenced"
    /\ UNCHANGED <<network, intent, read, maxEpoch>>

Next == SettlePinned \/ Unsettled \/ SettleFromIndexer \/ NextEpoch \/ IndexerCatchesUp
           \/ Sequence

Spec == Init /\ [][Next]_vars

-----------------------------------------------------------------------------

TypeOK ==
    /\ epoch \in Epochs
    /\ served \in Epochs
    /\ intent \in Intents
    /\ pc \in Places
    /\ read \in Epochs
    /\ maxEpoch \in Epochs

HasWindow == pc \in {"settled", "sequenced", "expired", "too_long"}

\* What reaches the core has a window some epoch satisfies and never the max_epoch 0 the network
\* reads as expired, at the top of the epoch range too (epoch.go 65-78, 81-96).
WindowOpen == HasWindow => maxEpoch >= MinEpoch /\ maxEpoch > 0

\* An unpinned transaction expires only after the full validity window, counted from the epoch
\* the indexer served: neither the floor at MinEpoch nor the saturation shortens it.
ExpiresLate ==
    pc = "expired" /\ ~Pinned => epoch > read + DefaultValidityEpochs

\* The network's own cap never refuses a window the SDK settled, however late the transaction is
\* sequenced and however far ahead its MinEpoch lies: only a caller's pin can be too long.
OnlyPinsTooLong == pc = "too_long" => Pinned

\* The inductive invariant: what is known of an unpinned window from the moment it is settled.
EpochInv ==
    /\ TypeOK
    /\ served <= epoch
    /\ pc = "intent" => maxEpoch = 0
    /\ HasWindow => maxEpoch >= MinEpoch /\ maxEpoch > 0
    /\ HasWindow /\ ~Pinned =>
          /\ read <= epoch
          /\ maxEpoch >= read + DefaultValidityEpochs \/ maxEpoch = MaxUint
          /\ maxEpoch <= read + DefaultValidityEpochs \/ maxEpoch <= MinEpoch + DefaultValidityEpochs
    /\ pc = "expired" /\ ~Pinned => epoch > read + DefaultValidityEpochs
    /\ pc = "too_long" => Pinned

=============================================================================

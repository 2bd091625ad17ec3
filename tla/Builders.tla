------------------------------- MODULE Builders -------------------------------
(***************************************************************************)
(* The fluent builders (TransactionBuilder, TransferBuilder, FaucetBuilder *)
(* and StealthTransferBuilder), the intents they hand out, and the sends   *)
(* that read those intents later.  An intent is a Go value, but its lists  *)
(* are slices into arrays that the builder and other intents may share,    *)
(* and a faucet claim is a pointer.                                        *)
(*                                                                         *)
(* One list stands for all the lists of a builder, which are appended to   *)
(* and handed out alike; its elements are numbers: the revealed amount of  *)
(* a stealth output, the identity of an instruction.  MaxEpoch stands for  *)
(* the fields that are plain values, the dry-run flag included.            *)
(***************************************************************************)
EXTENDS Naturals, FiniteSets, SequencesExt

(* A definition named X_Y is a deliberately wrong form of X that no action uses: the      *)
(* property that guards X is checked to fail when X is replaced by it.                    *)
CONSTANTS
    Kinds,                  \* builders this instance considers
    Elements,               \* what may be appended
    AmountWidth,            \* 2^64 in the code
    DefaultValidityEpochs,  \* 10
    MaxLen,                 \* bound on the length of a list
    MaxCap,                 \* bound on the capacity of a backing array
    MaxArrays,              \* bound on the backing arrays allocated
    MaxIntents,             \* bound on the intents handed out
    MaxEpoch                \* bound on the epoch the indexer serves

AllKinds == {"transaction", "transfer", "faucet", "stealth"}

ASSUME BuildersAssumption == Kinds \subseteq AllKinds /\ Elements \subseteq Nat
ASSUME SizesAssumption ==
    /\ AmountWidth \in Nat \ {0} /\ DefaultValidityEpochs \in Nat
    /\ {MaxLen, MaxCap, MaxArrays, MaxIntents, MaxEpoch} \subseteq Nat /\ MaxLen <= MaxCap

VARIABLES
    kind,       \* which builder this is
    arrays,     \* the backing arrays allocated so far; the length of each is its capacity
    builder,    \* the builder's fields
    claims,     \* the FaucetClaimIntents allocated so far, by address
    intents,    \* the intents handed out, as their holders see them
    meant,      \* what the holder of each intent was handed, plus its own appends
    appenders,  \* who has appended since the first intent was handed out: 0 is the builder
    epoch,      \* the epoch the indexer serves
    sent        \* the last send: which intent, when, and with which max_epoch

vars == <<kind, arrays, builder, claims, intents, meant, appenders, epoch, sent>>

\* A slice header; array 0 is the nil slice's.  max_epoch 0 is not pinned, claim 0 is nil.
NilSlice == [array |-> 0, len |-> 0]
NoSend == [intent |-> 0, at |-> 0, maxEpoch |-> 0]
Pins == {0, MaxEpoch + 1}

Init ==
    /\ kind \in Kinds
    /\ arrays = <<>>
    /\ builder = [list |-> NilSlice, revealed |-> 0, maxEpoch |-> 0, claim |-> 0]
    /\ claims = <<>>
    /\ intents = <<>> /\ meant = <<>> /\ appenders = {}
    /\ epoch = 0 /\ sent = NoSend

-----------------------------------------------------------------------------
(* Slices (the Go language, outside src/).                                  *)

Capacity(slice) == IF slice.array = 0 THEN 0 ELSE Len(arrays[slice.array])
Contents(slice) == IF slice.array = 0 THEN <<>> ELSE SubSeq(arrays[slice.array], 1, slice.len)

\* The outcomes of append(slice, e): in place while the array has room, else in a new array whose
\* spare capacity the runtime chooses.
Appended(slice, e) ==
    IF slice.len < Capacity(slice)
    THEN {[heap |-> [arrays EXCEPT ![slice.array][slice.len + 1] = e],
           slice |-> [slice EXCEPT !.len = @ + 1]]}
    ELSE {[heap |-> Append(arrays, Append(Contents(slice), e) \o [i \in 1..spare |-> 0]),
           slice |-> [array |-> Len(arrays) + 1, len |-> slice.len + 1]]
             : spare \in {n \in 0..MaxCap - slice.len - 1 : Len(arrays) < MaxArrays}}

-----------------------------------------------------------------------------
(* Calls on the builder.                                                    *)

HandsNothingOut == UNCHANGED <<kind, intents, meant, epoch, sent>>
Appending(who) == appenders' = (IF intents = <<>> THEN {} ELSE appenders \cup {who})

\* Add, FeeInstruction, Blob, ExtraInput; TakeFreeCoins, Deposit; SpendUTXO, ToOutput.
Add(e) ==
    /\ kind # "transfer"
    /\ builder.list.len < MaxLen
    /\ \E r \in Appended(builder.list, e) :
          arrays' = r.heap /\ builder' = [builder EXCEPT !.list = r.slice]
    /\ Appending(0)
    /\ UNCHANGED claims
    /\ HandsNothingOut

ToRevealedOutput(amount) ==
    /\ kind = "stealth"
    /\ builder' = [builder EXCEPT !.revealed = (@ + amount) % AmountWidth]
    /\ UNCHANGED <<arrays, claims, appenders>>
    /\ HandsNothingOut

\* MaxEpoch; Amount, Fee, MinEpoch, DryRun and the like set their own field as it does.
SetMaxEpoch(pin) ==
    /\ builder' = [builder EXCEPT !.maxEpoch = pin]
    /\ UNCHANGED <<arrays, claims, appenders>>
    /\ HandsNothingOut

Take ==
    /\ kind = "faucet"
    /\ Len(claims) < MaxIntents
    /\ claims' = Append(claims, 0)
    /\ builder' = [builder EXCEPT !.claim = Len(claims')]
    /\ UNCHANGED <<arrays, appenders>>
    /\ HandsNothingOut

-----------------------------------------------------------------------------
(* Handing out, adjusting and sending an intent.                            *)

\* What the holder of an intent reads in it, claims being where cs says.
ReadsIn(cs, intent) ==
    [list |-> Contents(intent.list), revealed |-> intent.revealed,
     maxEpoch |-> IF intent.claim # 0 THEN cs[intent.claim] ELSE intent.maxEpoch]
Reads(i) == ReadsIn(claims, intents[i])

HandOut(intent) ==
    /\ Len(intents) < MaxIntents
    /\ intents' = Append(intents, intent)
    /\ meant' = Append(meant, ReadsIn(claims', intent))
    /\ UNCHANGED <<kind, arrays, appenders, epoch, sent>>

\* The builder after it has handed its lists out: it goes on with the same slices.
AfterIntent_Emptied == [builder EXCEPT !.list.len = 0]
AfterIntent == builder

\* StealthTransferBuilder.Intent refuses a declared total that the outputs do not add up to.  Its
\* other refusal, of a spend without a fee payer, changes nothing and is left out.
Deposits(list) == FoldLeft(LAMBDA sum, amount : (sum + amount) % AmountWidth, 0, list)
Reconciles_Unchecked == TRUE
Reconciles == kind = "stealth" => Deposits(Contents(builder.list)) = builder.revealed

\* Intent of the three other builders, and FaucetBuilder.Instructions.
Intent ==
    /\ Reconciles
    /\ builder' = AfterIntent
    /\ UNCHANGED claims
    /\ HandOut([list |-> builder.list, revealed |-> builder.revealed,
                maxEpoch |-> IF kind = "faucet" THEN 0 ELSE builder.maxEpoch, claim |-> 0])

\* FaucetBuilder.Intent after a Take: the claim is copied, then completed.
FaucetIntent ==
    /\ builder.claim # 0
    /\ claims' = Append(claims, builder.maxEpoch)
    /\ HandOut([list |-> NilSlice, revealed |-> 0, maxEpoch |-> 0,
                claim |-> Len(claims')])
    /\ UNCHANGED builder

\* AsDryRun: the copy shares the receiver's lists, never its claim.
AsDryRun(i) ==
    /\ kind # "stealth"
    /\ claims' = (IF intents[i].claim = 0 THEN claims ELSE Append(claims, claims[intents[i].claim]))
    /\ HandOut([intents[i] EXCEPT !.claim = IF @ = 0 THEN 0 ELSE Len(claims')])
    /\ UNCHANGED builder

\* The holder of an intent appends to one of its (exported) lists.
Adjust(i, e) ==
    /\ kind # "transfer"
    /\ intents[i].list.len < MaxLen
    /\ \E r \in Appended(intents[i].list, e) :
          arrays' = r.heap /\ intents' = [intents EXCEPT ![i].list = r.slice]
    /\ meant' = [meant EXCEPT ![i].list = Append(@, e)]
    /\ Appending(i)
    /\ UNCHANGED <<kind, builder, claims, epoch, sent>>

\* The claims after a send: the driver settles max_epoch in a copy of its own.
AfterSend_Settled(i, settled) ==
    IF intents[i].claim = 0 THEN claims ELSE [claims EXCEPT ![intents[i].claim] = settled]
AfterSend(i, settled) == claims

\* settleMaxEpoch (module Epoch), here away from the top of the range.
Settled(pin) == IF pin # 0 THEN pin ELSE epoch + DefaultValidityEpochs

Send(i) ==
    /\ sent' = [intent |-> i, at |-> epoch, maxEpoch |-> Settled(Reads(i).maxEpoch)]
    /\ claims' = AfterSend(i, sent'.maxEpoch)
    /\ UNCHANGED <<kind, arrays, builder, intents, meant, appenders, epoch>>

NextEpoch ==
    /\ epoch < MaxEpoch
    /\ epoch' = epoch + 1
    /\ UNCHANGED <<kind, arrays, builder, claims, intents, meant, appenders, sent>>

Building ==
    \/ \E e \in Elements : Add(e) \/ ToRevealedOutput(e)
    \/ \E pin \in Pins : SetMaxEpoch(pin)
    \/ Take \/ Intent \/ FaucetIntent

Holding ==
    \E i \in 1..Len(intents) : AsDryRun(i) \/ Send(i) \/ \E e \in Elements : Adjust(i, e)

Next == Building \/ Holding \/ NextEpoch

Spec == Init /\ [][Next]_vars

-----------------------------------------------------------------------------
(* Properties.                                                              *)

\* As long as at most one of those who share a list goes on appending to it - the builder, or the
\* holder of one intent - every intent reads what it was handed out with, its own appends included:
\* neither the builder's further calls, nor a dry-run copy, nor a send reaches into it
\* (transaction_builder.go 125-129, stealth_builder.go 192-204, instructions.go 473-484, 610-620).
\* Two who append write the same cell.
HandedOutIsKept ==
    Cardinality(appenders) <= 1 => \A i \in 1..Len(intents) : Reads(i) = meant[i]

\* What Intent checked of a stealth transfer - that the revealed deposits of its outputs add up to
\* the declared total - still holds when the intent is read to be sent, although the builder shares
\* its outputs and has gone on (stealth_builder.go 171-185, 197).
StaysReconciled ==
    kind = "stealth" /\ appenders \subseteq {0} =>
        \A i \in 1..Len(intents) : Deposits(Contents(intents[i].list)) = intents[i].revealed

\* Every send of an intent without a pin settles the window anew from the epoch served then: a
\* repeated send, or one of a copy, never reuses the window of an earlier one; a pin is kept
\* (driver_generic.go 57-67).
FreshWindow ==
    sent # NoSend =>
        LET pin == meant[sent.intent].maxEpoch
        IN sent.maxEpoch = IF pin # 0 THEN pin ELSE sent.at + DefaultValidityEpochs

=============================================================================

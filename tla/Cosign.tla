-------------------------------- MODULE Cosign --------------------------------
(***************************************************************************)
(* The co-sign hand-off, from a CosignSealer that PrepareCosign returned:  *)
(* party A ships unsigned records and may name a main signer, the          *)
(* co-signers authorize whatever record reaches them, in any order and any *)
(* number of times, each for the seal public key it was told, and A seals  *)
(* under a key of its choice with some of the authorizations it has, or    *)
(* closes the session.  A may call the sealer in any order, too often, and *)
(* after its end.                                                          *)
(***************************************************************************)
EXTENDS Naturals, FiniteSets

(* A definition named X_Y is a deliberately wrong form of X that no action uses: the      *)
(* property that guards X is checked to fail when X is replaced by it.                    *)
CONSTANTS
    Signers,    \* the co-signers' public keys
    NoSigner,   \* no main signer declared
    SealKeys,   \* the keys a co-signer may be told, or A may seal under
    OwnKey,     \* the one A means to seal under
    NoTx,       \* nothing sealed
    MaxAuths    \* the authorizations A collects (bounds the model)

ASSUME SignersAssumption == NoSigner \notin Signers
ASSUME KeysAssumption == OwnKey \in SealKeys

VARIABLES
    handle,      \* CosignSealer.handle: "held", or "nil" once sealed or closed
    live,        \* the core still holds the partial transaction
    fault,       \* a native call was passed a partial the core does not hold
    mainSigner,  \* CosignSealer.mainSigner
    shipped,     \* the records shipped, each known by the main signer it commits to
    auths,       \* the authorizations A has received: who signed which record, for which seal key
    tx,          \* the sealed transaction
    last,        \* what the last call returned
    amended,     \* the main signer was changed after a record had been shipped
    strayed      \* a co-signer committed to, or A sealed under, another key than OwnKey

session == <<handle, live, fault, tx>>
vars == <<session, mainSigner, shipped, auths, last, amended, strayed>>

MainSigners == Signers \cup {NoSigner}
Authorizations == [by : Signers, main : MainSigners, sealKey : SealKeys]
Transactions == [auths : SUBSET Authorizations, main : MainSigners, sealKey : SealKeys]
Replies == {"none", "ok", "INTERNAL", "INVALID", "VALIDATION", "CORE"}

Init ==
    /\ handle = "held" /\ live = TRUE /\ fault = FALSE
    /\ mainSigner = NoSigner
    /\ shipped = {} /\ auths = {}
    /\ tx = NoTx
    /\ last = "none" /\ amended = FALSE /\ strayed = FALSE

-----------------------------------------------------------------------------
(* Party A.                                                                 *)

SetMainSigner(m) ==
    /\ mainSigner' = m
    /\ amended' = (amended \/ (shipped # {} /\ m # mainSigner))
    /\ UNCHANGED <<session, shipped, auths, last, strayed>>

\* What every call on the sealer checks first.
Closed_Ignored == FALSE
Closed == handle = "nil"

\* A native call borrows the partial or consumes it; either way the core must hold it.
Uses == fault' = (fault \/ ~live)

\* The record commits to the main signer of the moment; the core may refuse its key.
Recorded_Undeclared == NoSigner
Recorded == mainSigner

UnsignedRecord ==
    /\ IF Closed
       THEN last' = "INTERNAL" /\ UNCHANGED <<fault, shipped>>
       ELSE /\ Uses
            /\ \/ last' = "ok" /\ shipped' = shipped \cup {Recorded}
               \/ last' = "CORE" /\ UNCHANGED shipped
    /\ UNCHANGED <<handle, live, tx, mainSigner, auths, amended, strayed>>

\* ootle_seal_and_encode_with_auth (outside src/): the main signer must be one of the attached
\* signers, and every authorization must verify against what is sealed - it committed to a record
\* and to a seal public key.
Refusals(set, m, k) ==
    (IF m # NoSigner /\ ~\E a \in set : a.by = m THEN {"INVALID"} ELSE {})
    \cup (IF \E a \in set : a.main # m \/ a.sealKey # k THEN {"VALIDATION"} ELSE {})
    \cup {"CORE"}

AfterSeal_OnError(reply) == IF reply = "ok" THEN "nil" ELSE "held"
AfterSeal(reply) == "nil"

\* The seal consumes the partial whether or not it succeeds; the keys are an argument of the call.
SealWithAuth(set, k) ==
    /\ IF Closed
       THEN last' = "INTERNAL" /\ UNCHANGED <<session, strayed>>
       ELSE /\ Uses
            /\ live' = FALSE
            /\ \/ /\ Refusals(set, mainSigner, k) = {"CORE"}
                  /\ last' = "ok"
                  /\ tx' = [auths |-> set, main |-> mainSigner, sealKey |-> k]
               \/ /\ last' \in Refusals(set, mainSigner, k)
                  /\ UNCHANGED tx
            /\ handle' = AfterSeal(last')
            /\ strayed' = (strayed \/ k # OwnKey)
    /\ UNCHANGED <<mainSigner, shipped, auths, amended>>

Close ==
    /\ IF Closed
       THEN UNCHANGED session
       ELSE /\ Uses
            /\ live' = FALSE
            /\ handle' = "nil"
            /\ UNCHANGED tx
    /\ last' = "ok"
    /\ UNCHANGED <<mainSigner, shipped, auths, amended, strayed>>

-----------------------------------------------------------------------------
(* Party B: AddSignature over a record it was shipped, for the seal public key it was told; the  *)
(* answer reaches A late or never.                                                               *)

AddSignature(b, m, k) ==
    /\ m \in shipped
    /\ Cardinality(auths) < MaxAuths
    /\ auths' = auths \cup {[by |-> b, main |-> m, sealKey |-> k]}
    /\ strayed' = (strayed \/ k # OwnKey)
    /\ UNCHANGED <<session, mainSigner, shipped, last, amended>>

PartyA ==
    \/ \E m \in MainSigners : SetMainSigner(m)
    \/ UnsignedRecord
    \/ \E set \in SUBSET auths, k \in SealKeys : SealWithAuth(set, k)
    \/ Close

PartyB == \E b \in Signers, m \in MainSigners, k \in SealKeys : AddSignature(b, m, k)

Next == PartyA \/ PartyB

Spec == Init /\ [][Next]_vars

-----------------------------------------------------------------------------
(* Properties.                                                              *)

TypeOK ==
    /\ handle \in {"held", "nil"} /\ live \in BOOLEAN /\ fault \in BOOLEAN
    /\ mainSigner \in MainSigners
    /\ shipped \subseteq MainSigners
    /\ auths \subseteq Authorizations
    /\ tx \in Transactions \cup {NoTx}
    /\ last \in Replies
    /\ amended \in BOOLEAN /\ strayed \in BOOLEAN

\* Whatever A calls, in whatever order and after the end of the session, the core is never asked
\* about a partial it has released, and it holds one exactly as long as the sealer owns it: a seal
\* that fails, a Close after it and a second Close release nothing twice, and nothing is left.
OwnedExactly == ~fault /\ (handle = "held" <=> live)

\* An authorization verifies only against the record it signed and the seal public key it committed
\* to (cosign.go 20-24).  A hand-off that names the main signer before the first record is shipped,
\* as SetMainSigner asks (cosign.go 115-119), and whose co-signers are all told the key A then seals
\* under, collects no authorization that fails to verify at the seal, however records are repeated
\* and answers reordered, dropped or used in part.
HandOffVerifies == ~amended /\ ~strayed => last # "VALIDATION"

\* One session yields at most one sealed transaction, and its end is final.
OneTransaction == [][handle = "nil" => UNCHANGED session]_vars

\* Why a hand-off verifies: without an amendment every record in circulation commits to the main
\* signer A will seal with, and without a stray key every authorization to the key it will seal under.
InCirculation ==
    /\ \A a \in auths : a.main \in shipped
    /\ ~amended => \A m \in shipped : m = mainSigner
    /\ ~strayed => \A a \in auths : a.sealKey = OwnKey

CosignInv == TypeOK /\ OwnedExactly /\ InCirculation /\ HandOffVerifies

=============================================================================

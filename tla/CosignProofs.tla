----------------------------- MODULE CosignProofs -----------------------------
(***************************************************************************)
(* The co-sign session, for every set of co-signers.                       *)
(***************************************************************************)
EXTENDS Cosign, TLAPS

\* What A and the co-signers do keeps the session's types, the ownership of the partial, and the
\* agreement of what circulates with what will be sealed, and under which key.
THEOREM Invariance == Spec => []CosignInv
<1>1. Init => CosignInv
  BY KeysAssumption DEF Init, CosignInv, TypeOK, OwnedExactly, InCirculation, HandOffVerifies, MainSigners,
         Replies
<1>2. CosignInv /\ [Next]_vars => CosignInv'
  <2>. SUFFICES ASSUME CosignInv, [Next]_vars PROVE CosignInv'
    OBVIOUS
  <2>. USE DEF CosignInv, TypeOK, OwnedExactly, InCirculation, HandOffVerifies, Replies
  <2>1. ASSUME NEW m \in MainSigners, SetMainSigner(m) PROVE CosignInv'
    BY <2>1 DEF SetMainSigner, session
  <2>2. CASE UnsignedRecord
    <3>1. CASE Closed
      BY <2>2, <3>1 DEF UnsignedRecord
    <3>2. CASE ~Closed
      BY <2>2, <3>2 DEF UnsignedRecord, Closed, Uses, Recorded
    <3>3. QED
      BY <3>1, <3>2
  <2>3. ASSUME NEW set \in SUBSET auths, NEW k \in SealKeys, SealWithAuth(set, k)
       PROVE CosignInv'
    <3>1. CASE Closed
      BY <2>3, <3>1 DEF SealWithAuth, session
    <3>2. CASE ~Closed
      <4>1. /\ fault' = FALSE /\ live' = FALSE /\ handle' = "nil"
            /\ strayed' = (strayed \/ k # OwnKey)
            /\ UNCHANGED <<mainSigner, shipped, auths, amended>>
        BY <2>3, <3>2 DEF SealWithAuth, Closed, Uses, AfterSeal
      <4>2. Refusals(set, mainSigner, k) \subseteq {"INVALID", "VALIDATION", "CORE"}
        BY DEF Refusals
      <4>3. ~amended' /\ ~strayed' => "VALIDATION" \notin Refusals(set, mainSigner, k)
        BY <4>1 DEF Refusals
      <4>4. CASE last' = "ok" /\ tx' = [auths |-> set, main |-> mainSigner, sealKey |-> k]
        <5>1. tx' \in Transactions
          BY <4>4 DEF Transactions
        <5>2. QED
          BY <4>1, <4>4, <5>1
      <4>5. CASE last' \in Refusals(set, mainSigner, k) /\ UNCHANGED tx
        BY <4>1, <4>2, <4>3, <4>5
      <4>6. QED
        BY <2>3, <3>2, <4>4, <4>5 DEF SealWithAuth
    <3>3. QED
      BY <3>1, <3>2
  <2>4. CASE Close
    <3>1. CASE Closed
      BY <2>4, <3>1 DEF Close, session
    <3>2. CASE ~Closed
      BY <2>4, <3>2 DEF Close, Closed, Uses
    <3>3. QED
      BY <3>1, <3>2
  <2>5. ASSUME NEW b \in Signers, NEW m \in MainSigners, NEW k \in SealKeys, AddSignature(b, m, k)
        PROVE CosignInv'
    <3>1. [by |-> b, main |-> m, sealKey |-> k] \in Authorizations
      BY DEF Authorizations
    <3>2. /\ m \in shipped
          /\ auths' = auths \cup {[by |-> b, main |-> m, sealKey |-> k]}
          /\ strayed' = (strayed \/ k # OwnKey)
          /\ UNCHANGED <<handle, live, fault, tx, mainSigner, shipped, last, amended>>
      BY <2>5 DEF AddSignature, session
    <3>3. ASSUME ~strayed' PROVE \A a \in auths' : a.sealKey = OwnKey
      <4>1. ~strayed /\ k = OwnKey
        BY <3>2, <3>3, Zenon
      <4>2. \A a \in auths : a.sealKey = OwnKey
        BY <4>1
      <4>3. QED
        BY <3>2, <4>1, <4>2
    <3>4. \A a \in auths' : a.main \in shipped'
      BY <3>2
    <3>5. TypeOK'
      BY <3>1, <3>2
    <3>6. QED
      BY <3>2, <3>3, <3>4, <3>5
  <2>6. CASE UNCHANGED vars
    BY <2>6 DEF vars, session
  <2>7. QED
    BY <2>1, <2>2, <2>3, <2>4, <2>5, <2>6 DEF Next, PartyA, PartyB
<1>3. QED
  BY <1>1, <1>2, PTL DEF Spec

\* The sealer and the core agree about the partial, whatever A calls (cosign.go 52-54, 176-184).
THEOREM Ownership == Spec => []OwnedExactly
<1>1. CosignInv => OwnedExactly
  BY DEF CosignInv
<1>2. QED
  BY <1>1, Invariance, PTL

\* A hand-off that names its main signer first, and whose co-signers are told the key A seals under,
\* never fails to verify (cosign.go 20-24, 115-119).
THEOREM Verifies == Spec => []HandOffVerifies
<1>1. CosignInv => HandOffVerifies
  BY DEF CosignInv
<1>2. QED
  BY <1>1, Invariance, PTL

\* The end of a session is final, and its one transaction stays what it is.
THEOREM OnlyOne == Spec => OneTransaction
<1>1. [Next]_vars => [handle = "nil" => UNCHANGED session]_vars
  <2>. SUFFICES ASSUME Next, handle = "nil" PROVE UNCHANGED session
    OBVIOUS
  <2>1. CASE UnsignedRecord
    BY <2>1 DEF UnsignedRecord, Closed, session
  <2>2. ASSUME NEW set \in SUBSET auths, NEW k \in SealKeys, SealWithAuth(set, k)
       PROVE UNCHANGED session
    BY <2>2 DEF SealWithAuth, Closed
  <2>3. CASE Close
    BY <2>3 DEF Close, Closed
  <2>4. QED
    BY <2>1, <2>2, <2>3 DEF Next, PartyA, PartyB, SetMainSigner, AddSignature
<1>2. QED
  BY <1>1, PTL DEF Spec, OneTransaction

=============================================================================

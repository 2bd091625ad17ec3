------------------------------- MODULE Finality -------------------------------
(***************************************************************************)
(* What a caller of SubmitSealed or of a Send* driver is promised about    *)
(* the transaction, however the wait for its result is organised: it is    *)
(* handed to the network at most once, and what is returned is the verdict *)
(* the network reached, or an error, once and for all.  An error says      *)
(* nothing of the transaction: the network may take it even afterwards.    *)
(***************************************************************************)
EXTENDS Naturals

CONSTANTS Verdicts, NoVerdict, Failed

VARIABLES
    accepted,   \* how often the network took the transaction
    verdict,    \* what the network decided
    ret         \* what the call returned

vars == <<accepted, verdict, ret>>

Init == accepted = 0 /\ verdict = NoVerdict /\ ret = NoVerdict

Accept ==
    /\ accepted = 0 /\ ret \in {NoVerdict, Failed}
    /\ accepted' = 1
    /\ UNCHANGED <<verdict, ret>>

Decide ==
    /\ accepted = 1 /\ verdict = NoVerdict
    /\ verdict' \in Verdicts
    /\ UNCHANGED <<accepted, ret>>

ReturnVerdict ==
    /\ ret = NoVerdict
    /\ verdict \in Verdicts
    /\ ret' = verdict
    /\ UNCHANGED <<accepted, verdict>>

ReturnError ==
    /\ ret = NoVerdict
    /\ ret' = Failed
    /\ UNCHANGED <<accepted, verdict>>

Next == Accept \/ Decide \/ ReturnVerdict \/ ReturnError

Spec == Init /\ [][Next]_vars

=============================================================================

----------------------------- MODULE Finalization -----------------------------
(***************************************************************************)
(* submitAndWait: submit a sealed transaction, wait for the network to     *)
(* finalize it - on the indexer's lifecycle broadcast when the transport   *)
(* can stream it, by polling otherwise or as a fallback - and return the   *)
(* result.  The caller's goroutine, the stream's reader goroutine, the     *)
(* context, the timer, the network and the indexer interleave freely.      *)
(***************************************************************************)
EXTENDS SSEStream

(* A definition named X_Y is a deliberately wrong form of X that no action uses: the      *)
(* property that guards X is checked to fail when X is replaced by it.                    *)
CONSTANTS
    Verdicts,    \* what the network may decide
    NoVerdict,   \* undecided, or not returned yet
    Failed,      \* the call returned an error
    MaxNoise     \* bound on the frames about other things

ASSUME VerdictAssumption ==
    NoVerdict \notin Verdicts /\ Failed \notin Verdicts /\ NoVerdict # Failed
ASSUME NoiseAssumption == MaxNoise \in Nat
ASSUME FrameAssumption == NoFrame \notin {"mine", "other", "noise"}

VARIABLES
    streaming,  \* the transport can stream and the wait is enabled
    pc,         \* the caller's next statement
    exit,       \* why the wait on the stream ended
    ret,        \* what the call returned
    ctxDone,    \* the caller's context is done
    underway,   \* the submit of a caller that gave up may still reach the network
    accepted,   \* how often the network took the transaction
    verdict,    \* the network's decision; the result endpoint serves it from then on
    announced,  \* the finalized frame was broadcast
    lagged,     \* the broadcast skipped this subscriber
    noise       \* frames about other things sent so far

caller == <<streaming, pc, exit, ret>>
network == <<underway, accepted, verdict, announced, lagged, noise>>
vars == <<caller, ctxDone, network, stream>>

\* "mine": TransactionFinalized for this transaction; "other": for another one; "noise": any
\* other event, or a body that does not decode.
Frames == {"mine", "other", "noise"}

Exits == {"none", "gate", "closed", "error", "timeout", "ctx"}

Init ==
    /\ streaming \in BOOLEAN
    /\ pc = (IF streaming THEN "open" ELSE "submit")
    /\ exit = "none"
    /\ ret = NoVerdict
    /\ ctxDone = FALSE
    /\ underway = FALSE /\ accepted = 0 /\ verdict = NoVerdict
    /\ announced = FALSE /\ lagged = FALSE /\ noise = 0
    /\ StreamInit

-----------------------------------------------------------------------------
(* The caller: submitAndWait, awaitFinalized, waitResult, parseFinalized.   *)

\* StreamFinalizedEvents: the subscription is live when it returns.  The request has no timeout
\* of its own (streamHTTPClient): it ends when the indexer answers it or the context is done.
SubscribeAnswered ==
    /\ pc = "open"
    /\ \/ Opened(<<>>)
       \/ OpenFailed("http")
    /\ pc' = "submit"
    /\ UNCHANGED <<streaming, exit, ret, ctxDone, network, cancelled>>

SubscribeCtx ==
    /\ pc = "open"
    /\ ctxDone
    /\ OpenFailed("cancelled")
    /\ pc' = "submit"
    /\ UNCHANGED <<streaming, exit, ret, ctxDone, network, cancelled>>

\* cancel(), called before polling and deferred for every return.
Cancel_Forgotten == UNCHANGED cancelled
Cancel == cancelled' = (cancelled \/ streaming)

Return(r) ==
    /\ pc' = "done"
    /\ ret' = r
    /\ Cancel

\* POST /transactions reaches the indexer.  The request is never repeated.
SubmitArrives ==
    /\ pc = "submit"
    /\ accepted' = accepted + 1
    /\ pc' = "submitted"
    /\ UNCHANGED <<streaming, exit, ret, ctxDone, underway, verdict, announced, lagged, noise, stream>>

SubmitAnswered ==
    /\ pc = "submitted"
    /\ pc' = (IF streaming THEN "await" ELSE "poll")
    /\ UNCHANGED <<streaming, exit, ret, ctxDone, network, stream>>

\* The request or its answer is lost, times out, is refused or cannot be decoded: the call
\* returns, whether or not the network took the transaction, or takes it later.
SubmitFails_Retried ==
    /\ pc \in {"submit", "submitted"}
    /\ pc' = "submit"
    /\ UNCHANGED <<streaming, exit, ret, ctxDone, network, stream>>
SubmitFails ==
    /\ pc \in {"submit", "submitted"}
    /\ Return(Failed)
    /\ underway' \in {FALSE, pc = "submit"}
    /\ UNCHANGED <<streaming, exit, ctxDone, accepted, verdict, announced, lagged, noise,
                    wire, wireEnd, reader, channels>>

\* The wait is over, for whichever reason: release the stream, then poll.
Leave(reason) ==
    /\ exit' = reason
    /\ pc' = "poll"
    /\ Cancel
    /\ UNCHANGED <<streaming, ret, ctxDone, network>>

OpensGate_AnyTransaction(f) == f \in {"mine", "other"}
OpensGate(f) == f = "mine"

AwaitFrame ==
    /\ pc = "await"
    /\ TakeFrame
    /\ IF OpensGate(held)
       THEN Leave("gate")
       ELSE UNCHANGED <<caller, ctxDone, network, cancelled>>

AwaitClosed ==
    /\ pc = "await"
    /\ outClosed
    /\ Leave("closed")
    /\ UNCHANGED <<wire, wireEnd, reader, channels>>

AwaitError ==
    /\ pc = "await"
    /\ TakeErr
    /\ Leave("error")

AwaitTimeout_Never == FALSE
AwaitTimeout ==
    /\ pc = "await"
    /\ Leave("timeout")
    /\ UNCHANGED <<wire, wireEnd, reader, channels>>

AwaitCtx ==
    /\ pc = "await"
    /\ ctxDone
    /\ Leave("ctx")
    /\ UNCHANGED <<wire, wireEnd, reader, channels>>

\* GET /transactions/{id}/result; a request whose context is done is not sent.
Poll_Detached ==
    /\ pc = "poll"
    /\ pc' = "asked"
    /\ UNCHANGED <<streaming, exit, ret, ctxDone, network, stream>>
Poll ==
    /\ pc = "poll"
    /\ IF ctxDone
       THEN /\ Return(Failed)
            /\ UNCHANGED <<wire, wireEnd, reader, channels>>
       ELSE /\ pc' = "asked"
            /\ UNCHANGED <<ret, stream>>
    /\ UNCHANGED <<streaming, exit, ctxDone, network>>

\* A result that is not "Pending" is typed by the core, which may refuse it; a failed request
\* ends the call.
Finalized == verdict # NoVerdict

PollAnswered_PendingToo ==
    /\ pc = "asked"
    /\ Return(IF Finalized THEN verdict ELSE CHOOSE v \in Verdicts : TRUE)
    /\ UNCHANGED <<streaming, exit, ctxDone, network, wire, wireEnd, reader, channels>>
PollAnswered ==
    /\ pc = "asked"
    /\ \/ Finalized /\ Return(verdict)
       \/ Return(Failed)
       \/ ~Finalized /\ pc' = "sleep" /\ UNCHANGED <<ret, cancelled>>
    /\ UNCHANGED <<streaming, exit, ctxDone, network, wire, wireEnd, reader, channels>>

PollAgain ==
    /\ pc = "sleep"
    /\ pc' = "poll"
    /\ UNCHANGED <<streaming, exit, ret, ctxDone, network, stream>>

SleepCtx ==
    /\ pc = "sleep"
    /\ ctxDone
    /\ Return(Failed)
    /\ UNCHANGED <<streaming, exit, ctxDone, network, wire, wireEnd, reader, channels>>

Submitting == SubmitArrives \/ SubmitAnswered \/ SubmitFails
Awaiting == AwaitFrame \/ AwaitClosed \/ AwaitError \/ AwaitTimeout \/ AwaitCtx
Polling == Poll \/ PollAnswered \/ PollAgain \/ SleepCtx
Caller == Submitting \/ Awaiting \/ Polling

-----------------------------------------------------------------------------
(* The reader goroutine, the caller's context, the network and the indexer. *)

Reader == ReaderStep /\ UNCHANGED <<caller, ctxDone, network>>

\* A deadline or a cancellation; the stream's context derives from the caller's.
CtxDone ==
    /\ ~ctxDone
    /\ ctxDone' = TRUE
    /\ cancelled' = (cancelled \/ streaming)
    /\ UNCHANGED <<caller, network, wire, wireEnd, reader, channels>>

SubmitArrivesLate ==
    /\ underway
    /\ underway' = FALSE
    /\ accepted' = accepted + 1
    /\ UNCHANGED <<caller, ctxDone, verdict, announced, lagged, noise, stream>>

Decide ==
    /\ accepted > 0
    /\ verdict = NoVerdict
    /\ verdict' \in Verdicts
    /\ UNCHANGED <<caller, ctxDone, underway, accepted, announced, lagged, noise, stream>>

\* The broadcast follows the decision, and keeps nothing for a subscriber that is not there.
Announce ==
    /\ verdict # NoVerdict
    /\ ~announced
    /\ announced' = TRUE
    /\ \/ ServerWrites("mine") /\ UNCHANGED lagged
       \/ Connected /\ lagged' = TRUE /\ UNCHANGED stream
       \/ ~Connected /\ UNCHANGED <<lagged, stream>>
    /\ UNCHANGED <<caller, ctxDone, underway, accepted, verdict, noise>>

Noise ==
    /\ noise < MaxNoise
    /\ noise' = noise + 1
    /\ \E f \in {"other", "noise"} : ServerWrites(f)
    /\ UNCHANGED <<caller, ctxDone, underway, accepted, verdict, announced, lagged>>

StreamEnds == ServerEnds({"noise"}) /\ UNCHANGED <<caller, ctxDone, network>>

Environment == CtxDone \/ SubmitArrivesLate \/ Decide \/ Announce \/ Noise \/ StreamEnds

Next == SubscribeAnswered \/ SubscribeCtx \/ Caller \/ Reader \/ Environment

Spec == Init /\ [][Next]_vars

\* The goroutines are scheduled, the timers fire, and every request of the client with a timeout
\* is answered or times out; nothing is assumed of the stream once it is open.
Scheduling ==
    /\ WF_vars(Caller) /\ WF_vars(AwaitTimeout) /\ WF_vars(SubscribeCtx)
    /\ WF_vars(Reader)

FairCall == Spec /\ Scheduling

\* The network decides what it has accepted, whether or not the caller's context ever ends.
Decides == WF_vars(Decide)
-----------------------------------------------------------------------------
(* Properties.                                                              *)

TypeOK ==
    /\ streaming \in BOOLEAN
    /\ pc \in {"open", "submit", "submitted", "await", "poll", "asked",
               "sleep", "done"}
    /\ exit \in Exits
    /\ ret \in Verdicts \cup {NoVerdict, Failed}
    /\ ctxDone \in BOOLEAN
    /\ underway \in BOOLEAN /\ accepted \in 0..1
    /\ verdict \in Verdicts \cup {NoVerdict}
    /\ announced \in BOOLEAN /\ lagged \in BOOLEAN
    /\ noise \in 0..MaxNoise
    /\ StreamTypeOK(Frames)

\* The whole mechanism keeps the promise of Finality.
Promise == INSTANCE Finality
KeepsPromise == Promise!Spec

\* The gate opens only on the frame of this very transaction, after which the first poll finds a
\* result: the frame is "a later, safer edge" than the result (finalization.go 5-7).
GateIsSafe == exit = "gate" => announced /\ pc # "sleep"

\* Nothing between the subscription and the wait loses the frame: as long as the subscription is
\* healthy, a frame broadcast after it - before the submit even answered - is still on its way to
\* the wait (finalization.go 75-79, sse.go 107-110).
FrameNotLost ==
    /\ announced /\ ~lagged
    /\ pc \in {"submitted", "await"}
    /\ Connected /\ ~cancelled
    => held = "mine" \/ \E i \in 1..Len(wire) : wire[i] = "mine"

\* The poll is never raced against the stream: from the first GetResult on, the stream's context
\* is cancelled, so its reader, wherever it is blocked, is on its way out (finalization.go 90-93).
PollNotRaced == pc \in {"poll", "asked", "sleep", "done"} /\ Running => cancelled

\* The inductive invariant behind these: what has happened by each statement of the caller, what a
\* frame about this transaction proves, and that a stream is cancelled once it is of no use.
Polls == {"poll", "asked", "sleep", "done"}
MineInFlight == held = "mine" \/ \E i \in 1..Len(wire) : wire[i] = "mine"

FinInv ==
    /\ TypeOK
    /\ pc \in {"open", "submit"} => accepted = 0
    /\ underway => accepted = 0 /\ ret = Failed
    /\ pc # "done" => ret = NoVerdict
    /\ pc = "done" => ret # NoVerdict
    /\ verdict # NoVerdict => accepted = 1
    /\ announced => verdict # NoVerdict
    /\ MineInFlight => announced
    /\ exit = "gate" => announced /\ pc # "sleep"
    /\ pc = "open" => streaming
    /\ ~streaming => reader = "none"
    /\ streaming /\ pc \in Polls => cancelled

\* The reader goroutine does not outlive the call by more than its own last steps: it is blocked
\* on a receiver that is gone, or on a silent server, only until it sees the cancellation.
ReaderStops == (pc = "done") ~> ~Running

\* The call returns once the network decides, if the events endpoint answers the subscription at
\* all: whatever the opened stream does then - silence, a lost frame, an error or a close.
ReturnsOnceDecided == Decides /\ WF_vars(SubscribeAnswered) => <>(pc = "done")

\* The call returns on the caller's deadline alone, whatever the network and the endpoints fail to
\* do.
ReturnsByDeadline == WF_vars(CtxDone) => <>(pc = "done")

=============================================================================

-------------------------- MODULE FinalizationProofs --------------------------
(***************************************************************************)
(* submitAndWait keeps the promise of Finality, and its safety properties, *)
(* for every set of verdicts and any amount of traffic on the stream.      *)
(***************************************************************************)
EXTENDS Finalization, SequenceTheorems, TLAPS

-----------------------------------------------------------------------------
(* The steps of the stream: each keeps its type and invents no frame.       *)

LEMMA ReaderStepFacts ==
    ASSUME StreamTypeOK(Frames), ReaderStep
    PROVE  /\ StreamTypeOK(Frames)'
           /\ MineInFlight' => MineInFlight
           /\ reader # "none"
           /\ UNCHANGED cancelled
<1>. USE FrameAssumption DEF StreamTypeOK, Frames, ReaderStates, StreamErrors, MineInFlight
<1>1. CASE ReadFrame
  <2>1. /\ wire \in Seq(Frames) /\ wire # <<>>
        /\ held' = Head(wire) /\ wire' = Tail(wire)
    BY <1>1 DEF ReadFrame
  <2>2. /\ Head(wire) = wire[1] /\ Head(wire) \in Frames
        /\ Tail(wire) \in Seq(Frames) /\ Len(Tail(wire)) = Len(wire) - 1
        /\ \A i \in 1..Len(Tail(wire)) : Tail(wire)[i] = wire[i + 1]
        /\ Len(wire) \in Nat /\ Len(wire) > 0
    BY <2>1
  <2>3. MineInFlight' => MineInFlight
    BY <2>1, <2>2
  <2>4. QED
    BY <1>1, <2>1, <2>2, <2>3 DEF ReadFrame
<1>2. CASE SendCancelled
  BY <1>2 DEF SendCancelled
<1>3. CASE ReadEnds
  BY <1>3 DEF ReadEnds
<1>4. CASE CloseErrs
  BY <1>4 DEF CloseErrs
<1>5. CASE CloseOut
  BY <1>5 DEF CloseOut
<1>6. QED
  BY <1>1, <1>2, <1>3, <1>4, <1>5 DEF ReaderStep

LEMMA WriteFacts ==
    ASSUME StreamTypeOK(Frames), NEW f \in Frames, ServerWrites(f)
    PROVE  /\ StreamTypeOK(Frames)'
           /\ MineInFlight' => MineInFlight \/ f = "mine"
           /\ UNCHANGED <<reader, cancelled>>
<1>1. /\ wire \in Seq(Frames) /\ wire' = Append(wire, f)
      /\ UNCHANGED <<wireEnd, reader, channels, cancelled>>
  BY DEF ServerWrites, StreamTypeOK
<1>2. /\ wire' \in Seq(Frames) /\ Len(wire) \in Nat /\ Len(wire') = Len(wire) + 1
      /\ wire'[Len(wire) + 1] = f
      /\ \A i \in 1..Len(wire) : wire'[i] = wire[i]
  BY <1>1
<1>3. QED
  BY <1>1, <1>2 DEF StreamTypeOK, MineInFlight, channels

LEMMA EndFacts ==
    ASSUME StreamTypeOK(Frames), ServerEnds({"noise"})
    PROVE  /\ StreamTypeOK(Frames)'
           /\ MineInFlight' => MineInFlight
           /\ UNCHANGED <<reader, cancelled>>
<1>1. /\ wire \in Seq(Frames) /\ UNCHANGED <<reader, channels, cancelled>>
      /\ wireEnd' \in {"eof", "broken"}
      /\ \E n \in 0..Len(wire) : \/ wire' = SubSeq(wire, 1, n)
                                \/ wire' = Append(SubSeq(wire, 1, n), "noise")
  BY DEF ServerEnds, StreamTypeOK
<1>2. wire' \in Seq(Frames) /\ (MineInFlight' => MineInFlight)
  <2>1. PICK n \in 0..Len(wire) : \/ wire' = SubSeq(wire, 1, n)
                                 \/ wire' = Append(SubSeq(wire, 1, n), "noise")
    BY <1>1
  <2>2. Len(wire) \in Nat /\ n \in Nat /\ n <= Len(wire)
    BY <1>1
  <2>. DEFINE kept == SubSeq(wire, 1, n)
  <2>3. /\ kept \in Seq(Frames) /\ Len(kept) = n
        /\ \A i \in 1..n : kept[i] = wire[i]
    BY <1>1, <2>2
  <2>4. CASE wire' = kept
    BY <1>1, <2>2, <2>3, <2>4 DEF MineInFlight, channels
  <2>5. CASE wire' = Append(kept, "noise")
    <3>. HIDE DEF kept
    <3>1. /\ wire' \in Seq(Frames) /\ Len(wire') = n + 1
          /\ \A i \in 1..n : wire'[i] = kept[i]
          /\ wire'[n + 1] = "noise"
      BY <2>2, <2>3, <2>5 DEF Frames
    <3>2. \A i \in 1..Len(wire') : wire'[i] = "mine" => i \in 1..n
      BY <2>2, <3>1
    <3>3. QED
      BY <1>1, <2>2, <2>3, <3>1, <3>2 DEF MineInFlight, channels
  <2>6. QED
    BY <2>1, <2>4, <2>5
<1>3. QED
  BY <1>1, <1>2 DEF StreamTypeOK, channels

LEMMA OpenFacts ==
    ASSUME StreamTypeOK(Frames), Opened(<<>>) \/ OpenFailed("http") \/ OpenFailed("cancelled"),
           UNCHANGED cancelled
    PROVE  StreamTypeOK(Frames)' /\ ~MineInFlight'
<1>1. <<>> \in Seq(Frames) /\ Len(<<>>) = 0
  OBVIOUS
<1>2. wire' = <<>> /\ held' = NoFrame
  BY DEF Opened, OpenFailed
<1>3. ~MineInFlight'
  BY <1>1, <1>2, FrameAssumption DEF MineInFlight
<1>4. /\ wireEnd' = "open" /\ reader' \in {"reading", "none"}
      /\ outClosed' \in BOOLEAN /\ cancelled' \in BOOLEAN
      /\ \/ serrs' = [val |-> NoErr, closed |-> FALSE]
         \/ serrs' = [val |-> "http", closed |-> TRUE]
         \/ serrs' = [val |-> "cancelled", closed |-> TRUE]
  BY DEF StreamTypeOK, Opened, OpenFailed
<1>5. serrs' \in [val : StreamErrors \cup {NoErr}, closed : BOOLEAN]
  <2>1. \A e \in StreamErrors \cup {NoErr}, b \in BOOLEAN :
           [val |-> e, closed |-> b] \in [val : StreamErrors \cup {NoErr}, closed : BOOLEAN]
    OBVIOUS
  <2>2. {NoErr, "http", "cancelled"} \subseteq StreamErrors \cup {NoErr}
    BY DEF StreamErrors
  <2>3. QED
    BY <1>4, <2>1, <2>2
<1>6. QED
  BY <1>1, <1>2, <1>3, <1>4, <1>5 DEF StreamTypeOK, ReaderStates

LEMMA TakeFacts ==
    ASSUME StreamTypeOK(Frames), TakeFrame \/ TakeErr, cancelled' \in BOOLEAN
    PROVE  /\ StreamTypeOK(Frames)'
           /\ MineInFlight' => MineInFlight
           /\ reader = "none" => reader' = "none"
<1>. USE FrameAssumption DEF StreamTypeOK, MineInFlight, ReaderStates, StreamErrors
<1>1. CASE TakeFrame
  BY <1>1 DEF TakeFrame
<1>2. CASE TakeErr
  <2>1. /\ UNCHANGED <<wire, wireEnd, reader, held, outClosed>>
        /\ serrs' = [serrs EXCEPT !.val = NoErr]
    BY <1>2 DEF TakeErr
  <2>2. serrs' \in [val : StreamErrors \cup {NoErr}, closed : BOOLEAN]
    BY <2>1
  <2>3. QED
    BY <2>1, <2>2
<1>3. QED
  BY <1>1, <1>2

LEMMA StayFacts ==
    ASSUME StreamTypeOK(Frames), UNCHANGED <<wire, wireEnd, reader, channels>>,
           cancelled' \in BOOLEAN
    PROVE  StreamTypeOK(Frames)' /\ (MineInFlight' <=> MineInFlight) /\ reader' = reader
BY DEF StreamTypeOK, MineInFlight, channels

\* Releasing the stream leaves it cancelled if there is one.
LEMMA CancelFacts ==
    ASSUME TypeOK, Cancel
    PROVE  cancelled' \in BOOLEAN /\ (streaming \/ cancelled => cancelled')
BY DEF Cancel, TypeOK, StreamTypeOK

-----------------------------------------------------------------------------
(* The inductive invariant.                                                 *)

LEMMA InitEstablishes == Init => FinInv
<1>. SUFFICES ASSUME Init PROVE FinInv
  OBVIOUS
<1>1. StreamTypeOK(Frames) /\ ~MineInFlight /\ reader = "none"
  <2>1. wire = <<>> /\ wire \in Seq(Frames) /\ Len(wire) = 0 /\ held = NoFrame
    BY DEF Init, StreamInit
  <2>2. serrs \in [val : StreamErrors \cup {NoErr}, closed : BOOLEAN]
    BY DEF Init, StreamInit
  <2>3. /\ wireEnd = "open" /\ reader = "none"
        /\ outClosed = FALSE /\ cancelled = FALSE
    BY DEF Init, StreamInit
  <2>4. ~MineInFlight
    BY <2>1, FrameAssumption DEF MineInFlight
  <2>5. QED
    BY <2>1, <2>2, <2>3, <2>4 DEF StreamTypeOK, ReaderStates
<1>2. /\ streaming \in BOOLEAN /\ pc \in {"open", "submit"} /\ (pc = "open" => streaming)
      /\ exit = "none" /\ ret = NoVerdict /\ ctxDone = FALSE
      /\ underway = FALSE /\ accepted = 0 /\ verdict = NoVerdict
      /\ announced = FALSE /\ lagged = FALSE /\ noise = 0
  BY DEF Init
<1>3. TypeOK
  <2>1. ctxDone \in BOOLEAN /\ announced \in BOOLEAN /\ lagged \in BOOLEAN
    BY <1>2
  <2>2. accepted \in 0..1 /\ noise \in 0..MaxNoise
    BY <1>2, NoiseAssumption
  <2>3. QED
    BY <1>1, <1>2, <2>1, <2>2 DEF TypeOK, Exits
<1>4. QED
  BY <1>1, <1>2, <1>3 DEF FinInv, Polls

LEMMA SubscribePreserves == FinInv /\ (SubscribeAnswered \/ SubscribeCtx) => FinInv'
<1>. SUFFICES ASSUME FinInv, SubscribeAnswered \/ SubscribeCtx PROVE FinInv'
  OBVIOUS
<1>1. /\ pc = "open" /\ pc' = "submit"
      /\ UNCHANGED <<streaming, exit, ret, ctxDone, network, cancelled>>
      /\ Opened(<<>>) \/ OpenFailed("http") \/ OpenFailed("cancelled")
  BY DEF SubscribeAnswered, SubscribeCtx
<1>2. StreamTypeOK(Frames)' /\ ~MineInFlight'
  BY <1>1, OpenFacts DEF FinInv, TypeOK
<1>3. QED
  BY <1>1, <1>2 DEF FinInv, TypeOK, network, Polls

LEMMA SubmittingPreserves == FinInv /\ Submitting => FinInv'
<1>. SUFFICES ASSUME FinInv, Submitting PROVE FinInv'
  OBVIOUS
<1>1. CASE SubmitArrives
  <2>1. UNCHANGED <<wire, wireEnd, reader, channels, cancelled>>
    BY <1>1 DEF SubmitArrives, stream, channels
  <2>2. StreamTypeOK(Frames)' /\ (MineInFlight' <=> MineInFlight) /\ reader' = reader
    BY <2>1, StayFacts DEF FinInv, TypeOK, StreamTypeOK
  <2>3. QED
    BY <1>1, <2>1, <2>2, VerdictAssumption DEF SubmitArrives, FinInv, TypeOK, Polls
<1>2. CASE SubmitAnswered
  <2>1. UNCHANGED <<wire, wireEnd, reader, channels, cancelled>>
    BY <1>2 DEF SubmitAnswered, stream, channels
  <2>2. StreamTypeOK(Frames)' /\ (MineInFlight' <=> MineInFlight) /\ reader' = reader
    BY <2>1, StayFacts DEF FinInv, TypeOK, StreamTypeOK
  <2>3. QED
    BY <1>2, <2>1, <2>2 DEF SubmitAnswered, FinInv, TypeOK, Polls, network
<1>3. CASE SubmitFails
  <2>1. UNCHANGED <<wire, wireEnd, reader, channels>> /\ Cancel
    BY <1>3 DEF SubmitFails, Return
  <2>2. cancelled' \in BOOLEAN /\ (streaming \/ cancelled => cancelled')
    BY <2>1, CancelFacts DEF FinInv
  <2>3. StreamTypeOK(Frames)' /\ (MineInFlight' <=> MineInFlight) /\ reader' = reader
    BY <2>1, <2>2, StayFacts DEF FinInv, TypeOK
  <2>4. QED
    BY <1>3, <2>2, <2>3, VerdictAssumption
       DEF SubmitFails, Return, FinInv, TypeOK, Polls, network
<1>4. QED
  BY <1>1, <1>2, <1>3 DEF Submitting

LEMMA AwaitingPreserves == FinInv /\ Awaiting => FinInv'
<1>. SUFFICES ASSUME FinInv, Awaiting PROVE FinInv'
  OBVIOUS
<1>1. CASE AwaitFrame
  <2>1. pc = "await" /\ TakeFrame
    BY <1>1 DEF AwaitFrame
  <2>2. CASE OpensGate(held)
    <3>1. Leave("gate") /\ held = "mine"
      BY <1>1, <2>2 DEF AwaitFrame, OpensGate
    <3>2. cancelled' \in BOOLEAN /\ (streaming \/ cancelled => cancelled')
      BY <3>1, CancelFacts DEF FinInv, Leave
    <3>3. /\ StreamTypeOK(Frames)' /\ (MineInFlight' => MineInFlight)
          /\ reader = "none" => reader' = "none"
      BY <2>1, <3>2, TakeFacts DEF FinInv, TypeOK
    <3>4. announced
      BY <3>1 DEF FinInv, MineInFlight
    <3>5. QED
      BY <2>1, <3>1, <3>2, <3>3, <3>4 DEF Leave, FinInv, TypeOK, Exits, Polls, network
  <2>3. CASE ~OpensGate(held)
    <3>1. UNCHANGED <<caller, ctxDone, network, cancelled>>
      BY <1>1, <2>3 DEF AwaitFrame
    <3>2. /\ StreamTypeOK(Frames)' /\ (MineInFlight' => MineInFlight)
          /\ reader = "none" => reader' = "none"
      BY <2>1, <3>1, TakeFacts DEF FinInv, TypeOK, StreamTypeOK
    <3>3. QED
      BY <2>1, <3>1, <3>2 DEF FinInv, TypeOK, Polls, network, caller
  <2>4. QED
    BY <2>2, <2>3
<1>2. ASSUME NEW r \in Exits \ {"gate"}, pc = "await", Leave(r),
             TakeErr \/ UNCHANGED <<wire, wireEnd, reader, channels>>
      PROVE  FinInv'
  <2>1. cancelled' \in BOOLEAN /\ (streaming \/ cancelled => cancelled')
    BY <1>2, CancelFacts DEF FinInv, Leave
  <2>2. /\ StreamTypeOK(Frames)' /\ (MineInFlight' => MineInFlight)
        /\ reader = "none" => reader' = "none"
    BY <1>2, <2>1, TakeFacts, StayFacts DEF FinInv, TypeOK
  <2>3. QED
    BY <1>2, <2>1, <2>2 DEF Leave, FinInv, TypeOK, Polls, network
<1>3. CASE AwaitClosed \/ AwaitError \/ AwaitTimeout \/ AwaitCtx
  BY <1>2, <1>3 DEF AwaitClosed, AwaitError, AwaitTimeout, AwaitCtx, Exits
<1>4. QED
  BY <1>1, <1>3 DEF Awaiting

LEMMA PollingPreserves == FinInv /\ Polling => FinInv'
<1>. SUFFICES ASSUME FinInv, Polling PROVE FinInv'
  OBVIOUS
<1>1. ASSUME NEW r \in Verdicts \cup {Failed}, pc \in Polls \ {"done"}, Return(r),
             UNCHANGED <<streaming, exit, ctxDone, network, wire, wireEnd, reader, channels>>
      PROVE  FinInv'
  <2>1. cancelled' \in BOOLEAN /\ (streaming \/ cancelled => cancelled')
    BY <1>1, CancelFacts DEF FinInv, Return
  <2>2. StreamTypeOK(Frames)' /\ (MineInFlight' <=> MineInFlight) /\ reader' = reader
    BY <1>1, <2>1, StayFacts DEF FinInv, TypeOK
  <2>3. QED
    BY <1>1, <2>1, <2>2, VerdictAssumption DEF Return, FinInv, TypeOK, Polls, network
<1>2. ASSUME NEW p \in Polls \ {"done"}, pc \in Polls \ {"done"}, pc' = p,
             exit = "gate" => p # "sleep",
             UNCHANGED <<streaming, exit, ret, ctxDone, network, stream>>
      PROVE  FinInv'
  <2>1. UNCHANGED <<wire, wireEnd, reader, channels, cancelled>>
    BY <1>2 DEF stream, channels
  <2>2. StreamTypeOK(Frames)' /\ (MineInFlight' <=> MineInFlight) /\ reader' = reader
    BY <2>1, StayFacts DEF FinInv, TypeOK, StreamTypeOK
  <2>3. QED
    BY <1>2, <2>1, <2>2 DEF FinInv, TypeOK, Polls, network
<1>3. CASE Poll
  <2>1. CASE ctxDone
    BY <1>1, <1>3, <2>1 DEF Poll, Polls
  <2>2. CASE ~ctxDone
    BY <1>2, <1>3, <2>2 DEF Poll, Polls
  <2>3. QED
    BY <2>1, <2>2
<1>4. CASE PollAnswered
  <2>1. CASE Finalized /\ Return(verdict)
    <3>1. verdict \in Verdicts
      BY <2>1 DEF Finalized, FinInv, TypeOK
    <3>2. QED
      BY <1>1, <1>4, <2>1, <3>1 DEF PollAnswered, Polls
  <2>2. CASE Return(Failed)
    BY <1>1, <1>4, <2>2 DEF PollAnswered, Polls
  <2>3. CASE ~Finalized /\ pc' = "sleep" /\ UNCHANGED <<ret, cancelled>>
    <3>1. exit # "gate"
      BY <2>3 DEF Finalized, FinInv
    <3>2. UNCHANGED <<streaming, exit, ret, ctxDone, network, stream>>
      BY <1>4, <2>3 DEF PollAnswered, stream, channels
    <3>3. QED
      BY <1>2, <1>4, <2>3, <3>1, <3>2 DEF PollAnswered, Polls
  <2>4. QED
    BY <1>4, <2>1, <2>2, <2>3 DEF PollAnswered
<1>5. CASE PollAgain
  BY <1>2, <1>5 DEF PollAgain, Polls
<1>6. CASE SleepCtx
  BY <1>1, <1>6 DEF SleepCtx, Polls
<1>7. QED
  BY <1>3, <1>4, <1>5, <1>6 DEF Polling

LEMMA ReaderPreserves == FinInv /\ Reader => FinInv'
<1>. SUFFICES ASSUME FinInv, Reader PROVE FinInv'
  OBVIOUS
<1>1. /\ StreamTypeOK(Frames)' /\ (MineInFlight' => MineInFlight)
      /\ reader # "none" /\ UNCHANGED cancelled
  BY ReaderStepFacts DEF Reader, FinInv, TypeOK
<1>2. UNCHANGED <<caller, ctxDone, network>>
  BY DEF Reader
<1>3. QED
  BY <1>1, <1>2 DEF FinInv, TypeOK, Polls, caller, network

LEMMA EnvironmentPreserves == FinInv /\ Environment => FinInv'
<1>. SUFFICES ASSUME FinInv, Environment PROVE FinInv'
  OBVIOUS
<1>1. CASE CtxDone
  <2>1. cancelled' \in BOOLEAN /\ (cancelled => cancelled')
    BY <1>1 DEF CtxDone, FinInv, TypeOK, StreamTypeOK
  <2>2. StreamTypeOK(Frames)' /\ (MineInFlight' <=> MineInFlight) /\ reader' = reader
    BY <1>1, <2>1, StayFacts DEF CtxDone, FinInv, TypeOK
  <2>3. QED
    BY <1>1, <2>1, <2>2 DEF CtxDone, FinInv, TypeOK, Polls, caller, network
<1>2. CASE Decide
  <2>1. UNCHANGED <<wire, wireEnd, reader, channels, cancelled>>
    BY <1>2 DEF Decide, stream, channels
  <2>2. StreamTypeOK(Frames)' /\ (MineInFlight' <=> MineInFlight) /\ reader' = reader
    BY <2>1, StayFacts DEF FinInv, TypeOK, StreamTypeOK
  <2>3. /\ accepted > 0 /\ verdict' \in Verdicts
        /\ UNCHANGED <<caller, ctxDone, underway, accepted, announced, lagged, noise, cancelled>>
    BY <1>2, <2>1 DEF Decide
  <2>4. accepted = 1
    BY <2>3 DEF FinInv, TypeOK
  <2>5. QED
    BY <2>2, <2>3, <2>4, VerdictAssumption DEF FinInv, TypeOK, Polls, caller
<1>3. CASE Announce
  <2>1. /\ verdict # NoVerdict /\ announced' = TRUE /\ lagged' \in BOOLEAN
        /\ UNCHANGED <<caller, ctxDone, underway, accepted, verdict, noise>>
    BY <1>3 DEF Announce, FinInv, TypeOK
  <2>2. StreamTypeOK(Frames)' /\ UNCHANGED <<reader, cancelled>>
    <3>1. CASE ServerWrites("mine")
      BY <3>1, WriteFacts DEF FinInv, TypeOK, Frames
    <3>2. CASE UNCHANGED stream
      <4>1. UNCHANGED <<wire, wireEnd, reader, channels, cancelled>>
        BY <3>2 DEF stream, channels
      <4>2. QED
        BY <4>1, StayFacts DEF FinInv, TypeOK, StreamTypeOK
    <3>3. QED
      BY <1>3, <3>1, <3>2 DEF Announce
  <2>3. QED
    BY <2>1, <2>2 DEF FinInv, TypeOK, Polls, caller
<1>4. CASE Noise
  <2>1. PICK f \in {"other", "noise"} : ServerWrites(f)
    BY <1>4 DEF Noise
  <2>2. /\ StreamTypeOK(Frames)' /\ UNCHANGED <<reader, cancelled>>
        /\ MineInFlight' => MineInFlight
    BY <2>1, WriteFacts DEF FinInv, TypeOK, Frames
  <2>3. noise' \in 0..MaxNoise
    BY <1>4, NoiseAssumption DEF Noise, FinInv, TypeOK
  <2>4. UNCHANGED <<caller, ctxDone, underway, accepted, verdict, announced, lagged>>
    BY <1>4 DEF Noise
  <2>5. QED
    BY <2>2, <2>3, <2>4 DEF FinInv, TypeOK, Polls, caller
<1>5. CASE StreamEnds
  <2>1. /\ StreamTypeOK(Frames)' /\ UNCHANGED <<reader, cancelled>>
        /\ MineInFlight' => MineInFlight
    BY <1>5, EndFacts DEF StreamEnds, FinInv, TypeOK
  <2>2. UNCHANGED <<caller, ctxDone, network>>
    BY <1>5 DEF StreamEnds
  <2>3. QED
    BY <2>1, <2>2 DEF FinInv, TypeOK, Polls, caller, network
<1>6. CASE SubmitArrivesLate
  <2>1. UNCHANGED <<wire, wireEnd, reader, channels, cancelled>>
    BY <1>6 DEF SubmitArrivesLate, stream, channels
  <2>2. StreamTypeOK(Frames)' /\ (MineInFlight' <=> MineInFlight) /\ reader' = reader
    BY <2>1, StayFacts DEF FinInv, TypeOK, StreamTypeOK
  <2>3. /\ ret = Failed /\ accepted = 0 /\ accepted' = 1
        /\ UNCHANGED <<caller, ctxDone, verdict, announced, lagged, noise, cancelled>>
    BY <1>6, <2>1 DEF SubmitArrivesLate, FinInv
  <2>4. pc = "done" /\ verdict = NoVerdict /\ ~announced
    BY <2>3, VerdictAssumption DEF FinInv, TypeOK
  <2>5. underway' \in BOOLEAN /\ ~underway'
    BY <1>6, Zenon DEF SubmitArrivesLate
  <2>6. TypeOK'
    <3>1. UNCHANGED <<streaming, pc, exit, ret, ctxDone, verdict, announced, lagged, noise>>
      BY <2>3 DEF caller
    <3>2. QED
      BY <2>2, <2>3, <2>5, <3>1 DEF FinInv, TypeOK
  <2>7. QED
    BY <2>2, <2>3, <2>4, <2>5, <2>6 DEF FinInv, Polls, caller
<1>7. QED
  BY <1>1, <1>2, <1>3, <1>4, <1>5, <1>6 DEF Environment

\* Whatever the caller, the reader, the network and the context do, in whatever order, the
\* invariant of submitAndWait holds.
THEOREM Invariance == Spec => []FinInv
<1>1. FinInv /\ UNCHANGED vars => FinInv'
  <2>. SUFFICES ASSUME FinInv, UNCHANGED vars PROVE FinInv'
    OBVIOUS
  <2>1. UNCHANGED <<caller, ctxDone, network, wire, wireEnd, reader, channels, cancelled>>
    BY DEF vars, stream, channels
  <2>2. StreamTypeOK(Frames)' /\ (MineInFlight' <=> MineInFlight) /\ reader' = reader
    BY <2>1, StayFacts DEF FinInv, TypeOK, StreamTypeOK
  <2>3. QED
    BY <2>1, <2>2 DEF FinInv, TypeOK, Polls, caller, network
<1>2. FinInv /\ [Next]_vars => FinInv'
  BY <1>1, SubscribePreserves, SubmittingPreserves, AwaitingPreserves, PollingPreserves,
     ReaderPreserves, EnvironmentPreserves DEF Next, Caller
<1>3. QED
  BY <1>2, InitEstablishes, PTL DEF Spec

-----------------------------------------------------------------------------
(* What follows from it.                                                    *)

\* Every variable of the wait and of its stream keeps its type.
THEOREM TypeCorrect == Spec => []TypeOK
<1>1. FinInv => TypeOK
  BY DEF FinInv
<1>2. QED
  BY <1>1, Invariance, PTL

\* The gate opens on nothing but this transaction's frame, and the poll behind it never has to
\* wait (finalization.go 5-7).
THEOREM GateSafe == Spec => []GateIsSafe
<1>1. FinInv => GateIsSafe
  BY DEF FinInv, GateIsSafe
<1>2. QED
  BY <1>1, Invariance, PTL

\* No poll races a live stream (finalization.go 90-93).
THEOREM NeverRaced == Spec => []PollNotRaced
<1>1. FinInv => PollNotRaced
  <2>. SUFFICES ASSUME FinInv, pc \in {"poll", "asked", "sleep", "done"}, Running
                PROVE  cancelled
    BY DEF PollNotRaced
  <2>1. reader # "none"
    BY DEF Running
  <2>2. QED
    BY <2>1 DEF FinInv, TypeOK, Polls
<1>2. QED
  BY <1>1, Invariance, PTL

\* Nothing between the subscription and the wait loses the frame of a healthy subscription.
THEOREM NeverLost == Spec => []FrameNotLost
<1>. DEFINE Inv == FrameNotLost /\ (reader = "reading" => held = NoFrame)
<1>1. Init => Inv
  BY DEF Init, StreamInit, FrameNotLost
<1>2. FinInv /\ Inv /\ [Next]_vars => Inv'
  <2>. SUFFICES ASSUME FinInv, Inv, [Next]_vars PROVE Inv'
    OBVIOUS
  <2>1. CASE SubscribeAnswered \/ SubscribeCtx
    BY <2>1 DEF SubscribeAnswered, SubscribeCtx, Opened, OpenFailed, FrameNotLost
  <2>2. CASE SubmitArrives
    <3>1. ~announced
      BY <2>2 DEF SubmitArrives, FinInv
    <3>2. QED
      BY <2>2, <3>1 DEF SubmitArrives, FrameNotLost, stream
  <2>3. CASE SubmitAnswered \/ SubmitFails \/ Polling
    <3>1. CASE SubmitAnswered
      BY <3>1 DEF SubmitAnswered, FrameNotLost, Connected, network, stream, channels
    <3>2. CASE SubmitFails
      BY <3>2 DEF SubmitFails, Return, FrameNotLost, channels
    <3>3. CASE Polling
      BY <3>3 DEF Polling, Poll, PollAnswered, PollAgain, SleepCtx, Return, FrameNotLost, Connected,
                  network, stream, channels
    <3>4. QED
      BY <2>3, <3>1, <3>2, <3>3
  <2>4. CASE AwaitFrame
    <3>1. /\ pc = "await" /\ reader = "sending" /\ reader' = "reading" /\ held' = NoFrame
          /\ UNCHANGED <<wire, wireEnd>>
      BY <2>4 DEF AwaitFrame, TakeFrame
    <3>2. CASE OpensGate(held)
      BY <2>4, <3>1, <3>2 DEF AwaitFrame, Leave, FrameNotLost
    <3>3. CASE ~OpensGate(held)
      BY <2>4, <3>1, <3>3 DEF AwaitFrame, OpensGate, FrameNotLost, Connected, caller, network
    <3>4. QED
      BY <3>2, <3>3
  <2>5. CASE AwaitClosed \/ AwaitError \/ AwaitTimeout \/ AwaitCtx
    BY <2>5 DEF AwaitClosed, AwaitError, AwaitTimeout, AwaitCtx, Leave, TakeErr, FrameNotLost, channels
  <2>6. CASE Reader
    <3>. UNCHANGED <<caller, network>>
      BY <2>6 DEF Reader
    <3>1. CASE ReadFrame
      <4>1. /\ wire \in Seq(Frames) /\ wire # <<>> /\ reader = "reading" /\ held = NoFrame
            /\ held' = Head(wire) /\ wire' = Tail(wire) /\ reader' = "sending"
            /\ UNCHANGED <<wireEnd, cancelled>>
        BY <3>1 DEF ReadFrame, FinInv, TypeOK, StreamTypeOK
      <4>2. ASSUME MineInFlight PROVE MineInFlight'
        <5>1. PICK i \in 1..Len(wire) : wire[i] = "mine"
          BY <4>1, <4>2, FrameAssumption DEF MineInFlight
        <5>2. CASE i = 1
          BY <4>1, <5>1, <5>2 DEF MineInFlight
        <5>3. CASE i # 1
          <6>1. i - 1 \in 1..Len(wire') /\ wire'[i - 1] = wire[i]
            BY <4>1, <5>3
          <6>2. QED
            BY <5>1, <6>1 DEF MineInFlight
        <5>4. QED
          BY <5>2, <5>3
      <4>3. Connected' => Connected
        BY <4>1 DEF Connected
      <4>4. FrameNotLost'
        BY <4>1, <4>2, <4>3 DEF FrameNotLost, MineInFlight, caller, network
      <4>5. QED
        BY <4>1, <4>4
    <3>2. CASE SendCancelled \/ ReadEnds \/ CloseErrs \/ CloseOut
      BY <3>2 DEF SendCancelled, ReadEnds, CloseErrs, CloseOut, FrameNotLost, Connected
    <3>3. QED
      BY <2>6, <3>1, <3>2 DEF Reader, ReaderStep
  <2>7. CASE CtxDone
    <3>1. streaming \/ reader = "none"
      BY DEF FinInv
    <3>2. QED
      BY <2>7, <3>1 DEF CtxDone, FrameNotLost, Connected, channels
  <2>8. CASE Decide
    <3>1. ~announced
      BY <2>8 DEF Decide, FinInv
    <3>2. QED
      BY <2>8, <3>1 DEF Decide, FrameNotLost, stream
  <2>9. CASE Announce
    <3>1. CASE ServerWrites("mine")
      <4>1. /\ wire \in Seq(Frames) /\ wire' = Append(wire, "mine") /\ UNCHANGED <<reader, held>>
        BY <3>1 DEF ServerWrites, channels, FinInv, TypeOK, StreamTypeOK
      <4>2. Len(wire') \in 1..Len(wire') /\ wire'[Len(wire')] = "mine"
        BY <4>1
      <4>3. QED
        BY <4>1, <4>2 DEF FrameNotLost
    <3>2. CASE Connected /\ lagged' = TRUE /\ UNCHANGED stream
      BY <3>2 DEF FrameNotLost, stream
    <3>3. CASE ~Connected /\ UNCHANGED <<lagged, stream>>
      BY <3>3 DEF FrameNotLost, Connected, stream
    <3>4. QED
      BY <2>9, <3>1, <3>2, <3>3 DEF Announce
  <2>10. CASE Noise
    <3>1. PICK f \in {"other", "noise"} : ServerWrites(f)
      BY <2>10 DEF Noise
    <3>2. /\ wire \in Seq(Frames) /\ wire' = Append(wire, f)
          /\ UNCHANGED <<wireEnd, reader, held, cancelled>>
      BY <3>1 DEF ServerWrites, channels, FinInv, TypeOK, StreamTypeOK
    <3>3. \A i \in 1..Len(wire) : wire'[i] = wire[i] /\ i \in 1..Len(wire')
      BY <3>2
    <3>4. MineInFlight => MineInFlight'
      BY <3>2, <3>3 DEF MineInFlight
    <3>5. Connected' = Connected /\ UNCHANGED <<caller, announced, lagged>>
      BY <2>10, <3>2 DEF Noise, Connected
    <3>6. FrameNotLost'
      BY <3>2, <3>4, <3>5 DEF FrameNotLost, MineInFlight, caller
    <3>7. QED
      BY <3>2, <3>6
  <2>11. CASE StreamEnds
    BY <2>11 DEF StreamEnds, ServerEnds, FrameNotLost, Connected, channels
  <2>12. CASE SubmitArrivesLate
    BY <2>12 DEF SubmitArrivesLate, FrameNotLost, Connected, caller, stream, channels
  <2>13. CASE UNCHANGED vars
    BY <2>13 DEF FrameNotLost, Connected, vars, caller, network, stream
  <2>14. QED
    BY <2>1, <2>2, <2>3, <2>4, <2>5, <2>6, <2>7, <2>8, <2>9, <2>10, <2>11, <2>12, <2>13
       DEF Next, Caller, Submitting, Awaiting, Environment
<1>3. QED
  BY <1>1, <1>2, Invariance, PTL DEF Spec

\* submitAndWait implements Finality: the transaction is handed over at most once, and the call
\* returns, once, the verdict the network reached or an error.
THEOREM ImplementsFinality == Spec => KeepsPromise
<1>. USE DEF Promise!vars
<1>1. Init => Promise!Init
  BY DEF Init, Promise!Init
<1>2. FinInv /\ [Next]_vars => [Promise!Next]_(Promise!vars)
  <2>. SUFFICES ASSUME FinInv, [Next]_vars PROVE Promise!Next \/ UNCHANGED Promise!vars
    OBVIOUS
  <2>. USE DEF FinInv
  <2>1. CASE SubscribeAnswered \/ SubscribeCtx
    BY <2>1 DEF SubscribeAnswered, SubscribeCtx, network
  <2>2. CASE SubmitArrives
    BY <2>2 DEF SubmitArrives, Promise!Next, Promise!Accept
  <2>3. CASE SubmitAnswered
    BY <2>3 DEF SubmitAnswered, network
  <2>4. CASE SubmitFails
    BY <2>4 DEF SubmitFails, Return, network, Promise!Next, Promise!ReturnError
  <2>5. CASE AwaitFrame
    BY <2>5 DEF AwaitFrame, Leave, network, caller
  <2>6. CASE AwaitClosed \/ AwaitError \/ AwaitTimeout \/ AwaitCtx
    BY <2>6 DEF AwaitClosed, AwaitError, AwaitTimeout, AwaitCtx, Leave, network
  <2>7. CASE Poll
    BY <2>7 DEF Poll, Return, network, Promise!Next, Promise!ReturnError
  <2>8. CASE PollAnswered
    <3>1. CASE Finalized /\ Return(verdict)
      <4>1. verdict \in Verdicts /\ ret' = verdict /\ ret = NoVerdict
        BY <2>8, <3>1 DEF PollAnswered, Finalized, Return, TypeOK
      <4>2. QED
        BY <2>8, <4>1 DEF PollAnswered, network, Promise!Next, Promise!ReturnVerdict
    <3>2. CASE Return(Failed)
      BY <2>8, <3>2 DEF PollAnswered, Return, network, Promise!Next, Promise!ReturnError
    <3>3. CASE UNCHANGED <<ret, cancelled>>
      BY <2>8, <3>3 DEF PollAnswered, network
    <3>4. QED
      BY <2>8, <3>1, <3>2, <3>3 DEF PollAnswered
  <2>9. CASE PollAgain
    BY <2>9 DEF PollAgain, network
  <2>10. CASE SleepCtx
    BY <2>10 DEF SleepCtx, Return, network, Promise!Next, Promise!ReturnError
  <2>11. CASE Reader \/ CtxDone \/ Announce \/ Noise \/ StreamEnds
    BY <2>11 DEF Reader, CtxDone, Announce, Noise, StreamEnds, network, caller
  <2>12. CASE Decide
    <3>1. accepted = 1 /\ verdict = NoVerdict
      BY <2>12 DEF Decide, TypeOK
    <3>2. QED
      BY <2>12, <3>1 DEF Decide, caller, Promise!Next, Promise!Decide
  <2>13. CASE SubmitArrivesLate
    BY <2>13 DEF SubmitArrivesLate, caller, Promise!Next, Promise!Accept
  <2>14. CASE UNCHANGED vars
    BY <2>14 DEF vars, network, caller
  <2>15. QED
    BY <2>1, <2>2, <2>3, <2>4, <2>5, <2>6, <2>7, <2>8, <2>9, <2>10, <2>11, <2>12, <2>13, <2>14
       DEF Next, Caller, Submitting, Awaiting, Polling, Environment
<1>3. QED
  BY <1>1, <1>2, Invariance, PTL DEF Spec, KeepsPromise, Promise!Spec

=============================================================================

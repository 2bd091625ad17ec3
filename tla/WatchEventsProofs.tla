--------------------------- MODULE WatchEventsProofs ---------------------------
(***************************************************************************)
(* The event watch, for any log, any set of undecodable events, any number *)
(* of lost connections and any backoff: its last error, its silence about  *)
(* a cancellation, and, when every frame carries its id, the feed that     *)
(* EventFeed promises.                                                     *)
(***************************************************************************)
EXTENDS WatchEvents, SequenceTheorems, TLAPS

-----------------------------------------------------------------------------
(* The stream, whoever consumes it.                                         *)

Still == reader \in {"none", "exited"}

StreamInv ==
    /\ StreamTypeOK(Frames)
    /\ outClosed => Still
    /\ reader = "sending" => held \in Frames
    /\ serrs.val = "cancelled" => cancelled

LEMMA ReaderKeeps ==
    ASSUME StreamInv, ReaderStep
    PROVE  StreamInv' /\ ~Still /\ UNCHANGED cancelled
<1>. USE ErrAssumption DEF StreamInv, StreamTypeOK, ReaderStates, StreamErrors, Still
<1>1. CASE ReadFrame
  <2>1. /\ wire \in Seq(Frames) /\ wire # <<>>
        /\ held' = Head(wire) /\ wire' = Tail(wire)
    BY <1>1 DEF ReadFrame
  <2>2. Head(wire) \in Frames /\ Tail(wire) \in Seq(Frames)
    BY <2>1
  <2>3. QED
    BY <1>1, <2>1, <2>2 DEF ReadFrame
<1>2. CASE SendCancelled
  BY <1>2 DEF SendCancelled
<1>3. CASE ReadEnds
  BY <1>3 DEF ReadEnds
<1>4. CASE CloseErrs
  BY <1>4 DEF CloseErrs
<1>5. CASE CloseOut
  BY <1>5 DEF CloseOut
<1>6. QED
  BY <1>1, <1>2, <1>3, <1>4, <1>5 DEF ReaderStep

LEMMA OpenKeeps ==
    ASSUME StreamInv, UNCHANGED cancelled,
           \/ Opened(<<>>)
           \/ OpenFailed("gone") \/ OpenFailed("http") \/ (cancelled /\ OpenFailed("cancelled"))
    PROVE  StreamInv'
<1>. USE ErrAssumption DEF StreamInv, StreamTypeOK, ReaderStates, StreamErrors, Still
<1>1. <<>> \in Seq(Frames)
  OBVIOUS
<1>2. CASE Opened(<<>>)
  BY <1>1, <1>2 DEF Opened
<1>3. ASSUME NEW err \in StreamErrors, OpenFailed(err), err = "cancelled" => cancelled
      PROVE  StreamInv'
  <2>1. serrs' \in [val : StreamErrors \cup {NoErr}, closed : BOOLEAN] /\ serrs'.val = err
    BY <1>3 DEF OpenFailed
  <2>2. QED
    BY <1>1, <1>3, <2>1 DEF OpenFailed
<1>4. QED
  BY <1>2, <1>3

LEMMA TakeKeeps ==
    ASSUME StreamInv, UNCHANGED cancelled, TakeFrame \/ TakeErr
    PROVE  StreamInv'
BY ErrAssumption
   DEF StreamInv, StreamTypeOK, ReaderStates, StreamErrors, Still, TakeFrame, TakeErr

LEMMA WriteKeeps ==
    ASSUME StreamInv, NEW f \in Frames, ServerWrites(f)
    PROVE  StreamInv' /\ UNCHANGED <<reader, cancelled>>
<1>1. wire' \in Seq(Frames) /\ UNCHANGED <<wireEnd, reader, channels, cancelled>>
  BY DEF ServerWrites, StreamInv, StreamTypeOK
<1>2. QED
  BY <1>1 DEF StreamInv, StreamTypeOK, Still, channels

\* What a connection that ends leaves on the wire.
LEMMA CutWire ==
    ASSUME wire \in Seq(Frames), ServerEnds({CutFrame})
    PROVE  /\ wire' \in Seq(Frames)
           /\ \E n \in 0..Len(wire) :
                 /\ \A i \in 1..n : wire'[i] = wire[i]
                 /\ \/ Len(wire') = n
                    \/ Len(wire') = n + 1 /\ wire'[n + 1] = CutFrame
<1>1. PICK n \in 0..Len(wire) : \/ wire' = SubSeq(wire, 1, n)
                               \/ wire' = Append(SubSeq(wire, 1, n), CutFrame)
  BY DEF ServerEnds
<1>. DEFINE kept == SubSeq(wire, 1, n)
<1>2. /\ kept \in Seq(Frames) /\ Len(kept) = n
      /\ \A i \in 1..n : kept[i] = wire[i]
      /\ n \in Nat
  OBVIOUS
<1>3. CASE wire' = kept
  BY <1>2, <1>3
<1>4. CASE wire' = Append(kept, CutFrame)
  <2>. HIDE DEF kept
  <2>1. CutFrame \in Frames
    BY DEF Frames
  <2>2. /\ wire' \in Seq(Frames) /\ Len(wire') = n + 1
        /\ \A i \in 1..n : wire'[i] = kept[i]
        /\ wire'[n + 1] = CutFrame
    BY <1>2, <1>4, <2>1
  <2>3. QED
    BY <1>2, <2>2
<1>5. QED
  BY <1>1, <1>3, <1>4

LEMMA EndKeeps ==
    ASSUME StreamInv, ServerEnds({CutFrame})
    PROVE  StreamInv' /\ UNCHANGED <<reader, cancelled>>
<1>1. /\ wire \in Seq(Frames) /\ wireEnd' \in {"eof", "broken"}
      /\ UNCHANGED <<reader, channels, cancelled>>
  BY DEF ServerEnds, StreamInv, StreamTypeOK
<1>2. wire' \in Seq(Frames)
  BY <1>1, CutWire
<1>3. QED
  BY <1>1, <1>2 DEF StreamInv, StreamTypeOK, Still, channels

-----------------------------------------------------------------------------
(* The loop: what is known at each of its statements.                       *)

WatchInv ==
    /\ TypeOK
    /\ StreamInv
    /\ pc \notin {"range", "deliver", "done"} => Still
    /\ pc = "deliver" => item \in Events \ Undecodable
    /\ pc = "done" <=> end # "no"
    /\ pc \in {"gone", "displace"} => failure = "gone"
    /\ pc = "warn" => failure # "cancelled"
    /\ CancelIsSilent
    /\ GoneIsLast

LEMMA InitWatches == Init => WatchInv
<1>1. <<>> \in Seq(Frames) /\ <<>> \in Seq(Events)
  OBVIOUS
<1>2. Init => StreamInv
  <2>1. [val |-> NoErr, closed |-> FALSE] \in [val : StreamErrors \cup {NoErr}, closed : BOOLEAN]
    OBVIOUS
  <2>2. QED
    BY <1>1, <2>1, ErrAssumption
       DEF Init, StreamInit, StreamInv, StreamTypeOK, ReaderStates, StreamErrors, Still
<1>3. ASSUME Init PROVE TypeOK
  <2>1. logged \in 0..MaxEvent /\ afterID \in IDs
    BY <1>3, BoundsAssumption DEF Init, IDs
  <2>2. NoQuery \in [after : IDs, last : IDs]
    BY DEF NoQuery, IDs
  <2>3. 0 \in 0..MaxEvent /\ 0 \in 0..MaxFaults
    BY BoundsAssumption
  <2>4. reconnectBackoffMin \in reconnectBackoffMin..reconnectBackoffMax
    BY BackoffAssumption
  <2>5. QED
    BY <1>1, <1>2, <1>3, <2>1, <2>2, <2>3, <2>4 DEF Init, StreamInv, TypeOK
<1>4. QED
  BY <1>2, <1>3, ErrAssumption
     DEF Init, StreamInit, WatchInv, Still, StreamErrors, CancelIsSilent, GoneIsLast

LEMMA StepWatches ==
    ASSUME WatchInv, Next
    PROVE  WatchInv'
<1>. USE BoundsAssumption, EventsAssumption, BackoffAssumption, ErrAssumption
     DEF WatchInv, TypeOK, StreamErrors, CancelIsSilent, GoneIsLast
<1>1. CASE OpenAnswered
  <2>1. UNCHANGED cancelled /\ (Opened(<<>>) \/ OpenFailed("gone") \/ OpenFailed("http"))
    BY <1>1 DEF OpenAnswered
  <2>2. StreamInv'
    BY <2>1, OpenKeeps
  <2>3. sent' \in 0..MaxEvent /\ faults' \in 0..MaxFaults
    <3>1. ServedFrom \in 0..MaxEvent /\ pruned \in 0..MaxEvent
      BY DEF ServedFrom, IDs
    <3>2. ASSUME NEW start \in Earliest..ServedFrom, start >= pruned
          PROVE  start \in 0..MaxEvent
      BY <3>1, <3>2
    <3>3. QED
      BY <1>1, <3>2 DEF OpenAnswered
  <2>4. QED
    BY <1>1, <2>2, <2>3 DEF OpenAnswered, StreamInv, cursor, local, caller
<1>2. CASE Connect
  <2>1. query' \in [after : IDs, last : IDs]
    <3>1. NoID \in IDs
      BY DEF IDs
    <3>2. QED
      BY <1>2, <3>1 DEF Connect
  <2>2. UNCHANGED stream /\ (StreamInv' <=> StreamInv)
    BY <1>2 DEF Connect, StreamInv, StreamTypeOK, Still, stream
  <2>3. QED
    BY <1>2, <2>1, <2>2 DEF Connect, Finish, StreamInv, Still, caller, indexer, stream
<1>3. CASE OpenCtx
  <2>1. StreamInv'
    BY <1>3, OpenKeeps DEF OpenCtx
  <2>2. QED
    BY <1>3, <2>1 DEF OpenCtx, StreamInv, cursor, local, caller, indexer
<1>4. CASE RangeFrame
  <2>1. StreamInv' /\ held \in Frames
    BY <1>4, TakeKeeps DEF RangeFrame, StreamInv, TakeFrame
  <2>2. Decodes(held) => held.event \in Events \ Undecodable /\ held.id \in IDs
    BY <2>1 DEF Decodes, Frames, CutFrame
  <2>3. CASE Decodes(held)
    <3>1. /\ lastID' \in IDs /\ item' \in Events \ Undecodable /\ delivered' = TRUE
          /\ pc' = "deliver"
      BY <1>4, <2>2, <2>3 DEF RangeFrame, Advance
    <3>2. QED
      BY <1>4, <2>1, <3>1 DEF RangeFrame, StreamInv, Events, caller, indexer
  <2>4. CASE ~Decodes(held)
    BY <1>4, <2>1, <2>4 DEF RangeFrame, StreamInv, caller, indexer
  <2>5. QED
    BY <2>3, <2>4
<1>5. CASE Deliver
  <2>1. got' \in Seq(Events)
    BY <1>5 DEF Deliver
  <2>2. QED
    BY <1>5, <2>1 DEF Deliver, StreamInv, StreamTypeOK, Still, cursor, local, indexer, stream
<1>6. CASE DeliverCtx
  BY <1>6 DEF DeliverCtx, Finish, StreamInv, StreamTypeOK, Still, cursor, local, caller, indexer,
              stream
<1>7. CASE RangeEnds
  BY <1>7 DEF RangeEnds, StreamInv, StreamTypeOK, Still, cursor, local, caller, indexer, stream
<1>8. CASE ReadErr
  <2>1. StreamInv' /\ UNCHANGED reader
    BY <1>8, TakeKeeps DEF ReadErr, TakeErr
  <2>2. failure' = serrs.val /\ serrs.val \in StreamErrors \cup {NoErr}
    BY <1>8 DEF ReadErr, StreamInv, StreamTypeOK
  <2>3. ~cancelled => serrs.val # "cancelled"
    BY DEF StreamInv
  <2>4. QED
    BY <1>8, <2>1, <2>2, <2>3
       DEF ReadErr, CleanCancel, isCursorPruned, Finish, StreamInv, Still, cursor, caller, indexer
<1>9. CASE PushGone
  BY <1>9 DEF PushGone, Finish, StreamInv, StreamTypeOK, Still, cursor, local, indexer, stream
<1>10. CASE Displace
  BY <1>10 DEF Displace, StreamInv, StreamTypeOK, Still, cursor, local, indexer, stream
<1>11. CASE Warn
  BY <1>11 DEF Warn, StreamInv, StreamTypeOK, Still, cursor, indexer, stream
<1>12. CASE BackoffTimer
  BY <1>12 DEF BackoffTimer, Grow, StreamInv, StreamTypeOK, Still, cursor, caller, indexer, stream
<1>13. CASE BackoffCtx
  BY <1>13 DEF BackoffCtx, Finish, StreamInv, StreamTypeOK, Still, cursor, local, caller, indexer,
               stream
<1>14. CASE Reader
  <2>1. StreamInv' /\ ~Still
    BY <1>14, ReaderKeeps DEF Reader
  <2>2. QED
    BY <1>14, <2>1 DEF Reader, StreamInv, cursor, local, caller, indexer
<1>15. CASE Cancel
  BY <1>15 DEF Cancel, StreamInv, StreamTypeOK, Still, cursor, local, caller, indexer, channels
<1>16. CASE ReadWarning
  <2>1. /\ seen' = warning /\ warning' = NoErr /\ warning # NoErr
        /\ UNCHANGED <<pc, end, got, cursor, local, indexer>>
    BY <1>16 DEF ReadWarning
  <2>2. StreamInv' /\ (Still' <=> Still)
    BY <1>16 DEF ReadWarning, StreamInv, StreamTypeOK, Still, stream
  <2>3. QED
    BY <2>1, <2>2 DEF StreamInv, cursor, local, indexer
<1>17. CASE Happens \/ Prune
  <2>1. logged' \in 0..MaxEvent /\ pruned' \in 0..MaxEvent
    BY <1>17 DEF Happens, Prune
  <2>2. UNCHANGED <<pc, cursor, local, caller, end, sent, faults, stream>>
    BY <1>17 DEF Happens, Prune
  <2>3. QED
    BY <2>1, <2>2 DEF StreamInv, StreamTypeOK, Still, cursor, local, caller, stream
<1>18. CASE Serve
  <2>1. PICK id \in IDsServed(sent + 1) : ServerWrites([event |-> sent + 1, id |-> id])
    BY <1>18 DEF Serve
  <2>2. [event |-> sent + 1, id |-> id] \in Frames /\ sent' \in 0..MaxEvent
    BY <1>18 DEF Serve, IDsServed, Frames, Events, IDs
  <2>3. StreamInv' /\ UNCHANGED <<reader, cancelled>>
    BY <2>1, <2>2, WriteKeeps
  <2>4. QED
    BY <1>18, <2>2, <2>3 DEF Serve, StreamInv, Still, cursor, local, caller
<1>19. CASE Drop
  <2>1. StreamInv' /\ UNCHANGED <<reader, cancelled>>
    BY <1>19, EndKeeps DEF Drop
  <2>2. QED
    BY <1>19, <2>1 DEF Drop, StreamInv, Still, cursor, local, caller
<1>20. QED
  BY <1>1, <1>2, <1>3, <1>4, <1>5, <1>6, <1>7, <1>8, <1>9, <1>10, <1>11, <1>12, <1>13, <1>14,
     <1>15, <1>16, <1>17, <1>18, <1>19
     DEF Next, Loop, Ending, Indexer

LEMMA StutterWatches == WatchInv /\ UNCHANGED vars => WatchInv'
BY DEF WatchInv, TypeOK, StreamInv, StreamTypeOK, Still, CancelIsSilent, GoneIsLast, vars, cursor,
       local, caller, indexer, stream

\* Every reachable state satisfies the invariant of the loop.
THEOREM Watches == Spec => []WatchInv
BY InitWatches, StepWatches, StutterWatches, PTL DEF Spec

\* Types.
THEOREM TypeCorrect == Spec => []TypeOK
BY Watches, PTL DEF WatchInv

\* The 410 that ends a watch is its last error, whatever the caller reads of the others and when.
THEOREM GoneLast == Spec => []GoneIsLast
BY Watches, PTL DEF WatchInv

\* The caller never learns of the failure that its own cancellation causes.
THEOREM CancelSilent == Spec => []CancelIsSilent
BY Watches, PTL DEF WatchInv

-----------------------------------------------------------------------------
(* The feed, when every frame carries its id.                               *)

\* The frame of an event that carries its id.
At(e) == [event |-> e, id |-> e]

Active == reader \in {"reading", "sending"}
AtHand == IF reader = "sending" THEN 1 ELSE 0

\* Where the feed begins: nothing at or before it is ever sent to a watch that has a cursor.
Origin ==
    IF afterID # NoID THEN afterID ELSE IF got # <<>> THEN got[1] - 1 ELSE lastID - 1

\* Nothing decodable lies between the cursor and a position ahead of it; a position behind it is one a
\* replay began at, and it is passed when the connection has delivered.
Skipped(pos) ==
    lastID # NoID =>
        /\ \A d \in Events \ Undecodable : ~(lastID < d /\ d <= pos)
        /\ Origin <= pos
        /\ delivered => lastID <= pos

\* The frame in hand and those on the wire are of the events after pos, one after the other, up to
\* the last one served, or up to where a stream that has ended was cut.
Ahead(pos) ==
    /\ reader = "sending" =>
          held = At(pos + 1) \/ (held = CutFrame /\ wire = <<>> /\ wireEnd # "open")
    /\ \A i \in 1..Len(wire) :
          \/ wire[i] = At(pos + AtHand + i)
          \/ wire[i] = CutFrame /\ i = Len(wire) /\ wireEnd # "open"
    /\ wireEnd = "open" => sent = pos + AtHand + Len(wire)

Gapless == Active => \E pos \in Nat : Skipped(pos) /\ Ahead(pos)

\* The last event the caller knows of.
LastKnown == IF got # <<>> THEN got[Len(got)] ELSE afterID

\* Every event from the beginning of the feed up to the last one delivered has been delivered,
\* although that one may be a repetition and lie behind others.
Covered ==
    got # <<>> =>
        \A d \in Events \ Undecodable :
            Origin < d /\ d <= got[Len(got)] => \E i \in 1..Len(got) : got[i] = d

FeedInv ==
    /\ Gapless
    /\ Covered
    /\ pc \notin {"deliver", "done"} => lastID = LastKnown
    /\ pc = "deliver" =>
          /\ lastID = item
          /\ LastKnown # NoID =>
                Feed!NextAfter(LastKnown, item) \/ (Origin < item /\ item <= LastKnown)
    /\ pc = "opening" =>
          /\ query = [after |-> IF lastID # NoID THEN NoID ELSE afterID, last |-> lastID]
          /\ ~delivered

\* The cursor as a number.
LEMMA CursorFacts ==
    ASSUME TypeOK
    PROVE  /\ lastID # NoID => lastID \in Nat
           /\ sent \in Nat /\ logged \in Nat
           /\ LastKnown = NoID => got = <<>> /\ afterID = NoID
           /\ LastKnown # NoID => LastKnown \in Nat
           /\ lastID # NoID \/ LastKnown # NoID => Origin \in Int
<1>1. got # <<>> => got[Len(got)] \in Events /\ got[1] \in Events
  BY DEF TypeOK
<1>2. QED
  BY <1>1, BoundsAssumption, EventsAssumption DEF TypeOK, IDs, Events, LastKnown, Origin

\* Once there is something the caller knows of, the beginning of the feed does not move.
LEMMA CoveredStays ==
    ASSUME UNCHANGED <<got, afterID>>
    PROVE  /\ Covered => Covered'
           /\ LastKnown' = LastKnown
           /\ LastKnown # NoID => Origin' = Origin
BY DEF Covered, LastKnown, Origin

LEMMA ReaderGapless ==
    ASSUME WatchInv, Gapless, Reader
    PROVE  Gapless'
<1>1. UNCHANGED <<lastID, sent, delivered, Origin>>
  BY DEF Reader, cursor, indexer, local, caller, Origin
<1>2. CASE ReadFrame
  <2>1. /\ wire \in Seq(Frames) /\ wire # <<>> /\ reader = "reading"
        /\ held' = Head(wire) /\ wire' = Tail(wire) /\ reader' = "sending"
        /\ UNCHANGED wireEnd
    BY <1>2 DEF ReadFrame, WatchInv, StreamInv, StreamTypeOK
  <2>2. /\ Head(wire) = wire[1] /\ Len(wire) \in Nat /\ Len(wire) > 0
        /\ Len(wire') = Len(wire) - 1
        /\ \A i \in 1..Len(wire') : wire'[i] = wire[i + 1] /\ i + 1 \in 1..Len(wire)
        /\ Len(wire) = 1 => wire' = <<>>
    BY <2>1
  <2>3. PICK pos \in Nat : Skipped(pos) /\ Ahead(pos)
    BY <2>1 DEF Gapless, Active
  <2>4. /\ AtHand = 0 /\ AtHand' = 1
    BY <2>1 DEF AtHand
  <2>5. Skipped(pos)'
    BY <1>1, <2>3 DEF Skipped
  <2>6. Ahead(pos)'
    <3>1. held' = At(pos + 1) \/ (held' = CutFrame /\ wire' = <<>> /\ wireEnd' # "open")
      <4>1. 1 \in 1..Len(wire) /\ pos + 0 + 1 = pos + 1
        BY <2>2
      <4>2. \/ wire[1] = At(pos + 0 + 1)
            \/ wire[1] = CutFrame /\ 1 = Len(wire) /\ wireEnd # "open"
        BY <2>3, <2>4, <4>1 DEF Ahead
      <4>3. QED
        BY <2>1, <2>2, <4>1, <4>2
    <3>2. ASSUME NEW i \in 1..Len(wire')
          PROVE  \/ wire'[i] = At(pos + 1 + i)
                 \/ wire'[i] = CutFrame /\ i = Len(wire') /\ wireEnd' # "open"
      <4>1. wire'[i] = wire[i + 1] /\ i + 1 \in 1..Len(wire) /\ pos + 0 + (i + 1) = pos + 1 + i
        BY <2>2
      <4>2. \/ wire[i + 1] = At(pos + 0 + (i + 1))
            \/ wire[i + 1] = CutFrame /\ i + 1 = Len(wire) /\ wireEnd # "open"
        BY <2>3, <2>4, <4>1 DEF Ahead
      <4>3. i + 1 = Len(wire) => i = Len(wire')
        BY <2>2
      <4>4. At(pos + 0 + (i + 1)) = At(pos + 1 + i)
        BY <4>1
      <4>5. QED
        BY <2>1, <4>1, <4>2, <4>3, <4>4
    <3>3. wireEnd' = "open" => sent' = pos + 1 + Len(wire')
      BY <1>1, <2>1, <2>2, <2>3, <2>4 DEF Ahead
    <3>4. QED
      BY <2>4, <3>1, <3>2, <3>3 DEF Ahead
  <2>7. QED
    BY <2>5, <2>6 DEF Gapless
<1>3. CASE SendCancelled \/ ReadEnds \/ CloseErrs \/ CloseOut
  BY <1>3 DEF SendCancelled, ReadEnds, CloseErrs, CloseOut, Gapless, Active
<1>4. QED
  BY <1>2, <1>3 DEF Reader, ReaderStep

LEMMA ServeGapless ==
    ASSUME ~IdlessFrames, WatchInv, Gapless, Serve
    PROVE  Gapless'
<1>1. /\ ServerWrites(At(sent + 1)) /\ sent' = sent + 1
      /\ UNCHANGED <<lastID, delivered, Origin>>
  BY DEF Serve, IDsServed, At, cursor, local, caller, Origin
<1>2. /\ wire \in Seq(Frames) /\ Active /\ wireEnd = "open" /\ wire' = Append(wire, At(sent + 1))
      /\ UNCHANGED <<wireEnd, reader, held>>
  BY <1>1 DEF ServerWrites, Connected, Active, channels, WatchInv, StreamInv, StreamTypeOK
<1>3. PICK pos \in Nat : Skipped(pos) /\ Ahead(pos)
  BY <1>2 DEF Gapless
<1>4. /\ AtHand \in Nat /\ AtHand' = AtHand /\ Len(wire) \in Nat
      /\ sent = pos + AtHand + Len(wire)
  BY <1>2, <1>3 DEF AtHand, Ahead
<1>5. /\ Len(wire') = Len(wire) + 1 /\ wire'[Len(wire) + 1] = At(sent + 1)
      /\ \A i \in 1..Len(wire) : wire'[i] = wire[i]
  BY <1>2
<1>6. Skipped(pos)'
  BY <1>1, <1>3 DEF Skipped
<1>7. Ahead(pos)'
  <2>1. reader' = "sending" => held' = At(pos + 1)
    BY <1>2, <1>3 DEF Ahead
  <2>2. ASSUME NEW i \in 1..Len(wire')
        PROVE  wire'[i] = At(pos + AtHand + i)
    <3>1. CASE i \in 1..Len(wire)
      <4>1. wire[i] = At(pos + AtHand + i)
        BY <1>2, <1>3, <3>1 DEF Ahead
      <4>2. QED
        BY <1>5, <3>1, <4>1
    <3>2. CASE i = Len(wire) + 1
      <4>1. pos + AtHand + i = sent + 1
        BY <1>4, <3>2
      <4>2. QED
        BY <1>5, <3>2, <4>1
    <3>3. QED
      BY <1>4, <1>5, <3>1, <3>2
  <2>3. sent' = pos + AtHand + Len(wire')
    BY <1>1, <1>4, <1>5
  <2>4. QED
    BY <1>4, <2>1, <2>2, <2>3 DEF Ahead
<1>8. QED
  BY <1>6, <1>7 DEF Gapless

LEMMA DropGapless ==
    ASSUME WatchInv, Gapless, Drop
    PROVE  Gapless'
<1>1. ServerEnds({CutFrame}) /\ UNCHANGED <<lastID, sent, delivered, Origin>>
  BY DEF Drop, cursor, local, caller, Origin
<1>2. /\ wire \in Seq(Frames) /\ Active /\ wireEnd = "open" /\ wireEnd' # "open"
      /\ UNCHANGED <<reader, held>>
  BY <1>1 DEF ServerEnds, Connected, Active, channels, WatchInv, StreamInv, StreamTypeOK
<1>3. PICK pos \in Nat : Skipped(pos) /\ Ahead(pos)
  BY <1>2 DEF Gapless
<1>4. PICK n \in 0..Len(wire) :
         /\ \A i \in 1..n : wire'[i] = wire[i]
         /\ \/ Len(wire') = n
            \/ Len(wire') = n + 1 /\ wire'[n + 1] = CutFrame
  BY <1>1, <1>2, CutWire
<1>5. AtHand' = AtHand /\ Len(wire) \in Nat /\ n \in Nat
  BY <1>2 DEF AtHand
<1>6. Skipped(pos)'
  BY <1>1, <1>3 DEF Skipped
<1>7. Ahead(pos)'
  <2>1. reader' = "sending" => held' = At(pos + 1)
    BY <1>2, <1>3 DEF Ahead
  <2>2. ASSUME NEW i \in 1..Len(wire')
        PROVE  wire'[i] = At(pos + AtHand + i) \/ (wire'[i] = CutFrame /\ i = Len(wire'))
    <3>1. CASE i \in 1..n
      BY <1>2, <1>3, <1>4, <1>5, <3>1 DEF Ahead
    <3>2. CASE i \notin 1..n
      BY <1>4, <1>5, <3>2
    <3>3. QED
      BY <3>1, <3>2
  <2>3. QED
    BY <1>2, <1>5, <2>1, <2>2 DEF Ahead
<1>8. QED
  BY <1>6, <1>7 DEF Gapless

\* What the consumer takes is the next event, an event that does not decode, or what a cut left.
LEMMA RangeFeeds ==
    ASSUME WatchInv, FeedInv, RangeFrame
    PROVE  FeedInv'
<1>1. /\ reader = "sending" /\ reader' = "reading" /\ held \in Frames /\ pc = "range"
      /\ UNCHANGED <<wire, wireEnd, sent, got, afterID>> /\ lastID = LastKnown
  BY DEF RangeFrame, TakeFrame, WatchInv, StreamInv, FeedInv, caller, indexer
<1>2. PICK pos \in Nat : Skipped(pos) /\ Ahead(pos)
  BY <1>1 DEF FeedInv, Gapless, Active
<1>3. AtHand = 1 /\ AtHand' = 0 /\ Len(wire) \in Nat
  BY <1>1 DEF AtHand, WatchInv, StreamInv, StreamTypeOK
<1>4. /\ LastKnown' = LastKnown /\ Covered'
      /\ lastID # NoID => lastID \in Nat /\ Origin \in Int /\ Origin' = Origin
  BY <1>1, CursorFacts, CoveredStays DEF WatchInv, FeedInv
<1>5. CASE held = At(pos + 1)
  <2>1. held.event = pos + 1 /\ held.id = pos + 1 /\ pos + 1 \in Events
    <3>1. held.event = pos + 1 /\ held.id = pos + 1
      BY <1>5 DEF At
    <3>2. pos + 1 # 0
      OBVIOUS
    <3>3. QED
      BY <1>1, <3>1, <3>2 DEF Frames, CutFrame
  <2>2. Decodes(held) <=> pos + 1 \notin Undecodable
    BY <2>1 DEF Decodes, CutFrame
  <2>3. Ahead(pos + 1)'
    <3>1. ASSUME NEW i \in 1..Len(wire)
          PROVE  \/ wire[i] = At(pos + 1 + 0 + i)
                 \/ wire[i] = CutFrame /\ i = Len(wire) /\ wireEnd # "open"
      <4>1. pos + 1 + 0 + i = pos + 1 + i
        BY <1>3
      <4>2. QED
        BY <1>2, <1>3, <4>1 DEF Ahead
    <3>2. wireEnd = "open" => sent = pos + 1 + 0 + Len(wire)
      BY <1>2, <1>3 DEF Ahead
    <3>3. QED
      BY <1>1, <1>3, <3>1, <3>2 DEF Ahead
  <2>4. CASE pos + 1 \notin Undecodable
    <3>1. lastID' = pos + 1 /\ item' = pos + 1 /\ pc' = "deliver" /\ delivered' = TRUE
      BY <2>1, <2>2, <2>4 DEF RangeFrame, Advance
    <3>2. lastID # NoID =>
             Feed!NextAfter(lastID, pos + 1) \/ (Origin < pos + 1 /\ pos + 1 <= lastID)
      <4>1. SUFFICES ASSUME lastID # NoID, ~(pos + 1 <= lastID)
                     PROVE  Feed!NextAfter(lastID, pos + 1)
        BY <1>2, <1>4 DEF Skipped
      <4>2. QED
        BY <1>2, <1>4, <4>1 DEF Skipped, Feed!NextAfter, Feed!Decodable, Events
    <3>3. Skipped(pos + 1)'
      <4>1. Origin' <= pos + 1
        <5>1. CASE lastID # NoID
          BY <1>2, <1>4, <5>1 DEF Skipped
        <5>2. CASE lastID = NoID
          <6>1. got' = <<>> /\ afterID' = NoID
            BY <1>1, <5>2, CursorFacts DEF WatchInv
          <6>2. Origin' = pos
            BY <3>1, <6>1 DEF Origin
          <6>3. QED
            BY <6>2
        <5>3. QED
          BY <5>1, <5>2
      <4>2. ASSUME NEW d \in Events PROVE ~(pos + 1 < d /\ d <= pos + 1)
        BY BoundsAssumption DEF Events
      <4>3. QED
        BY <3>1, <4>1, <4>2 DEF Skipped
    <3>4. Gapless'
      BY <2>3, <3>3 DEF Gapless
    <3>5. QED
      BY <1>1, <1>4, <3>1, <3>2, <3>4 DEF FeedInv
  <2>5. CASE pos + 1 \in Undecodable
    <3>1. UNCHANGED <<lastID, item, pc, delivered>>
      BY <2>2, <2>5 DEF RangeFrame
    <3>2. Skipped(pos + 1)'
      <4>1. ASSUME lastID # NoID, NEW d \in Events \ Undecodable
            PROVE  ~(lastID < d /\ d <= pos + 1)
        BY <1>2, <1>4, <2>5, <4>1, BoundsAssumption DEF Skipped, Events
      <4>2. QED
        BY <1>2, <1>4, <3>1, <4>1 DEF Skipped
    <3>3. Gapless'
      BY <2>3, <3>2 DEF Gapless
    <3>4. QED
      BY <1>1, <1>4, <3>1, <3>3 DEF FeedInv
  <2>6. QED
    BY <2>4, <2>5
<1>6. CASE held = CutFrame /\ wire = <<>> /\ wireEnd # "open"
  <2>1. UNCHANGED <<lastID, item, pc, delivered>>
    BY <1>6 DEF RangeFrame, Decodes
  <2>2. Skipped(pos)'
    BY <1>2, <1>4, <2>1 DEF Skipped
  <2>3. Ahead(pos)'
    BY <1>1, <1>6 DEF Ahead
  <2>4. Gapless'
    BY <2>2, <2>3 DEF Gapless
  <2>5. QED
    BY <1>1, <1>4, <2>1, <2>4 DEF FeedInv
<1>7. QED
  BY <1>1, <1>2, <1>5, <1>6 DEF Ahead

\* The event handed over is the next one, or one of those the feed has covered.
LEMMA DeliverFeeds ==
    ASSUME WatchInv, FeedInv, Deliver
    PROVE  FeedInv'
<1>1. /\ pc = "deliver" /\ pc' = "range" /\ got' = Append(got, item) /\ got \in Seq(Events)
      /\ item \in Events \ Undecodable /\ lastID = item
      /\ UNCHANGED <<lastID, afterID, sent, reader, held, wire, wireEnd, delivered>>
  BY DEF Deliver, WatchInv, TypeOK, FeedInv, cursor, indexer, stream, local
<1>2. /\ got' # <<>> /\ Len(got') = Len(got) + 1 /\ Len(got) \in Nat /\ got'[Len(got')] = item
      /\ \A i \in 1..Len(got) : got'[i] = got[i]
      /\ got = <<>> => got'[1] = item
      /\ got # <<>> => got'[1] = got[1] /\ got[Len(got)] \in Events
  BY <1>1
<1>3. Origin' = Origin
  BY <1>1, <1>2 DEF Origin
<1>4. Gapless'
  BY <1>1, <1>3 DEF FeedInv, Gapless, Active, Skipped, Ahead, AtHand
<1>5. Covered'
  <2>1. SUFFICES ASSUME NEW d \in Events \ Undecodable, Origin < d, d <= item
                 PROVE  \E i \in 1..Len(got') : got'[i] = d
    BY <1>2, <1>3 DEF Covered
  <2>2. CASE d = item
    BY <1>2, <2>2
  <2>3. CASE d # item
    <3>1. d < item /\ d \in Nat /\ item \in Nat
      BY <1>1, <2>1, <2>3, BoundsAssumption DEF Events
    <3>2. got # <<>> /\ d <= got[Len(got)]
      <4>1. LastKnown # NoID
        <5>1. ASSUME LastKnown = NoID PROVE FALSE
          <6>1. got = <<>> /\ afterID = NoID
            BY <5>1, CursorFacts DEF WatchInv
          <6>2. Origin = item - 1
            BY <1>1, <6>1 DEF Origin
          <6>3. QED
            BY <2>1, <3>1, <6>2
        <5>2. QED
          BY <5>1
      <4>2. LastKnown \in Nat
        BY <4>1, CursorFacts DEF WatchInv
      <4>3. d <= LastKnown
        <5>1. CASE Feed!NextAfter(LastKnown, item)
          BY <2>1, <3>1, <4>2, <5>1 DEF Feed!NextAfter, Feed!Decodable, Events
        <5>2. CASE item <= LastKnown
          BY <3>1, <4>2, <5>2
        <5>3. QED
          BY <1>1, <4>1, <5>1, <5>2 DEF FeedInv
      <4>4. got # <<>>
        <5>1. ASSUME got = <<>> PROVE FALSE
          <6>1. LastKnown = afterID /\ Origin = afterID
            BY <4>1, <5>1 DEF LastKnown, Origin
          <6>2. QED
            BY <2>1, <3>1, <4>2, <4>3, <6>1
        <5>2. QED
          BY <5>1
      <4>5. QED
        BY <4>3, <4>4 DEF LastKnown
    <3>3. PICK i \in 1..Len(got) : got[i] = d
      BY <2>1, <3>2 DEF FeedInv, Covered
    <3>4. QED
      BY <1>2, <3>3
  <2>4. QED
    BY <2>2, <2>3
<1>6. LastKnown' = item
  BY <1>2 DEF LastKnown
<1>7. QED
  BY <1>1, <1>4, <1>5, <1>6 DEF FeedInv

LEMMA InitFeeds == Init => FeedInv
BY DEF Init, StreamInit, FeedInv, Gapless, Covered, Active, LastKnown

LEMMA StepFeeds ==
    ASSUME ~IdlessFrames, WatchInv, FeedInv, Next
    PROVE  FeedInv'
<1>1. CASE OpenAnswered
  <2>1. /\ pc = "opening" /\ pc' = "range" /\ ~delivered /\ lastID = LastKnown
        /\ UNCHANGED <<lastID, got, afterID, delivered>>
    BY <1>1 DEF OpenAnswered, FeedInv, cursor, caller, local
  <2>2. /\ lastID # NoID => ServedFrom = lastID /\ Earliest = Origin
        /\ lastID = NoID => ServedFrom = logged /\ Earliest = logged
    <3>1. /\ query.last = lastID
          /\ lastID # NoID => query.last # NoQuery.last
          /\ lastID = NoID => afterID = NoID /\ query = NoQuery
      BY <2>1, CursorFacts DEF FeedInv, WatchInv, NoQuery
    <3>2. afterID = NoID /\ lastID # NoID => got # <<>>
      BY <2>1 DEF LastKnown
    <3>3. QED
      BY <3>1, <3>2 DEF ServedFrom, Earliest, Origin, NoQuery
  <2>3. Gapless'
    <3>1. ASSUME NEW pos \in Earliest..ServedFrom, pos >= pruned, Opened(<<>>), sent' = pos
          PROVE  Gapless'
      <4>1. pos \in Nat /\ pruned \in Nat
        BY <2>2, <3>1, CursorFacts DEF WatchInv, TypeOK
      <4>2. Skipped(pos)'
        <5>1. SUFFICES ASSUME lastID # NoID PROVE Skipped(pos)'
          BY <2>1 DEF Skipped
        <5>2. Origin' = Origin /\ Origin <= pos /\ pos <= lastID /\ lastID \in Nat
          BY <2>1, <2>2, <3>1, <5>1, CoveredStays, CursorFacts DEF WatchInv
        <5>3. ASSUME NEW d \in Events PROVE ~(lastID < d /\ d <= pos)
          BY <4>1, <5>2, BoundsAssumption DEF Events
        <5>4. QED
          BY <2>1, <5>2, <5>3 DEF Skipped
      <4>3. AtHand' = 0 /\ Len(wire') = 0 /\ reader' = "reading" /\ wire' = <<>>
        BY <3>1 DEF Opened, AtHand
      <4>4. Ahead(pos)'
        BY <3>1, <4>1, <4>3 DEF Ahead
      <4>5. QED
        BY <4>1, <4>2, <4>4 DEF Gapless
    <3>2. CASE \E err \in StreamErrors : OpenFailed(err)
      BY <3>2 DEF OpenFailed, Gapless, Active
    <3>3. QED
      BY <1>1, <3>1, <3>2 DEF OpenAnswered, StreamErrors
  <2>4. QED
    BY <2>1, <2>3, CoveredStays DEF FeedInv
<1>2. CASE RangeFrame
  BY <1>2, RangeFeeds
<1>3. CASE Deliver
  BY <1>3, DeliverFeeds
<1>4. CASE Reader
  <2>1. Gapless' /\ UNCHANGED <<got, afterID, lastID, item, pc, query, delivered>>
    BY <1>4, ReaderGapless DEF FeedInv, Reader, cursor, caller, local
  <2>2. QED
    BY <2>1, CoveredStays DEF FeedInv
<1>5. CASE Serve
  <2>1. Gapless' /\ UNCHANGED <<got, afterID, lastID, item, pc, query, delivered>>
    BY <1>5, ServeGapless DEF FeedInv, Serve, cursor, caller, local
  <2>2. QED
    BY <2>1, CoveredStays DEF FeedInv
<1>6. CASE Drop
  <2>1. Gapless' /\ UNCHANGED <<got, afterID, lastID, item, pc, query, delivered>>
    BY <1>6, DropGapless DEF FeedInv, Drop, cursor, caller, local
  <2>2. QED
    BY <2>1, CoveredStays DEF FeedInv
<1>7. CASE OpenCtx
  <2>1. Gapless' /\ UNCHANGED <<got, afterID, lastID, item, delivered>>
        /\ pc = "opening" /\ pc' = "range"
    BY <1>7 DEF OpenCtx, OpenFailed, Gapless, Active, cursor, local, caller
  <2>2. QED
    BY <2>1, CoveredStays DEF FeedInv
\* The others leave the stream, or its frames, alone.
<1>8. ASSUME UNCHANGED <<lastID, sent, reader, held, wire, wireEnd, got, afterID, item>>,
             delivered' => delivered,
             \/ pc' # "deliver" /\ pc # "deliver" /\ pc' # "opening" /\ (pc = "done" => pc' = "done")
             \/ pc' = pc /\ UNCHANGED <<query, delivered>>
             \/ pc' = "done"
             \/ /\ pc = "connect" /\ pc' = "opening" /\ ~delivered'
                /\ query' = [after |-> IF lastID # NoID THEN NoID ELSE afterID, last |-> lastID]
      PROVE  FeedInv'
  <2>1. Gapless'
    BY <1>8 DEF FeedInv, Gapless, Active, Skipped, Ahead, AtHand, Origin
  <2>2. Covered' /\ LastKnown' = LastKnown /\ (LastKnown # NoID => Origin' = Origin)
    BY <1>8, CoveredStays DEF FeedInv
  <2>3. QED
    BY <1>8, <2>1, <2>2 DEF FeedInv
<1>9. CASE Connect \/ DeliverCtx \/ RangeEnds \/ Ending
  <2>1. UNCHANGED <<lastID, sent, reader, held, wire, wireEnd, got, afterID, item>>
        /\ (delivered' => delivered)
    BY <1>9 DEF Connect, DeliverCtx, RangeEnds, Ending, ReadErr, TakeErr, PushGone, Displace, Warn,
                BackoffTimer, BackoffCtx, cursor, local, caller, indexer, stream
  <2>2. CASE Connect
    BY <1>8, <2>1, <2>2 DEF Connect, Finish
  <2>3. CASE DeliverCtx \/ RangeEnds \/ Ending
    BY <1>8, <2>1, <2>3
       DEF DeliverCtx, RangeEnds, Ending, ReadErr, PushGone, Displace, Warn, BackoffTimer,
           BackoffCtx, Finish
  <2>4. QED
    BY <1>9, <2>2, <2>3
<1>10. CASE Cancel \/ ReadWarning \/ Happens \/ Prune
  BY <1>8, <1>10 DEF Cancel, ReadWarning, Happens, Prune, channels, cursor, local, caller, indexer,
                     stream
<1>11. QED
  BY <1>1, <1>2, <1>3, <1>4, <1>5, <1>6, <1>7, <1>9, <1>10 DEF Next, Loop, Indexer

LEMMA StutterFeeds == FeedInv /\ UNCHANGED vars => FeedInv'
BY DEF FeedInv, Gapless, Covered, Active, Skipped, Ahead, AtHand, LastKnown, Origin, vars, cursor,
       local, caller, indexer, stream

\* A step of the watch is a step of the feed, or none.
LEMMA StepImplements ==
    ASSUME WatchInv, FeedInv, Next
    PROVE  [Feed!Next]_(Feed!vars)
<1>1. CASE Deliver
  <2>1. /\ pc = "deliver" /\ end = "no" /\ item \in Events \ Undecodable
        /\ got' = Append(got, item) /\ UNCHANGED <<afterID, end>>
    BY <1>1 DEF Deliver, WatchInv, cursor
  <2>2. /\ got # <<>> => LastKnown = got[Len(got)] /\ LastKnown # NoID
        /\ got = <<>> => LastKnown = afterID
    BY CursorFacts DEF LastKnown, WatchInv
  <2>3. LastKnown # NoID =>
           Feed!NextAfter(LastKnown, item) \/ (Origin < item /\ item <= LastKnown)
    BY <2>1 DEF FeedInv
  <2>4. got # <<>> => Feed!NextAfter(got[Len(got)], item) \/ Feed!Repeats(item)
    BY <2>1, <2>2, <2>3 DEF FeedInv, Covered, Feed!Repeats
  <2>5. got = <<>> /\ afterID # NoID => Feed!NextAfter(afterID, item)
    <3>1. SUFFICES ASSUME got = <<>>, afterID # NoID PROVE Feed!NextAfter(afterID, item)
      OBVIOUS
    <3>2. LastKnown = afterID /\ Origin = afterID /\ afterID \in Nat /\ item \in Nat
      BY <2>1, <2>2, <3>1, CursorFacts, BoundsAssumption DEF Origin, WatchInv, Events
    <3>3. QED
      BY <2>3, <3>1, <3>2
  <2>6. Feed!Deliver
    BY <2>1, <2>4, <2>5 DEF Feed!Deliver, Feed!Decodable, Events
  <2>7. QED
    BY <2>6 DEF Feed!Next
<1>2. ASSUME UNCHANGED <<afterID, got>>,
             UNCHANGED end \/ (pc # "done" /\ end' \in {"cancelled", "gone"})
      PROVE  [Feed!Next]_(Feed!vars)
  BY <1>2 DEF WatchInv, Feed!Next, Feed!End, Feed!vars
<1>3. CASE Loop
  <2>1. UNCHANGED <<afterID, got>>
    BY <1>3 DEF Loop, Connect, OpenCtx, RangeFrame, DeliverCtx, RangeEnds, Ending, ReadErr,
                PushGone, Displace, Warn, BackoffTimer, BackoffCtx, cursor, caller
  <2>2. UNCHANGED end \/ (pc # "done" /\ end' \in {"cancelled", "gone"})
    BY <1>3 DEF Loop, Connect, OpenCtx, RangeFrame, DeliverCtx, RangeEnds, Ending, ReadErr,
                PushGone, Displace, Warn, BackoffTimer, BackoffCtx, Finish
  <2>3. QED
    BY <1>2, <2>1, <2>2
<1>4. CASE OpenAnswered \/ Reader \/ Cancel \/ ReadWarning \/ Indexer
  BY <1>2, <1>4 DEF OpenAnswered, Reader, Cancel, ReadWarning, Indexer, Happens, Prune, Serve, Drop,
                    cursor, caller
<1>5. QED
  BY <1>1, <1>3, <1>4 DEF Next

\* Within a connection the events go forward: only the first may lie behind the last one delivered.
LEMMA StepsForward ==
    ASSUME WatchInv, FeedInv, Next, pc' = "deliver", pc # "deliver", delivered
    PROVE  got # <<>> => ~(item' <= got[Len(got)])
<1>1. RangeFrame
  BY DEF Next, OpenAnswered, Loop, Deliver, Reader, Cancel, ReadWarning, Indexer, Connect, OpenCtx,
         DeliverCtx, RangeEnds, Ending, ReadErr, PushGone, Displace, Warn, BackoffTimer, BackoffCtx,
         Finish, Happens, Prune, Serve, Drop
<1>2. /\ reader = "sending" /\ held \in Frames /\ pc = "range" /\ Decodes(held)
      /\ item' = held.event
  BY <1>1 DEF RangeFrame, TakeFrame, WatchInv, StreamInv
<1>3. PICK pos \in Nat : Skipped(pos) /\ Ahead(pos)
  BY <1>2 DEF FeedInv, Gapless, Active
<1>4. item' = pos + 1
  BY <1>2, <1>3 DEF Ahead, At, Decodes, CutFrame
<1>5. SUFFICES ASSUME got # <<>> PROVE ~(item' <= got[Len(got)])
  OBVIOUS
<1>6. lastID = got[Len(got)] /\ lastID # NoID /\ lastID \in Nat
  BY <1>2, <1>5, CursorFacts DEF FeedInv, LastKnown, WatchInv
<1>7. QED
  BY <1>3, <1>4, <1>6 DEF Skipped

\* A repetition is seen only across a reconnect, as long as every frame carries its id.
THEOREM StepsBackRarely == ASSUME ~IdlessFrames PROVE Spec => StepsBackOnReconnect
<1>1. WatchInv /\ FeedInv /\ [Next]_vars => FeedInv'
  BY StepFeeds, StutterFeeds
<1>2. WatchInv /\ FeedInv /\ [Next]_vars =>
         [pc' = "deliver" /\ pc # "deliver" /\ got # <<>> /\ item' <= got[Len(got)]
             => ~delivered]_vars
  BY StepsForward
<1>3. QED
  BY <1>1, <1>2, InitFeeds, Watches, PTL DEF Spec, StepsBackOnReconnect

\* The succession of streams is one feed, whatever is refused, cut, pruned or replayed in between, as
\* long as every frame carries its id.
THEOREM ImplementsFeed == ASSUME ~IdlessFrames PROVE Spec => IsFeed
<1>1. Init => Feed!Init
  <2>. SUFFICES ASSUME Init PROVE Feed!Init
    OBVIOUS
  <2>1. afterID \in {NoID} \cup 0..MaxEvent
    BY BoundsAssumption DEF Init
  <2>2. QED
    BY <2>1 DEF Init, Feed!Init
<1>2. WatchInv /\ FeedInv /\ [Next]_vars => FeedInv'
  BY StepFeeds, StutterFeeds
<1>3. WatchInv /\ FeedInv /\ [Next]_vars => [Feed!Next]_(Feed!vars)
  <2>1. UNCHANGED vars => UNCHANGED Feed!vars
    BY DEF vars, Feed!vars, cursor, caller
  <2>2. QED
    BY <2>1, StepImplements
<1>4. QED
  BY <1>1, <1>2, <1>3, InitFeeds, Watches, PTL DEF Spec, IsFeed, Feed!Spec

=============================================================================

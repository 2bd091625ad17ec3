----------------------------- MODULE WatchEvents -----------------------------
(***************************************************************************)
(* WatchEvents: the goroutine that keeps one typed feed of events alive    *)
(* over a succession of SSE streams - decode, deliver, and on the end of a *)
(* stream warn, back off and reconnect from the cursor - between an        *)
(* indexer that fails, ends streams and prunes its log, and a caller that  *)
(* may read both channels, only the events, or nothing.                    *)
(***************************************************************************)
EXTENDS SSEStream, SequencesExt

CONSTANTS
    MaxEvent,             \* bound on the events the indexer logs
    MaxFaults,            \* bound on the refused and the lost connections
    Undecodable,          \* the events whose body the core cannot decode
    IdlessFrames,         \* whether a live frame may lack its id
    NoID,                 \* the empty cursor
    reconnectBackoffMin,  \* 1 second
    reconnectBackoffMax   \* 5 seconds

ASSUME BoundsAssumption == MaxEvent \in Nat /\ MaxFaults \in Nat
ASSUME EventsAssumption ==
    Undecodable \subseteq 1..MaxEvent /\ IdlessFrames \in BOOLEAN /\ NoID \notin Nat
ASSUME BackoffAssumption ==
    /\ reconnectBackoffMin \in Nat \ {0}
    /\ reconnectBackoffMax \in Nat
    /\ reconnectBackoffMin <= reconnectBackoffMax

VARIABLES
    afterID,    \* filter.AfterID
    pc,         \* the watch goroutine's next statement
    lastID,     \* its cursor
    query,      \* the cursors of the current request: after_id and Last-Event-ID
    delivered,  \* the current connection delivered a frame
    backoff,    \* the next wait
    item,       \* the event being delivered
    failure,    \* the terminal error of the stream that ended
    warning,    \* the buffered error of the caller's errs channel
    got,        \* the events the caller received
    seen,       \* the last error the caller received
    end,        \* why the watch ended, "no" while it runs
    logged,     \* events 1..logged have happened
    pruned,     \* events 1..pruned are gone from the log
    sent,       \* the last event written to, or skipped for, the current connection
    faults      \* connections refused or lost so far

cursor == <<afterID, lastID, query>>
local == <<delivered, backoff, item, failure>>
caller == <<warning, got, seen>>
indexer == <<logged, pruned, sent, faults>>
vars == <<pc, cursor, local, caller, end, indexer, stream>>

Events == 1..MaxEvent
IDs == {NoID} \cup 0..MaxEvent
\* What is left of a frame that the end of a stream cut short; its data is not a JSON value.
CutFrame == [event |-> 0, id |-> NoID]
Frames == [event : Events, id : IDs] \cup {CutFrame}
NoQuery == [after |-> NoID, last |-> NoID]

Init ==
    /\ afterID \in {NoID, 0, 1}
    /\ logged \in 0..MaxEvent /\ (afterID # NoID => afterID <= logged)
    /\ pruned = 0 /\ sent = 0 /\ faults = 0
    /\ pc = "connect" /\ lastID = afterID
    /\ query = NoQuery
    /\ delivered = FALSE /\ backoff = reconnectBackoffMin /\ item = 0 /\ failure = NoErr
    /\ warning = NoErr /\ got = <<>> /\ seen = NoErr
    /\ end = "no"
    /\ StreamInit

-----------------------------------------------------------------------------
(* The watch goroutine.                                                     *)

\* Both channels are closed with the end of the goroutine.
Finish(reason) == pc' = "done" /\ end' = reason

\* after_id only without a cursor; the header when there is one.
Connect ==
    /\ pc = "connect"
    /\ IF cancelled
       THEN Finish("cancelled") /\ UNCHANGED <<query, delivered>>
       ELSE /\ query' = [after |-> IF lastID # NoID THEN NoID ELSE afterID, last |-> lastID]
            /\ delivered' = FALSE
            /\ pc' = "opening"
            /\ UNCHANGED end
    /\ UNCHANGED <<afterID, lastID, backoff, item, failure, caller, indexer, stream>>

\* The indexer's answer: a stream that replays what follows the cursor, or that starts with the
\* next event when there is none; 410 when what follows the cursor is gone; any other failure.
ServedFrom ==
    IF query.last # NoID THEN query.last ELSE IF query.after # NoID THEN query.after ELSE logged

\* A replay may overlap what this watch was sent before, "a repeated event id may appear across a
\* reconnect boundary": Earliest is what follows the seed or, without one, the first event delivered.
Earliest ==
    IF query = NoQuery THEN logged ELSE IF afterID # NoID THEN afterID ELSE got[1] - 1

OpenAnswered ==
    /\ pc = "opening"
    /\ \/ /\ ServedFrom >= pruned
          /\ Opened(<<>>)
          /\ sent' \in {start \in Earliest..ServedFrom : start >= pruned}
          /\ UNCHANGED faults
       \/ /\ ServedFrom < pruned
          /\ OpenFailed("gone")
          /\ UNCHANGED <<sent, faults>>
       \/ /\ faults < MaxFaults /\ faults' = faults + 1
          /\ OpenFailed("http")
          /\ UNCHANGED sent
    /\ pc' = "range"
    /\ UNCHANGED <<cursor, local, caller, end, logged, pruned, cancelled>>

OpenCtx ==
    /\ pc = "opening"
    /\ cancelled
    /\ OpenFailed("cancelled")
    /\ pc' = "range"
    /\ UNCHANGED <<cursor, local, caller, end, indexer, cancelled>>

\* A frame that does not decode is skipped and leaves the cursor alone.
Decodes(f) == f.event \notin Undecodable \cup {CutFrame.event}

Advance(f) == f.id

RangeFrame ==
    /\ pc = "range"
    /\ TakeFrame
    /\ IF Decodes(held)
       THEN /\ lastID' = Advance(held)
            /\ delivered' = TRUE
            /\ item' = held.event
            /\ pc' = "deliver"
       ELSE UNCHANGED <<pc, lastID, delivered, item>>
    /\ UNCHANGED <<afterID, query, backoff, failure, caller, end, indexer, cancelled>>

Deliver ==
    /\ pc = "deliver"
    /\ got' = Append(got, item)
    /\ pc' = "range"
    /\ UNCHANGED <<cursor, local, warning, seen, end, indexer, stream>>

DeliverCtx ==
    /\ pc = "deliver"
    /\ cancelled
    /\ Finish("cancelled")
    /\ UNCHANGED <<cursor, local, caller, indexer, stream>>

RangeEnds ==
    /\ pc = "range"
    /\ outClosed
    /\ pc' = "read_err"
    /\ UNCHANGED <<cursor, local, caller, end, indexer, stream>>

isCursorPruned(err) == err = "gone"

CleanCancel_Unchecked == FALSE
CleanCancel == cancelled

ReadErr ==
    /\ pc = "read_err"
    /\ TakeErr
    /\ failure' = serrs.val
    /\ IF CleanCancel
       THEN Finish("cancelled")
       ELSE /\ pc' = (IF isCursorPruned(serrs.val) THEN "gone" ELSE "warn")
            /\ UNCHANGED end
    /\ UNCHANGED <<cursor, delivered, backoff, item, caller, indexer, cancelled>>

\* The last error: put into the buffer, or make room for it there and try again.
PushGone_IfRoom ==
    /\ pc = "gone"
    /\ warning' = (IF warning = NoErr THEN failure ELSE warning)
    /\ Finish("gone")
    /\ UNCHANGED <<cursor, local, got, seen, indexer, stream>>
PushGone ==
    /\ pc = "gone"
    /\ IF warning = NoErr
       THEN warning' = failure /\ Finish("gone")
       ELSE pc' = "displace" /\ UNCHANGED <<warning, end>>
    /\ UNCHANGED <<cursor, local, got, seen, indexer, stream>>

Displace ==
    /\ pc = "displace"
    /\ warning' = NoErr
    /\ pc' = "gone"
    /\ UNCHANGED <<cursor, local, got, seen, end, indexer, stream>>

\* A warning is dropped when the last one has not been read.
Warn_Blocking ==
    /\ pc = "warn"
    /\ failure = NoErr \/ warning = NoErr
    /\ warning' = (IF failure = NoErr THEN warning ELSE failure)
    /\ backoff' = (IF delivered THEN reconnectBackoffMin ELSE backoff)
    /\ pc' = "backoff"
    /\ UNCHANGED <<cursor, delivered, item, failure, got, seen, end, indexer, stream>>
Warn ==
    /\ pc = "warn"
    /\ warning' = (IF warning = NoErr THEN failure ELSE warning)
    /\ backoff' = (IF delivered THEN reconnectBackoffMin ELSE backoff)
    /\ pc' = "backoff"
    /\ UNCHANGED <<cursor, delivered, item, failure, got, seen, end, indexer, stream>>

Grow_Uncapped(wait) == wait * 2
Grow(wait) == IF wait * 2 > reconnectBackoffMax THEN reconnectBackoffMax ELSE wait * 2

BackoffTimer ==
    /\ pc = "backoff"
    /\ backoff' = (IF delivered THEN backoff ELSE Grow(backoff))
    /\ pc' = "connect"
    /\ UNCHANGED <<cursor, delivered, item, failure, caller, end, indexer, stream>>

BackoffCtx ==
    /\ pc = "backoff"
    /\ cancelled
    /\ Finish("cancelled")
    /\ UNCHANGED <<cursor, local, caller, indexer, stream>>

Ending == ReadErr \/ PushGone \/ Displace \/ Warn \/ BackoffTimer \/ BackoffCtx
Loop == Connect \/ OpenCtx \/ RangeFrame \/ DeliverCtx \/ RangeEnds \/ Ending

Reader == ReaderStep /\ UNCHANGED <<pc, cursor, local, caller, end, indexer>>

-----------------------------------------------------------------------------
(* The caller: it cancels when it likes, and reads errs or does not.        *)

Cancel ==
    /\ ~cancelled
    /\ cancelled' = TRUE
    /\ UNCHANGED <<pc, cursor, local, caller, end, indexer, wire, wireEnd, reader, channels>>

ReadWarning ==
    /\ warning # NoErr
    /\ seen' = warning
    /\ warning' = NoErr
    /\ UNCHANGED <<pc, cursor, local, got, end, indexer, stream>>

-----------------------------------------------------------------------------
(* The indexer (outside src/): a log of events, pruned from the front, and the stream, which  *)
(* carries the events in the log's order.                                                     *)

Happens ==
    /\ logged < MaxEvent
    /\ logged' = logged + 1
    /\ UNCHANGED <<pc, cursor, local, caller, end, pruned, sent, faults, stream>>

\* The log is pruned no further than an open connection has been served.
Prune ==
    /\ pruned < logged
    /\ Connected => pruned < sent
    /\ pruned' = pruned + 1
    /\ UNCHANGED <<pc, cursor, local, caller, end, logged, sent, faults, stream>>

\* Only the latest event is live, and only a live frame may lack its id.
IDsServed(e) == IF IdlessFrames /\ e = logged THEN {e, NoID} ELSE {e}
Serve ==
    /\ sent < logged
    /\ \E id \in IDsServed(sent + 1) : ServerWrites([event |-> sent + 1, id |-> id])
    /\ sent' = sent + 1
    /\ UNCHANGED <<pc, cursor, local, caller, end, logged, pruned, faults>>

Drop ==
    /\ faults < MaxFaults
    /\ faults' = faults + 1
    /\ ServerEnds({CutFrame})
    /\ UNCHANGED <<pc, cursor, local, caller, end, logged, pruned, sent>>

Indexer == Happens \/ Prune \/ Serve \/ Drop

Next == OpenAnswered \/ Loop \/ Deliver \/ Reader \/ Cancel \/ ReadWarning \/ Indexer

Spec == Init /\ [][Next]_vars

\* The goroutines are scheduled and the timers fire.
Scheduling == WF_vars(Loop) /\ WF_vars(Reader)
\* The indexer answers requests and serves open streams, and the caller reads the events - never,
\* as far as this goes, the errors.
Cooperation == WF_vars(OpenAnswered) /\ WF_vars(Serve) /\ WF_vars(Deliver)

FairLoop == Spec /\ Scheduling

-----------------------------------------------------------------------------
(* Properties.                                                              *)

TypeOK ==
    /\ afterID \in IDs /\ lastID \in IDs
    /\ query \in [after : IDs, last : IDs]
    /\ pc \in {"connect", "opening", "range", "deliver", "read_err", "gone", "displace", "warn",
               "backoff", "done"}
    /\ delivered \in BOOLEAN
    /\ backoff \in reconnectBackoffMin..reconnectBackoffMax
    /\ item \in 0..MaxEvent
    /\ {failure, warning, seen} \subseteq StreamErrors \cup {NoErr}
    /\ got \in Seq(Events)
    /\ end \in {"no", "cancelled", "gone"}
    /\ logged \in 0..MaxEvent /\ pruned \in 0..MaxEvent /\ sent \in 0..MaxEvent
    /\ faults \in 0..MaxFaults
    /\ StreamTypeOK(Frames)

\* The succession of connections looks like one feed: every event at least once, each first delivery
\* in order and without a gap, whatever is refused, cut, pruned or replayed in between ("Delivery is
\* at-least-once", events.go 145).
Feed == INSTANCE EventFeed
IsFeed == Feed!Spec

\* The feed steps back only "across a reconnect boundary" (events.go 146): what goes out to the caller
\* after the first event of a connection lies behind everything that connection has delivered.
StepsBackOnReconnect ==
    [][pc' = "deliver" /\ pc # "deliver" /\ got # <<>> /\ item' <= got[Len(got)] => ~delivered]_vars

\* "it refuses the stream with HTTP 410 on every reconnect, so the watch ends with that
\* *transport.HTTPError as its last error" (events.go 151-154): the 410 displaces an unread
\* warning, also while the caller is reading it, and nothing follows it.
GoneIsLast == end = "gone" => warning = "gone" \/ (warning = NoErr /\ seen = "gone")

\* The failure that a cancellation itself causes never reaches the caller (events.go 149).
CancelIsSilent == warning # "cancelled" /\ seen # "cancelled"

\* Every event after the seed, or after the first one delivered, reaches a caller that reads only
\* the events, unless the watch has ended: an unread warning never blocks the feed.
Due(e) ==
    /\ logged >= e
    /\ (afterID # NoID /\ e > afterID) \/ (got # <<>> /\ e > got[1])
Delivers ==
    Cooperation => \A e \in Events \ Undecodable : Due(e) ~> (e \in ToSet(got) \/ pc = "done")

\* A cancelled watch ends and leaves no goroutine behind, even when the caller has stopped
\* reading and the indexer has stopped answering.
Ends == cancelled ~> (pc = "done" /\ ~Running)

\* "resuming from the last delivered event id so the server replays anything missed" (events.go
\* 142-143): between two events delivered in a row none is missing.
NothingMissed ==
    \A i \in 1..Len(got) - 1 : \A e \in Events \ Undecodable :
        ~(got[i] < e /\ e < got[i + 1])

=============================================================================

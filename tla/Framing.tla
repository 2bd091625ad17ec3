------------------------------- MODULE Framing -------------------------------
(***************************************************************************)
(* The line machine of readStream: the body of an SSE response arrives     *)
(* line by line, is accumulated into frames and dispatched on blank lines  *)
(* and at the end of the body, which may cut any line anywhere.  Seen      *)
(* frame by frame it is the stream of module SSEStream.                    *)
(*                                                                         *)
(* What a frame should be is known from its layout, independently of what   *)
(* the reader accumulates: each line of frame n is written with value n.    *)
(***************************************************************************)
EXTENDS Naturals, Sequences, SequencesExt, InOrder

(* A definition named X_Y is a deliberately wrong form of X that no action uses: the      *)
(* property that guards X is checked to fail when X is replaced by it.                    *)
CONSTANTS
    Layouts,    \* the frames a server writes: the fields of their first lines, in order, and
                \* how many lines of data follow
    MaxFrames,  \* bound on the frames written
    Empty,      \* the empty string
    Cut,        \* what remains of a value whose line was cut
    NoFrame,    \* nothing on offer
    NoErr       \* a nil error, or an empty error buffer

\* The indexer writes the data of a frame last, in the order of the repository's fixtures: a frame
\* cut short then never has data that decodes and an id that is missing.
HeadFields == {"event", "id", "comment", "unknown"}
ASSUME LayoutAssumption == \A layout \in Layouts : layout.head \in Seq(HeadFields) /\ layout.data \in Nat
ASSUME BoundAssumption == MaxFrames \in Nat
ASSUME ValueAssumption == Empty \notin Nat /\ Cut \notin Nat /\ Empty # Cut

VARIABLES
    layouts,    \* the frames of the body, in order
    sent,       \* lines of the last of them that were written
    cut,        \* what became of the last line: "none", or the end of the body took its break
                \* and part of its "value", or part of its "name" too
    wireEnd,    \* what is found at the end of the body: "open", "eof" or "broken"
    frame, pos, \* the reader has read pos lines of this frame, and all frames before it
    reader,     \* the reader goroutine's next statement
    acc,        \* its accumulators event, id and data; hasData is data # <<>>
    held,       \* the frame it is blocked sending on out
    serrs,      \* the errs channel: its buffered error and whether it is closed
    outClosed,  \* out is closed
    cancelled,  \* the context the stream was opened with is done
    taken       \* the frames the consumer received

server == <<layouts, sent, cut, wireEnd>>
read == <<frame, pos>>
channels == <<held, serrs, outClosed>>
framing == <<server, read, reader, acc, channels, cancelled, taken>>

Numbers == 1..MaxFrames
Values == Numbers \cup {Empty, Cut}
Blanked == [event |-> Empty, id |-> Empty, data |-> <<>>]

FramingInit ==
    /\ layouts = <<>> /\ sent = 0 /\ cut = "none" /\ wireEnd = "open"
    /\ frame = 1 /\ pos = 0
    /\ reader = "none" /\ acc = Blanked
    /\ held = NoFrame
    /\ serrs = [val |-> NoErr, closed |-> FALSE]
    /\ outClosed = FALSE
    /\ cancelled = FALSE
    /\ taken = <<>>

-----------------------------------------------------------------------------
(* The body.                                                                *)

begun == Len(layouts)
Size(layout) == Len(layout.head) + layout.data + 1
FieldAt(layout, k) ==
    IF k <= Len(layout.head) THEN layout.head[k]
    ELSE IF k < Size(layout) THEN "data" ELSE "blank"

\* How many lines of frame n there are to read.
Lines(n) == IF n < begun THEN Size(layouts[n]) ELSE sent

IsCut(n, k) == cut # "none" /\ n = begun /\ k = sent
Field(n, k) == IF IsCut(n, k) /\ cut = "name" THEN "unknown" ELSE FieldAt(layouts[n], k)
Value(n, k) == IF IsCut(n, k) THEN Cut ELSE n

Ended == frame > begun \/ pos = Lines(frame)

-----------------------------------------------------------------------------
\* openStream.
Open ==
    /\ reader = "none" /\ ~outClosed
    /\ \/ reader' = "reading" /\ UNCHANGED <<serrs, outClosed>>
       \/ /\ \/ serrs' = [val |-> "http", closed |-> TRUE]
             \/ cancelled /\ serrs' = [val |-> "cancelled", closed |-> TRUE]
          /\ outClosed' = TRUE
          /\ UNCHANGED reader
    /\ UNCHANGED <<server, read, acc, held, cancelled, taken>>

-----------------------------------------------------------------------------
(* readStream.                                                              *)

\* splitField and the switch over the field: comments and unknown fields are ignored.
Accumulated(a, field, value) ==
    CASE field = "event" -> [a EXCEPT !.event = value]
      [] field = "id"    -> [a EXCEPT !.id = value]
      [] field = "data"  -> [a EXCEPT !.data = Append(@, value)]
      [] OTHER           -> a

ReadLine ==
    /\ reader = "reading" /\ ~Ended
    /\ Field(frame, pos + 1) # "blank"
    /\ acc' = Accumulated(acc, Field(frame, pos + 1), Value(frame, pos + 1))
    /\ pos' = pos + 1
    /\ UNCHANGED <<server, frame, reader, channels, cancelled, taken>>

hasData_Always == TRUE
hasData == acc.data # <<>>

\* The reset at the end of dispatch.
Reset_KeepsID(a) == [Blanked EXCEPT !.id = a.id]
Reset(a) == Blanked

\* dispatch: a frame without data is dropped.
Dispatch(sending, otherwise) ==
    IF hasData
    THEN /\ held' = acc
         /\ reader' = sending
         /\ UNCHANGED acc
    ELSE /\ acc' = Reset(acc)
         /\ reader' = otherwise
         /\ UNCHANGED held

ReadBlank ==
    /\ reader = "reading" /\ ~Ended
    /\ Field(frame, pos + 1) = "blank"
    /\ Dispatch("sending", "reading")
    /\ frame' = frame + 1 /\ pos' = 0
    /\ UNCHANGED <<server, serrs, outClosed, cancelled, taken>>

\* dispatch gives up its frame when the context is done.
SendCancelled ==
    /\ reader \in {"sending", "flushing"}
    /\ cancelled
    /\ held' = NoFrame
    /\ reader' = "closing_errs"
    /\ UNCHANGED <<server, read, acc, serrs, outClosed, cancelled, taken>>

\* A read error with the context done.
ReadCancelled ==
    /\ reader = "reading"
    /\ cancelled
    /\ reader' = "closing_errs"
    /\ UNCHANGED <<server, read, acc, channels, cancelled, taken>>

\* A read error with the context live; at a clean end the pending frame is flushed.
Flushes_Never == FALSE
Flushes == wireEnd = "eof"

ReadEnd ==
    /\ reader = "reading" /\ Ended /\ wireEnd # "open"
    /\ ~cancelled
    /\ frame' = begun + 1 /\ pos' = 0
    /\ IF Flushes
       THEN Dispatch("flushing", "failing")
       ELSE reader' = "failing" /\ UNCHANGED <<acc, held>>
    /\ UNCHANGED <<server, serrs, outClosed, cancelled, taken>>

PushError ==
    /\ reader = "failing"
    /\ serrs' = [serrs EXCEPT !.val = wireEnd]
    /\ reader' = "closing_errs"
    /\ UNCHANGED <<server, read, acc, held, outClosed, cancelled, taken>>

\* The deferred closes, last registered first.
CloseErrs ==
    /\ reader = "closing_errs"
    /\ serrs' = [serrs EXCEPT !.closed = TRUE]
    /\ reader' = "closing_out"
    /\ UNCHANGED <<server, read, acc, held, outClosed, cancelled, taken>>

CloseOut ==
    /\ reader = "closing_out"
    /\ outClosed' = TRUE
    /\ reader' = "exited"
    /\ UNCHANGED <<server, read, acc, held, serrs, cancelled, taken>>

Reader == ReadLine \/ ReadBlank \/ SendCancelled \/ ReadCancelled \/ ReadEnd \/ PushError
             \/ CloseErrs \/ CloseOut

-----------------------------------------------------------------------------
(* The consumer, and the context.                                           *)

\* The send completes: the consumer has the frame, the reader resets and goes on.
Take ==
    /\ reader \in {"sending", "flushing"}
    /\ taken' = Append(taken, held)
    /\ held' = NoFrame
    /\ acc' = Reset(acc)
    /\ reader' = IF reader = "sending" THEN "reading" ELSE "failing"
    /\ UNCHANGED <<server, read, serrs, outClosed, cancelled>>

TakeErr ==
    /\ serrs.val # NoErr
    /\ serrs' = [serrs EXCEPT !.val = NoErr]
    /\ UNCHANGED <<server, read, reader, acc, held, outClosed, cancelled, taken>>

Cancel ==
    /\ ~cancelled
    /\ cancelled' = TRUE
    /\ UNCHANGED <<server, read, reader, acc, channels, taken>>

-----------------------------------------------------------------------------
(* The server (outside src/) and the connection.                            *)

Connected == reader \in {"reading", "sending"} /\ wireEnd = "open"

BeginFrame ==
    /\ Connected /\ begun < MaxFrames
    /\ begun > 0 => sent = Size(layouts[begun])
    /\ \E layout \in Layouts : layouts' = Append(layouts, layout)
    /\ sent' = 0
    /\ UNCHANGED <<cut, wireEnd, read, reader, acc, channels, cancelled, taken>>

WriteLine ==
    /\ Connected /\ begun > 0 /\ sent < Size(layouts[begun])
    /\ sent' = sent + 1
    /\ UNCHANGED <<layouts, cut, wireEnd, read, reader, acc, channels, cancelled, taken>>

\* The reader has read no more than k lines of frame n.
Unread(n, k) ==
    \/ frame < n
    \/ frame = n /\ pos <= k
    \/ frame = n + 1 /\ pos = 0 /\ k = Size(layouts[n])

\* The body ends anywhere behind what the reader has read: between two lines or within one.  A line
\* that has only lost its line break is read like any other, and counts as written.
BodyEnds ==
    /\ Connected
    /\ wireEnd' \in {"eof", "broken"}
    /\ \/ begun = 0 /\ UNCHANGED <<layouts, sent, cut>>
       \/ \E n \in 1..begun : \E k \in 0..Lines(n) :
             /\ Unread(n, k)
             /\ layouts' = SubSeq(layouts, 1, n)
             /\ \/ sent' = k /\ cut' = "none"
                \/ k + 1 < Size(layouts[n]) /\ sent' = k + 1 /\ cut' \in {"value", "name"}
    /\ UNCHANGED <<read, reader, acc, channels, cancelled, taken>>

Environment == Take \/ TakeErr \/ Cancel \/ BeginFrame \/ WriteLine \/ BodyEnds

FramingNext == Open \/ Reader \/ Environment

FramingSpec == FramingInit /\ [][FramingNext]_framing

\* The goroutine is scheduled, and the consumer receives whatever it is offered.
FairSpec == FramingSpec /\ WF_framing(Reader) /\ WF_framing(Take)

-----------------------------------------------------------------------------
(* Properties.                                                              *)

Frames == [event : Values, id : Values, data : Seq(Values)]

FramesOK ==
    /\ layouts \in Seq(Layouts) /\ begun <= MaxFrames
    /\ sent \in Nat /\ (begun > 0 => sent <= Size(layouts[begun]))
    /\ cut \in {"none", "value", "name"}
    /\ wireEnd \in {"open", "eof", "broken"}
    /\ frame \in 1..begun + 1 /\ pos \in Nat
    /\ frame <= begun => pos <= Lines(frame) /\ pos < Size(layouts[frame])
    /\ reader \in {"none", "reading", "sending", "flushing", "failing", "closing_errs",
                   "closing_out", "exited"}
    /\ acc \in Frames
    /\ held # NoFrame => held \in Frames /\ held.data # <<>>
    /\ serrs \in [val : {NoErr, "http", "cancelled", "eof", "broken"}, closed : BOOLEAN]
    /\ outClosed \in BOOLEAN /\ cancelled \in BOOLEAN
    /\ taken \in Seq(Frames)

\* The frames as the server means them, and what a cut may leave of one: its own event and id, and
\* data that stops short.
Whole(layout, n) ==
    [event |-> IF "event" \in ToSet(layout.head) THEN n ELSE Empty,
     id    |-> IF "id" \in ToSet(layout.head) THEN n ELSE Empty,
     data  |-> [i \in 1..layout.data |-> n]]
WithData == {layout \in Layouts : layout.data > 0}
WholeFrames == {Whole(layout, n) : layout \in WithData, n \in Numbers}
ShortData(data) ==
    {SubSeq(data, 1, k) : k \in 1..Len(data) - 1}
        \cup {Append(SubSeq(data, 1, k), Cut) : k \in 0..Len(data) - 1}
CutFrames == UNION {{[f EXCEPT !.data = d] : d \in ShortData(f.data)} : f \in WholeFrames}

\* What the first k lines of frame n amount to; a cut line leaves what the reader makes of it.
DataLines(layout, k) ==
    IF k <= Len(layout.head) THEN 0
    ELSE IF k < Size(layout) THEN k - Len(layout.head) ELSE layout.data
UpTo(layout, n, k) ==
    LET named(field) == IF \E j \in 1..k : FieldAt(layout, j) = field THEN n ELSE Empty
    IN  [event |-> named("event"), id |-> named("id"),
         data |-> [i \in 1..DataLines(layout, k) |-> n]]
Amounts(n, k) ==
    IF IsCut(n, k) THEN Accumulated(UpTo(layouts[n], n, k - 1), Field(n, k), Value(n, k))
                   ELSE UpTo(layouts[n], n, k)
Written(n) == Amounts(n, Lines(n))

\* The last frame is on its way when its data is complete, or when what arrived of it is all there
\* will be; a body that breaks takes it along unless its blank line has arrived.
LastDue ==
    CASE wireEnd = "open"   -> sent + 1 >= Size(layouts[begun])
      [] wireEnd = "eof"    -> Written(begun).data # <<>>
      [] wireEnd = "broken" -> sent = Size(layouts[begun])
Awaited == {n \in frame..begun : layouts[n].data > 0 /\ (n < begun \/ LastDue)}

\* The frames that are still to be read.
Ahead == LET at == InOrder(Awaited) IN [i \in DOMAIN at |-> Written(at[i])]

\* The reader in the terms of SSEStream, where the flush is a send like any other and the error is
\* pushed in the step that reads the end.
AbstractReader ==
    CASE reader = "flushing" -> "sending"
      [] reader = "failing"  -> "reading"
      [] OTHER               -> reader

Stream == INSTANCE SSEStream WITH wire <- Ahead, reader <- AbstractReader

\* Whatever the lines are cut into, each frame the server completed is offered once, in order, with
\* its own event, id and data - nothing of a frame that was dropped, of a comment or of the frame
\* before - and what a cut leaves has data that does not decode, so that no receiver takes its id
\* (sse.go 194-254).
IsStream == Stream!StreamInit /\ [][Stream!StreamNext(WholeFrames, CutFrames)]_(Stream!stream)

\* A frame whose data arrived reaches a consumer that goes on receiving, also when the body ends
\* cleanly before the blank line (sse.go 249-254), unless the consumer cancels or the end takes it.
Arrived(n) ==
    /\ n <= begun /\ layouts[n].data > 0 /\ Written(n) = Whole(layouts[n], n)
    /\ wireEnd = "eof" \/ Lines(n) = Size(layouts[n])
Arrives == \A n \in Numbers : Arrived(n) ~> (~Arrived(n) \/ Contains(taken, Written(n)) \/ cancelled)

=============================================================================

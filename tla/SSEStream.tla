------------------------------ MODULE SSEStream ------------------------------
(***************************************************************************)
(* One server-sent-events subscription of package transport, frame by      *)
(* frame: openStream, the reader goroutine readStream, and the two         *)
(* channels it hands to its consumer.  `out` is unbuffered, so a frame is  *)
(* passed in a rendezvous; `errs` holds one terminal error.                *)
(*                                                                         *)
(* The modules that consume a stream (Finalization, WatchEvents) extend    *)
(* this one: they add the consumer's receives and the server's sends.      *)
(***************************************************************************)
EXTENDS Naturals, Sequences

(* A definition named X_Y is a deliberately wrong form of X that no action uses: the      *)
(* property that guards X is checked to fail when X is replaced by it.                    *)
CONSTANTS
    NoFrame,   \* nothing on offer
    NoErr      \* a nil error, or an empty error buffer

VARIABLES
    wire,       \* frames the server has written and the reader has not read
    wireEnd,    \* what the reader finds after them: "open", "eof" or "broken"
    reader,     \* the reader goroutine
    held,       \* the frame it is blocked sending on out
    serrs,      \* the errs channel: its buffered error and whether it is closed
    outClosed,  \* out is closed
    cancelled   \* the context the stream was opened with is done

stream == <<wire, wireEnd, reader, held, serrs, outClosed, cancelled>>
channels == <<held, serrs, outClosed>>

ReaderStates == {"none", "reading", "sending", "closing_errs", "closing_out", "exited"}
Running == reader \in {"reading", "sending", "closing_errs", "closing_out"}

StreamErrors == {"http", "gone", "cancelled", "eof", "broken"}
ASSUME ErrAssumption == NoErr \notin StreamErrors

StreamTypeOK(frames) ==
    /\ wire \in Seq(frames)
    /\ wireEnd \in {"open", "eof", "broken"}
    /\ reader \in ReaderStates
    /\ held \in frames \cup {NoFrame}
    /\ serrs \in [val : StreamErrors \cup {NoErr}, closed : BOOLEAN]
    /\ outClosed \in BOOLEAN
    /\ cancelled \in BOOLEAN

StreamInit ==
    /\ wire = <<>> /\ wireEnd = "open"
    /\ reader = "none" /\ held = NoFrame
    /\ serrs = [val |-> NoErr, closed |-> FALSE]
    /\ outClosed = FALSE
    /\ cancelled = FALSE

-----------------------------------------------------------------------------
(* openStream: the request is synchronous; a failure returns closed channels and starts no *)
(* goroutine.                                                                              *)

Opened(frames) ==
    /\ wire' = frames /\ wireEnd' = "open"
    /\ reader' = "reading" /\ held' = NoFrame
    /\ serrs' = [val |-> NoErr, closed |-> FALSE]
    /\ outClosed' = FALSE

OpenFailed(err) ==
    /\ wire' = <<>> /\ wireEnd' = "open"
    /\ reader' = "none" /\ held' = NoFrame
    /\ serrs' = [val |-> err, closed |-> TRUE]
    /\ outClosed' = TRUE

-----------------------------------------------------------------------------
(* readStream.                                                                             *)

ReadFrame_Dropping ==
    /\ reader = "reading"
    /\ wire # <<>>
    /\ wire' = Tail(wire)
    /\ \/ held' = Head(wire) /\ reader' = "sending"
       \/ UNCHANGED <<held, reader>>
    /\ UNCHANGED <<wireEnd, serrs, outClosed, cancelled>>
ReadFrame_Twice ==
    /\ reader = "reading"
    /\ wire # <<>>
    /\ held' = Head(wire)
    /\ wire' \in {wire, Tail(wire)}
    /\ reader' = "sending"
    /\ UNCHANGED <<wireEnd, serrs, outClosed, cancelled>>
ReadFrame ==
    /\ reader = "reading"
    /\ wire # <<>>
    /\ held' = Head(wire)
    /\ wire' = Tail(wire)
    /\ reader' = "sending"
    /\ UNCHANGED <<wireEnd, serrs, outClosed, cancelled>>

\* dispatch gives up its frame when the context is done.
SendCancelled ==
    /\ reader = "sending"
    /\ cancelled
    /\ held' = NoFrame
    /\ reader' = "closing_errs"
    /\ UNCHANGED <<wire, wireEnd, serrs, outClosed, cancelled>>

\* The body ends or breaks, or is cut by a cancellation, which is a clean end without an error.  A
\* cancellation that comes after the reader looked for one does not keep the error back.
ReadEnds ==
    /\ reader = "reading"
    /\ \/ cancelled /\ UNCHANGED serrs
       \/ wire = <<>> /\ wireEnd # "open" /\ serrs' = [serrs EXCEPT !.val = wireEnd]
    /\ reader' = "closing_errs"
    /\ UNCHANGED <<wire, wireEnd, held, outClosed, cancelled>>

\* The deferred closes, last registered first.
CloseErrs_Missing ==
    /\ reader = "closing_errs"
    /\ reader' = "closing_out"
    /\ UNCHANGED <<wire, wireEnd, held, serrs, outClosed, cancelled>>
CloseErrs ==
    /\ reader = "closing_errs"
    /\ serrs' = [serrs EXCEPT !.closed = TRUE]
    /\ reader' = "closing_out"
    /\ UNCHANGED <<wire, wireEnd, held, outClosed, cancelled>>

CloseOut ==
    /\ reader = "closing_out"
    /\ outClosed' = TRUE
    /\ reader' = "exited"
    /\ UNCHANGED <<wire, wireEnd, held, serrs, cancelled>>

ReaderStep == ReadFrame \/ SendCancelled \/ ReadEnds \/ CloseErrs \/ CloseOut

-----------------------------------------------------------------------------
(* The other ends of the stream.  The consumer's next step decides `cancelled`.             *)

\* The consumer takes the frame the reader offers.
TakeFrame ==
    /\ reader = "sending"
    /\ held' = NoFrame
    /\ reader' = "reading"
    /\ UNCHANGED <<wire, wireEnd, serrs, outClosed>>

\* The consumer receives from errs: the buffered error, or nil once errs is closed.
ErrsReady == serrs.val # NoErr \/ serrs.closed
TakeErr ==
    /\ ErrsReady
    /\ serrs' = [serrs EXCEPT !.val = NoErr]
    /\ UNCHANGED <<wire, wireEnd, reader, held, outClosed>>

\* The server has a connection to write to.
Connected == reader \in {"reading", "sending"} /\ wireEnd = "open"

ServerWrites(f) ==
    /\ Connected
    /\ wire' = Append(wire, f)
    /\ UNCHANGED <<wireEnd, reader, channels, cancelled>>

\* The connection ends, cleanly or not, and may take frames already sent with it.  The frame that a
\* clean end cuts short is flushed by the reader as it is, one of `cuts`: it carries data that does
\* not decode.  Module Framing shows that the line machine of readStream does no more than this.
ServerEnds(cuts) ==
    /\ Connected
    /\ wireEnd' \in {"eof", "broken"}
    /\ \E n \in 0..Len(wire) :
          \/ wire' = SubSeq(wire, 1, n)
          \/ wireEnd' = "eof" /\ \E c \in cuts : wire' = Append(SubSeq(wire, 1, n), c)
    /\ UNCHANGED <<reader, channels, cancelled>>

-----------------------------------------------------------------------------
(* One stream by itself, whoever consumes it.                                *)

StreamOpens ==
    /\ reader = "none" /\ ~outClosed
    /\ Opened(<<>>) \/ OpenFailed("http") \/ (cancelled /\ OpenFailed("cancelled"))
    /\ UNCHANGED cancelled

StreamCancelled ==
    /\ ~cancelled /\ cancelled' = TRUE
    /\ UNCHANGED <<wire, wireEnd, reader, channels>>

StreamNext(frames, cuts) ==
    \/ StreamOpens
    \/ ReaderStep
    \/ (TakeFrame \/ TakeErr) /\ UNCHANGED cancelled
    \/ StreamCancelled
    \/ \E f \in frames : ServerWrites(f)
    \/ ServerEnds(cuts)

=============================================================================

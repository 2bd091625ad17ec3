------------------------------ MODULE EventFeed ------------------------------
(***************************************************************************)
(* What a caller of WatchEvents is promised when every frame carries its   *)
(* id, however often the connection underneath is lost: one feed of the    *)
(* indexer's decodable events, at least once each and without a gap, from  *)
(* its seed on (or from its first event if it has none), until it ends for *)
(* good.  The feed may step back and repeat events the caller has had, but *)
(* never jumps ahead of the next one.                                      *)
(***************************************************************************)
EXTENDS Naturals, Sequences

CONSTANTS MaxEvent, Undecodable, NoID

VARIABLES
    afterID,   \* the seed, or NoID
    got,       \* the events delivered
    end        \* why the watch ended, "no" while it runs

vars == <<afterID, got, end>>

Decodable == (1..MaxEvent) \ Undecodable

\* Event e is the next one after a, with no decodable event between them.
NextAfter(a, e) == e > a /\ \A d \in Decodable : ~(a < d /\ d < e)

Init == afterID \in {NoID} \cup 0..MaxEvent /\ got = <<>> /\ end = "no"

\* Event e was delivered before and the feed steps back to it.
Repeats(e) == \E i \in 1..Len(got) : got[i] = e /\ e <= got[Len(got)]

Deliver ==
    /\ end = "no"
    /\ \E e \in Decodable :
          /\ got # <<>> => NextAfter(got[Len(got)], e) \/ Repeats(e)
          /\ got = <<>> /\ afterID # NoID => NextAfter(afterID, e)
          /\ got' = Append(got, e)
    /\ UNCHANGED <<afterID, end>>

End ==
    /\ end = "no"
    /\ end' \in {"cancelled", "gone"}
    /\ UNCHANGED <<afterID, got>>

Next == Deliver \/ End

Spec == Init /\ [][Next]_vars

=============================================================================

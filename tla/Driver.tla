------------------------------- MODULE Driver -------------------------------
(***************************************************************************)
(* One call of the two-phase transaction driver of package ootle:          *)
(* SendPublicTransfer, SendInstructions (plain or faucet claim),           *)
(* SendStealthTransfer and PrepareCosign.  The call builds a partial       *)
(* transaction in the native core, feeds it fetched substates round by     *)
(* round until the core calls it resolved, seals it and posts it.          *)
(*                                                                         *)
(* What is kept: every early return and its order, the ownership of the    *)
(* native handle (the Go variable, the cffi wrapper it points to, the      *)
(* native allocation), the round cap, and the choice of endpoint.  What is *)
(* abstracted: substate ids become dependency levels (below), and the wait *)
(* after POST /transactions is one answer (module Finalization opens it).  *)
(*                                                                         *)
(* Dependency levels.  A partial lacks `need` levels of substates.  Ids    *)
(* naming level n are learnt only once level n + 1 has been applied, as a  *)
(* vault id is learnt from its component; the want list names the first.   *)
(* Level 0 stands for an empty id list.                                    *)
(***************************************************************************)
EXTENDS Naturals

(* A definition named X_Y is a deliberately wrong form of X that no action uses: the      *)
(* property that guards X is checked to fail when X is replaced by it.                    *)
CONSTANTS
    Kinds,                \* entry points this instance considers
    Addresses,            \* addresses the core's allocator may return
    Nil,                  \* a nil *Handle
    Spent,                \* a non-nil *Handle whose ptr has been set to nil
    MaxResolutionRounds,  \* maxResolutionRounds, 3 in the code
    MaxDepth              \* deepest dependency chain considered

AllKinds == {"public", "generic", "faucet", "stealth", "cosign"}

ASSUME KindsAssumption == Kinds \subseteq AllKinds
ASSUME HandleAssumption == Nil \notin Addresses /\ Spent \notin Addresses /\ Nil # Spent
ASSUME RoundsAssumption == MaxResolutionRounds \in Nat \ {0} /\ MaxDepth \in Nat \ {0}

VARIABLES
    call,      \* the caller's intent: what the early returns and the routing read
    core,      \* how the native core answers: chain length, and whether it sends fetch_ids
    pc,        \* next statement of the driver
    handle,    \* the driver's (or the sealer's) handle variable
    live,      \* addresses of partial transactions the core has allocated and not freed
    fault,     \* a native call was passed an address that is not allocated
    need,      \* levels the partial still lacks
    ask,       \* the level `ids` names
    got,       \* the level the last fetch returned in full, 0 if none
    partial,   \* some fetch came back without all the ids asked for
    round,     \* resolution rounds applied
    post,      \* what was posted, if anything
    outcome    \* what the call returns

vars == <<call, core, pc, handle, live, fault, need, ask, got, partial, round, post, outcome>>
resolution == <<need, ask, got, partial, round>>
memory == <<handle, live, fault>>

NoPost == [endpoint |-> "none", dryRunFlag |-> FALSE]
Posts == [endpoint : {"none", "transactions", "dry-run"}, dryRunFlag : BOOLEAN]

\* The fields of an intent (and of the client) that decide a branch of the driver.
Calls == [kind : Kinds, dryRun : BOOLEAN, network : BOOLEAN,
          inputs : BOOLEAN, utxoIds : BOOLEAN]

\* depth: length of the dependency chain; wants: what the first level of the want list is
\* made of; fetchIds: the core is recent enough to send fetch_ids with NeedMore.
Cores == [depth : 1..MaxDepth, wants : {"address", "stealth_utxo"}, fetchIds : BOOLEAN]

Steps == {"check", "settle", "build", "fetch", "apply", "seal", "route", "answer",
          "unwind", "done"}

Outcomes == {"none", "VALIDATION", "TRANSPORT", "CORE", "RESOLUTION", "panic",
             "prepared", "result"}

Init ==
    /\ call \in Calls
    /\ core \in Cores
    /\ core.wants = "stealth_utxo" => call.kind = "stealth"
    /\ pc = "check"
    /\ handle = Nil
    /\ live = {}
    /\ fault = FALSE
    /\ need = 0 /\ ask = 0 /\ got = 0 /\ partial = FALSE /\ round = 0
    /\ post = NoPost
    /\ outcome = "none"

-----------------------------------------------------------------------------
(* Before the build: nothing is owned yet, a return frees nothing.          *)

Return(o) == pc' = "done" /\ outcome' = o
\* A return, or a panic, once the deferred guard is registered.
Unwinding_NoGuard(o) == Return(o)
Unwinding(o) == pc' = "unwind" /\ outcome' = o
Goto(step) == pc' = step /\ UNCHANGED outcome

\* collectFetchIDs: the level a want list names; a stealth_utxo want carries no id.
SeedLevel == IF core.wants = "stealth_utxo" THEN 0 ELSE core.depth

\* The stealth path has no Inputs check (it has no such field to misuse).
Acceptable == call.network /\ (call.kind # "stealth" => ~call.inputs)

Check ==
    /\ pc = "check"
    /\ IF Acceptable THEN Goto("settle") ELSE Return("VALIDATION")
    /\ UNCHANGED <<call, core, resolution, memory, post>>

\* settleMaxEpoch (module Epoch), then the marshalling and, on the stealth path,
\* the check that every input names its UTXO.
Settle ==
    /\ pc = "settle"
    /\ \/ IF call.kind = "stealth" /\ ~call.utxoIds
          THEN Return("VALIDATION") ELSE Goto("build")
       \/ Return("VALIDATION")
       \/ Return("TRANSPORT")
    /\ UNCHANGED <<call, core, resolution, memory, post>>

BuildFails ==
    /\ pc = "build"
    /\ Return("CORE")
    /\ UNCHANGED <<call, core, resolution, memory, post>>

\* A fresh native partial; `defer FreeHandle(handle)` is registered.
Build ==
    /\ pc = "build"
    /\ \E a \in Addresses \ live : handle' = a /\ live' = live \cup {a}
    /\ need' = core.depth
    /\ ask' = SeedLevel
    /\ \/ Goto("fetch")
       \/ Unwinding("CORE")       \* the want list cannot be decoded
    /\ UNCHANGED <<call, core, fault, got, partial, round, post>>

-----------------------------------------------------------------------------
(* The resolution loop.                                                     *)

Fetch ==
    /\ pc = "fetch"
    /\ got' \in {ask, 0}
    /\ partial' = (partial \/ got' # ask)
    /\ Goto("apply")
    /\ UNCHANGED <<call, core, memory, need, ask, round, post>>

\* Only the stealth loop skips the transport when there is nothing to fetch.
CallsTransport == call.kind = "stealth" => ask # 0

FetchFails ==
    /\ pc = "fetch"
    /\ CallsTransport
    /\ \/ Unwinding("TRANSPORT")
       \/ Unwinding("panic")      \* a custom Transport may panic; the defer still runs
    /\ UNCHANGED <<call, core, resolution, memory, post>>

\* A native call that consumes its handle: the address must be allocated.
Consume(a) == fault' = (fault \/ a \notin live)

\* What the handle variable holds once a consuming call has taken its partial.
AfterConsume_Kept == handle
AfterConsume == Nil

\* The core refuses what it was fed: the handle is consumed all the same.
ApplyFails ==
    /\ pc = "apply"
    /\ handle \in Addresses
    /\ Consume(handle)
    /\ live' = live \ {handle}
    /\ handle' = AfterConsume
    /\ Unwinding("CORE")
    /\ UNCHANGED <<call, core, resolution, post>>

\* The partial is replaced by a successor, which may reuse the freed address.
Replace ==
    /\ handle \in Addresses
    /\ Consume(handle)
    /\ \E b \in Addresses \ (live \ {handle}) :
          handle' = b /\ live' = (live \ {handle}) \cup {b}

StillNeeded == IF got = need THEN need - 1 ELSE need

\* fetch_ids names the next level; an older core leaves only the want list.
NextAsk_Stale == ask
NextAsk == IF core.fetchIds THEN StillNeeded ELSE SeedLevel

AtCap_Never == FALSE
AtCap == round + 1 >= MaxResolutionRounds

NextRound_Same == round
NextRound == round + 1

GiveUp_SealAnyway == Goto("seal")
GiveUp == Unwinding("RESOLUTION")

Resolved ==
    /\ pc = "apply"
    /\ StillNeeded = 0
    /\ Replace
    /\ need' = 0
    /\ round' = NextRound
    /\ IF call.kind = "cosign" THEN Return("prepared") ELSE Goto("seal")
    /\ UNCHANGED <<call, core, ask, got, partial, post>>

NeedMore ==
    /\ pc = "apply"
    /\ StillNeeded > 0
    /\ Replace
    /\ need' = StillNeeded
    /\ ask' = NextAsk
    /\ round' = NextRound
    /\ IF AtCap THEN GiveUp ELSE Goto("fetch")
    /\ UNCHANGED <<call, core, got, partial, post>>

\* The core's answer cannot be decoded: the successor is owned and must be freed.
UnreadableResolution ==
    /\ pc = "apply"
    /\ Replace
    /\ need' = StillNeeded
    /\ round' = NextRound
    /\ Unwinding("CORE")
    /\ UNCHANGED <<call, core, ask, got, partial, post>>

-----------------------------------------------------------------------------
(* Seal, route, post.                                                       *)

\* The seal consumes the handle whether or not it succeeds.
Seal ==
    /\ pc = "seal"
    /\ handle \in Addresses
    /\ Consume(handle)
    /\ live' = live \ {handle}
    /\ handle' = AfterConsume
    /\ Goto("route") \/ Unwinding("CORE")
    /\ UNCHANGED <<call, core, resolution, post>>

\* The dry_run field of the sealed envelope: FaucetBuilder has no way to set its claim's.
EnvelopeFlag == call.kind # "faucet" /\ call.dryRun

\* sendStealthTransfer does not read intent.DryRun.
ToDryRunEndpoint == call.kind # "stealth" /\ call.dryRun

Endpoint == IF ToDryRunEndpoint THEN "dry-run" ELSE "transactions"

Post ==
    /\ pc = "route"
    /\ post' = [endpoint |-> Endpoint, dryRunFlag |-> EnvelopeFlag]
    /\ Goto("answer")
    /\ UNCHANGED <<call, core, resolution, memory>>

\* The encoded transaction is not hex: nothing is posted.
Unencodable ==
    /\ pc = "route"
    /\ Unwinding("CORE")
    /\ UNCHANGED <<call, core, resolution, memory, post>>

Answer ==
    /\ pc = "answer"
    /\ \E o \in {"result", "TRANSPORT", "CORE", "panic"} : Unwinding(o)
    /\ UNCHANGED <<call, core, resolution, memory, post>>

\* The deferred guard, run by every return and by a panic: FreeHandle is a no-op on a
\* nil handle, and otherwise frees and clears the pointer.
Unwind ==
    /\ pc = "unwind"
    /\ pc' = "done"
    /\ IF handle \in Addresses
       THEN /\ fault' = (fault \/ handle \notin live)
            /\ live' = live \ {handle}
            /\ handle' = Spent
       ELSE UNCHANGED memory
    /\ UNCHANGED <<call, core, resolution, post, outcome>>

-----------------------------------------------------------------------------

Resolve == Fetch \/ FetchFails \/ ApplyFails \/ Resolved \/ NeedMore \/ UnreadableResolution

Step == Check \/ Settle \/ BuildFails \/ Build \/ Resolve \/ Seal \/ Post \/ Unencodable
           \/ Answer \/ Unwind

Terminated == pc = "done" /\ UNCHANGED vars

Next == Step \/ Terminated

Spec == Init /\ [][Next]_vars

\* Each transport request and each native call eventually returns: the HTTP client has a
\* timeout, the core computes.  The code between them is sequential.
FairSpec == Spec /\ WF_vars(Step)

-----------------------------------------------------------------------------
(* Properties.                                                              *)

TypeOK ==
    /\ call \in Calls
    /\ core \in Cores
    /\ pc \in Steps
    /\ handle \in Addresses \cup {Nil, Spent}
    /\ live \in SUBSET Addresses
    /\ fault \in BOOLEAN
    /\ need \in 0..MaxDepth
    /\ ask \in 0..MaxDepth
    /\ got \in 0..MaxDepth
    /\ partial \in BOOLEAN
    /\ round \in 0..MaxResolutionRounds
    /\ post \in Posts
    /\ outcome \in Outcomes

\* No native call is ever passed memory that the core has already freed, and the handle
\* variable never points at such memory: a consuming call that fails, a seal that fails and
\* the deferred guard cannot free one partial twice, although the allocator may hand the
\* same address to the next partial (driver.go 149-154, cffi.go 130-136, 238-240).
NoUseAfterFree ==
    /\ ~fault
    /\ handle \in Addresses => handle \in live

\* When the call has returned, by whichever early return or panic, the core holds no
\* partial transaction of it, except the one a prepared co-sign session owns
\* ("The opaque core handle is freed on every path (success, error, panic)").
NothingLeaked ==
    pc = "done" => live = (IF outcome = "prepared" THEN {handle} ELSE {})

\* The inductive invariant behind the three safety properties: at every statement of the
\* driver, which partial is allocated and who points at it, and what is known of it.
Ownership ==
    /\ ~fault
    /\ pc \in {"check", "settle", "build", "route", "answer"} => handle = Nil /\ live = {}
    /\ pc \in {"fetch", "apply", "seal"} => handle \in Addresses /\ live = {handle}
    /\ pc = "unwind" => live = {handle} \cap Addresses
    /\ pc = "done" => IF outcome = "prepared" THEN handle \in Addresses /\ live = {handle}
                                             ELSE handle \notin Addresses /\ live = {}
    /\ outcome = "prepared" => pc = "done"

Progress ==
    /\ pc \in {"check", "settle", "build"} => round = 0
    /\ pc \in {"fetch", "apply"} => round < MaxResolutionRounds /\ need > 0
    /\ pc \in {"seal", "route", "answer"} \/ outcome = "prepared" => need = 0

IInv == TypeOK /\ Ownership /\ Progress

\* Only a partial the core called resolved is sealed, posted or handed to a co-signer: running
\* out of rounds never falls through to the seal.
OnlyResolvedSealed ==
    pc \in {"seal", "route", "answer"} \/ outcome = "prepared" => need = 0

\* The round a list of stealth_utxo wants spends fetching nothing.
Wasted == IF core.wants = "stealth_utxo" THEN 1 ELSE 0

\* The round cap refuses no transaction it should accept: with a core that names what to fetch
\* next and an indexer that returns it, the call gives up only if the chain is longer than the
\* cap, counting the wasted round.
GivesUpOnlyBeyondCap ==
    outcome = "RESOLUTION" /\ core.fetchIds /\ ~partial =>
        core.depth + Wasted > MaxResolutionRounds

\* Why it holds: with nothing missing, each round but the wasted one removes one level.
Converging ==
    /\ outcome = "RESOLUTION" => pc \in {"unwind", "done"}
    /\ core.fetchIds /\ ~partial =>
          /\ pc \in {"fetch", "apply"} /\ round = 0 => need = core.depth /\ ask = SeedLevel
          /\ pc \in {"fetch", "apply"} /\ round > 0 =>
                ask = need /\ need + round = core.depth + Wasted
          /\ pc = "apply" => got = ask
          /\ outcome = "RESOLUTION" => core.depth + Wasted > MaxResolutionRounds

\* A dry-run intent of any kind ends at the dry-run endpoint - /transactions serves "every real
\* (non-dry-run) submission" (finalization.go:54) - with "the envelope's dry_run flag" set
\* (transport.go:129).
DryRunHonoured ==
    call.dryRun /\ post # NoPost => post = [endpoint |-> "dry-run", dryRunFlag |-> TRUE]

\* The call returns: an indexer or a core that keeps asking for more cannot keep it looping.
Returns == <>(pc = "done")

=============================================================================

# ootle-go: a verification development

TLA+ models, TLC runs and TLAPS proofs for the Go SDK of the Tari Ootle (`src/`). The SDK builds
transactions in a native core behind cgo, resolves their inputs against an indexer's REST API,
submits them, waits for finality over a server-sent-events broadcast or by polling, and offers a
reconnecting event watch, balance reads, co-signing and fluent builders. The models follow the Go
source; what lies outside it - the native core, the indexer, the network, the Go runtime, the
caller - is an environment that may do anything the source has to cope with.

- [1. The system](#1-the-system)
- [2. Modules](#2-modules)
- [3. Runs](#3-runs)
- [4. Disagreements found](#4-disagreements-found)
- [5. Fairness](#5-fairness)
- [6. Proofs](#6-proofs)
- [7. What is not modelled](#7-what-is-not-modelled)
- [8. Plan](#8-plan)

To run one: `tlc -config Driver.cfg Driver`; to check its proofs: `tlapm DriverProofs.tla`.
`PROJECT.json` lists the components, the runs, the mutants, the source lines of every definition,
the hazards and the theorems.

## 1. The system

A caller's goroutine enters a `Client` method and runs it to the end. Only two things run beside it:
the reader goroutine under each open SSE stream, and the goroutine of `WatchEvents`. Everything
else that is concurrent is outside: the network, the indexer, the context's deadline.

| Component | State it keeps | Operations | What is hard | Correct means |
|---|---|---|---|---|
| Two-phase driver (`ootle/driver.go`, `driver_generic.go`, `stealth.go`) | the native handle, the ids to fetch, the round | `SendPublicTransfer`, `SendInstructions`, the faucet claim, `SendStealthTransfer`, `PrepareCosign` | every native call consumes the handle, also when it fails, and the allocator reuses addresses; a panic unwinds | no use after free, no leak, bounded rounds, only resolved transactions are sealed, the right endpoint |
| Native boundary (`internal/cffi`) | `Handle.ptr`, `abiOnce`, `abiErr`; on the C heap the strings of the arguments, the results and the handles | some thirty wrappers: build, apply, seal, borrow, free, and the stateless ones | ownership crosses the language boundary; two handle types share one heap; first calls race for the version check | whatever is allocated has one owner; a library of another ABI is never entered; a consumed handle is spent |
| Finalization wait (`ootle/finalization.go`, `driver.go` `waitResult`) | subscription, gate, timer, poll | `submitAndWait`, `SubmitSealed` | five-way select; the broadcast has no replay and may skip a subscriber; the answer to the submit may be lost | submitted at most once, returns the network's verdict, never misses a frame on a healthy stream, releases the stream, returns |
| SSE stream (`transport/sse.go`) | body, the frame being accumulated, the frame on offer, terminal error | `openStream`, `readStream` with its line loop | unbuffered send to a consumer that may be gone; order of the deferred closes; a body that ends within a frame or a line | frames as they were written, in order; the reader ends, the error is there when `out` closes |
| Event watch (`ootle/events.go`) | cursor, backoff, one buffered error | `WatchEvents` | reconnects, pruned log (410), a caller who reads one channel or none | no event skipped, repeats only behind a reconnect, terminal error last, no leak |
| Co-sign hand-off (`ootle/cosign.go`) | `CosignSealer.handle`, `mainSigner` | `UnsignedRecord`, `SetMainSigner`, `SealWithAuth`, `Close`, `AddSignature` | two parties, repeated and late records, a main signer and a seal key that both sides must agree on, calls after the end | one owner of the partial, orderly hand-offs that verify, one transaction |
| Validity window (`ootle/epoch.go`) | none | `settleMaxEpoch` | lagging indexer, unsigned overflow | never empty, never shorter than promised, never over the network's cap |
| Builders and intents (`transaction_builder.go`, `transfer_builder.go`, `stealth_builder.go`, `FaucetBuilder` in `instructions.go`) | lists, totals, a claim pointer | setters, appends, `Intent`, `AsDryRun` | slices and pointers shared between builder, intents and copies | an intent stays what it was when handed out |
| Balance read (`balances.go`, `substate.go`) | ids, collected substates | `AccountBalances`, `AccountBalance` | chunking, omissions, a ledger that moves | exact or refused, in order |
| Indexer client (`transport/transport.go`) | none | `Submit`, `SubmitDryRun`, `GetResult`, `FetchSubstates`, `CurrentEpoch` | lost answers, map-valued responses | as its callers see it |

Interactions: the driver calls the validity window before the build, the native boundary in every
phase, the indexer client in every round, and ends in the finalization wait; that and the event
watch each consume an SSE stream; a prepared co-sign session takes over the driver's handle;
builders hand their intents to the driver.

## 2. Modules

| Module | Models | Composition |
|---|---|---|
| `Driver` | the five entry points from the first check to the deferred guard | the wait after the submit is one answer |
| `Finality` | abstract: handed to the network at most once; the verdict or an error is returned, once | implemented by `Finalization` |
| `SSEStream` | `openStream`, `readStream` and the two channels, frame by frame | extended by its consumers, implemented by `Framing` |
| `Framing`, `MCFraming` | the same reader line by line: accumulators, dispatch, flush | instance of `SSEStream`, extends `InOrder` |
| `Finalization` | `submitAndWait`, `awaitFinalized`, `waitResult`, context, timer, network, indexer | extends `SSEStream`, instance of `Finality` |
| `EventFeed` | abstract: a feed that delivers at least once and skips nothing, until it ends | implemented by `WatchEvents` |
| `WatchEvents` | the watch goroutine, its reader, the caller, the indexer's log | extends `SSEStream`, instance of `EventFeed` |
| `Epoch` | `settleMaxEpoch`, then the network's sequencing rule | |
| `Boundary`, `MCBoundary` | the wrappers of package cffi, the C heap, the version check, the core's handles | below `Driver` and `Cosign` |
| `Cosign` | the sealer's calls in any order, the co-signers | continues `Driver`'s outcome "prepared" |
| `Balances`, `MCBalances` | `AccountBalances` with the chunked fetch, the moving ledger | extends `InOrder` |
| `Builders` | the four builders, intents, dry-run copies, repeated sends | `settleMaxEpoch` as in `Epoch` |
| `InOrder` | a set of positions listed in ascending order, as a loop over a request's ids lists those it finds | |
| `DriverProofs`, `EpochProofs`, `FinalizationProofs`, `WatchEventsProofs`, `CosignProofs`, `BoundaryProofs`, `BuildersProofs` | the theorems | extend their modules |
| `TransportProofs` | the theorems about `Balances` and `Framing`, which share their lemmas about `InOrder` | extends both |

How state and actions correspond to the code:

**Driver.** `handle` is the Go variable the deferred guard closes over: an address, `Nil`, or `Spent`
for a wrapper whose pointer was cleared. `live` is the core's heap; `fault` records that a native
call received an address that is not in it. `Build`, `Resolved`, `NeedMore`, `ApplyFails`, `Seal` and
`Unwind` are the calls with what they do to the handle; the allocator may return an address that was
just freed. Substate ids are abstracted to dependency levels: a partial lacks `need` levels, the ids
of a level become known when the level above it has been applied, and a round fetches the level the
core named (`fetch_ids`) or, with an older core, the want list's. `round` counts against
`maxResolutionRounds`. `post` records endpoint and dry-run flag. Two facts are visible here that no
property forbids: the stealth loop's first round fetches nothing when its wants are all
`stealth_utxo` (stealth.go 358, driver.go 394-399), so it holds one level less - `Wasted` accounts
for it in `GivesUpOnlyBeyondCap`; and a failed fetch of some ids costs a round without an error.

**SSEStream, Finalization.** A frame is on the wire, held by the reader in its blocked send, or
taken. The reader's two deferred closes are steps of their own, errs first. `Finalization`'s caller
is a program counter through subscribe, submit, select, poll and sleep; every arm of the select is an
action, enabled when its channel is ready. `cancelled` is the stream's context, which ends with the
caller's. The network takes, decides and announces; an announcement reaches a connected subscriber
or is skipped for it (a lagging broadcast receiver). A submit whose caller gave up may still be under way
and reach the network after the call has returned its error (`underway`). When the connection ends, any number of frames from
the back of the wire are lost (`ServerEnds`), and the first of those may arrive cut: the reader flushes
it at a clean end, and the consumer meets a frame that does not decode - `"noise"` to the wait,
`CutFrame` to the watch. That a cut frame is never more than that is `Framing`'s business.

**Framing.** The body is a sequence of `layouts`, one per frame: the fields of its first lines and how many
lines of data follow; `sent` lines of the last one are written. `frame` and `pos` are how far the reader
has read, `acc` its accumulators. A line of frame n is written with the value n, so what a frame should be
(`Whole`, `Written`) is known apart from what the reader makes of it. `BodyEnds` cuts the body anywhere
ahead of the reader, between lines or within one; a line cut within its value has the value `Cut`, one cut
within its name is an unknown field, and one that only lacks its line break is whole. The refinement
mapping reads the frames still to be offered (`Awaited`), in order, as the wire of `SSEStream` (`Ahead`)
and `flushing` as a send. It needs one thing of the indexer, which `HeadFields` says: the data lines of a
frame come last, as in every fixture of the repository. Otherwise a frame cut behind its data and before
its `id:` would be flushed as a frame that decodes and has no id.

**Boundary.** A wrapper is a record of what matters to memory: the type of handle it is given, the
type the native function expects, whether it consumes, borrows or returns one, and how many C strings
it makes; wrappers alike in these are one element of `Calls`. A call is taken apart where another
goroutine can come between: the version check behind `sync.Once`, making the strings (and clearing
`ptr`), the native function, the release. The C heap gives out its lowest free address, so what was
released last is reused at once: a stale pointer would point to something else. A handle is used by
one call at a time (`InUse`): the driver keeps each in a local variable, and the sealer is "NOT safe
for concurrent use" (cosign.go 54). The native core (external) takes a handle by value also when it
fails, and refuses a handle of the other type without touching it, which is what the test hook of
`handle_misuse.go` (`Misroute`) is for.

**WatchEvents.** `lastID` is the cursor, `query` the two ways it travels, `delivered` and `backoff`
the reconnect policy, `warning` the one-place error buffer. The indexer logs events, prunes the log
behind what an open stream has been served, answers 410 when what the cursor needs is gone, and ends
streams cleanly or not. "Delivery is at-least-once: a repeated event id may appear across a reconnect
boundary" (events.go 145-147): a reopened stream may begin anywhere between the first event of the watch
(`Earliest`) and the cursor, so what it replays may overlap what the caller has had, and nothing in the
loop filters it. With `IdlessFrames` a live frame may lack its id. Also visible, and no property: a
repeated frame moves the cursor back with it (events.go 201), so a connection lost during the overlap
resumes from further back and may even meet a 410 for events the caller already has; and after a frame
without an id the cursor is empty, so a reconnect sends `filter.AfterID` again (events.go 187) and the
feed repeats from the seed.

**Epoch.** Epochs are integers of width `EpochWidth` whose sums wrap. The served epoch lags behind
the network's; both move between the read and the sequencing.

**Cosign.** A record is known by the main signer it commits to; records of other sessions do not occur. An
authorization commits to a record and to the seal public key its signer was told (cosign.go 20-24);
`SealWithAuth` takes the key to seal under as an argument and refuses as the core does: a main signer that
has not signed, or an authorization over another record or for another seal key. `amended` and `strayed`
are history: the main signer was changed after a record had been shipped; some co-signer was told, or
party A sealed under, another key than the one A set out with.

**Balances.** The account's vault list, then chunks of `fetchChunk`; a response is a set of ids, from
which `Merge` picks in request order. What is served may be `malformed` - no account, no vault, or a balance
beyond 64 bits - and the core then refuses with `PARSE` or `VALIDATION`. `Nil` is the slice that was never allocated. `witnessed` is a history
variable: the amounts each vault has held since the call began, against which an answer is measured.

**Builders.** Slices are headers into explicit backing arrays; `Appended` is Go's `append`, in place
while there is room and otherwise into a new array with any spare capacity. `meant` is the ghost of
what each holder was handed and appended. Faucet claims live on a heap of their own.

In every module a definition named `X_Y` is a plausible wrong form of `X`; no action uses it. It is
there to show that the property guarding `X` can fail.

## 3. Runs

| Run | Question | Bounds, and why they are enough |
|---|---|---|
| `Driver` | Do handles and cap survive every early return, native failure and panic? | Two addresses, so that a successor takes a fresh or a reused one (at most two partials ever coexist); chains up to 4 against a cap of 3, so the cap is met, passed and just missed |
| `DriverDryRun` | Is a dry run a dry run on the two paths with flags of their own? | as `Driver`, the stealth and the faucet path; violated |
| `Epoch` | Is the window open, long enough and under the cap? | Width 16, validity 3, cap 5: every pin, every lag and the whole saturating range |
| `Finalization` | Does the wait keep `Finality`'s promise, miss no frame, release the stream and return? | One call; two foreign frames, which together with its own fill wire and reader; two verdicts |
| `WatchEvents` | Is the succession of streams one feed that skips nothing, ended only by cancellation or 410? | Three events, the middle one undecodable; a replay that may go back to the first; two faults, so a reconnect can itself fail; backoff 1 to 3, which exercises growth and cap. With all three events decodable it passes as well, over 1.5 million states |
| `WatchEventsMissed` | Does a frame without an id lose events? | as above, with id-less frames; violated |
| `Framing` | Does the line machine offer exactly the frames that were written, however the body is cut? | Two frames of four layouts (id, event and data; two data lines; no data; a comment), so each can follow each; every place of the cut |
| `Boundary` | Does everything on the C heap have one owner, whatever the calls and their outcomes? | Two goroutines and two handle objects, of either type, up to symmetry; one C string per call (two were checked as well, with ten addresses), eight addresses, which are never all in use |
| `Cosign` | Is the partial owned exactly, and does an orderly hand-off verify? | Two co-signers: one that is the main signer and one that is not; two seal keys: the right one and another; three authorizations at a time, one more than an orderly seal attaches |
| `Balances` | Is a read exact or refused, and in order? | Up to three vaults of two resources in every order, chunks of two (one full, one short); two ledger changes |
| `BalancesNoVault` | Is an account without a vault readable? | as above; violated |
| `Builders` | Does an intent stay what it was, is a send's window fresh? | Lists of two in arrays of two, two arrays, two intents: enough for a shared cell with two writers; amounts modulo 3, so totals wrap |

What the properties say:

- `NoUseAfterFree`, `NothingLeaked` (Driver), `OwnedExactly` (Cosign): the native partial has exactly
  one owner at any time and none at the end. `OnlyResolvedSealed`, `GivesUpOnlyBeyondCap`, `Returns`:
  the round cap neither lets an unresolved partial through, nor refuses one it should hold, nor
  fails to end the loop.
- `OneOwner` (Boundary): no leak, no double free, no dangling pointer and no handle at the other type's
  functions are one statement here, that every allocated address has exactly one owner who takes it for
  what it is. `DriftNeverEntered`: first calls that race for the version check all heed it.
  `ReturnsAsPromised`: "The input Handle is invalidated regardless of outcome", and a handle comes back
  exactly from a success that has one.
- `KeepsPromise` is the refinement of `Finality`: one submit, the network's own verdict. `GateIsSafe`:
  only this transaction's frame opens the gate, and then the first poll finds a result.
  `FrameNotLost`: on a healthy subscription the frame is on its way, however early it was sent.
  `PollNotRaced`, `ReaderStops`: the stream is released before the poll and its goroutine ends.
  `ReturnsOnceDecided`, `ReturnsByDeadline`: the call returns when the network decides, or on the
  deadline alone.
- `IsStream` is the refinement of `SSEStream` by `Framing`, so what is shown of the stream's two
  consumers holds of the reader's line loop: each frame is offered once, in order, with its own event,
  id and data, nothing of a dropped frame, a comment or the frame before, and what a cut leaves does not
  decode. `Arrives`: a frame whose data arrived is received, also when the blank line behind it is missing.
- `IsFeed` is the refinement of `EventFeed`: whatever is refused, cut, pruned or replayed, an event is never
  delivered ahead of its predecessors. `StepsBackOnReconnect`: the overlap that at-least-once delivery allows
  shows only as the first event behind a reconnect; within a connection the feed moves forward. `Delivers`: every event due arrives, also when nobody
  reads the errors. `GoneIsLast`: the 410 ends up last although the caller may be reading the buffer
  it is forced into. `CancelIsSilent`, `Ends`: cancelling reports nothing and leaves nothing behind.
- `HandOffVerifies` (Cosign): a hand-off that names its main signer before the first record, and whose
  co-signers are all told the key A then seals under, collects no authorization that fails to verify. Both
  conditions are needed; neither is checked before the seal, which consumes the session.
- `WindowOpen`, `ExpiresLate`, `OnlyPinsTooLong` (Epoch); `OneTransaction` (Cosign); `Exact`, `KeepsOrder` (Balances) as in the table of section 1.
- `HandedOutIsKept` (Builders): as long as at most one of the holders of a list goes on appending -
  the builder or one intent - every intent reads what it was handed out with. It delimits what is
  safe: with two appending holders (`intent.Instructions = append(...)` on two copies, or on one
  while the builder goes on) they overwrite each other. `StaysReconciled`: the stealth builder's check
  of the revealed totals outlives the hand-out. `FreshWindow`: a repeated send settles its window
  anew.

The modules whose runs turn deadlock checking off (`Finalization`, `WatchEvents`, `Framing`, and `Epoch` in
its last epoch) really stop: a call that has returned, a watch or a reader that has ended, an epoch
range that is used up. Elsewhere deadlock is checked, with an explicit `Terminated` where a call ends.

## 4. Disagreements found

1. *A dry run is not one on two paths* (`DriverDryRun`). `sendStealthTransfer` posts to
   `/transactions` whatever `intent.DryRun` says (stealth.go 434), while the builder offers `DryRun`
   as "fee estimation without committing" and finalization.go 54 calls the tail it ends in the one
   for "every real (non-dry-run) submission". On the faucet path the generic intent's flag picks the
   endpoint, but the claim's own flag goes into the envelope, and `FaucetBuilder` cannot set it;
   transport.go 129 requires it. Either path alone violates the property.
2. *A frame without an id loses its successors* (`WatchEventsMissed`). The cursor is overwritten by
   the empty id (events.go 201), against events.go 142-143.
3. *An account without vaults cannot be read* (`BalancesNoVault`). The nil slice is marshalled to
   `null`, which the core refuses, against balances.go 44-45 ("not an error"). The nil check in
   `resolveInputs` (driver.go 304-307) avoids exactly this; balances.go has none.

Visible in `Finalization`, and without a run of its own: the subscription has no timeout but the
caller's context and is made before the timer starts, so an events endpoint that accepts and stays
silent keeps the call from submitting, although finalization.go 6-8 says that "any stream fault,
close, or timeout silently falls back". `ReturnsByDeadline` shows that the caller's deadline ends it;
`ReturnsOnceDecided` has the endpoint's answer as its antecedent.

Noticed on the way and not modelled: `StealthTransferBuilder.Fee` sets a field that `Intent(fee)`
never reads (stealth_builder.go 88, 171).

## 5. Fairness

- `Driver`: weak fairness of its steps. The code between two requests is sequential; REST requests
  go through an HTTP client with a timeout, native calls compute.
- `Finalization` (`Scheduling`): the caller's statements, the timer, the reader goroutine, and the
  return of a subscription whose context is done. Nothing is assumed of the open stream, of the
  events endpoint or of the network: the properties that need the network to decide, the endpoint
  to answer or the deadline to come say so as their antecedent.
- `WatchEvents` (`Scheduling`): the loop, its timers and the reader. `Ends` needs no more: neither
  a caller that reads nor an indexer that answers. `Delivers` has as antecedent `Cooperation`: the
  indexer answers and serves, and the caller reads the events. Nobody is assumed to read the errors.
- `Framing`: the reader goroutine is scheduled, and the consumer receives what it is offered, as both
  consumers do until they cancel. The server writes or not, and the body ends or not, as it likes.
- The safety runs (`Epoch`, `Boundary`, `Cosign`, `Balances`, `Builders`) assume none.

## 6. Proofs

All constants are arbitrary subject to the named assumptions of each module (non-empty widths and
caps, distinct sentinels, `DefaultValidityEpochs` within the width and the network's cap).

- **`DriverProofs`**: `TypeOK`, `NoUseAfterFree`, `NothingLeaked`, `OnlyResolvedSealed` for every cap, chain length
  and address pool. None is inductive: the invariant is `IInv`, which says for each statement which
  partial is allocated and who points at it (`Ownership`: between build and seal exactly the one the
  variable names; before, between seal and answer, and after the guard none) and what is known of the
  resolution (`Progress`). The address pool may be small, so "fresh address" is never used beyond
  not being allocated. `GivesUpOnlyBeyondCap` needs a second invariant, `Converging`: with concrete
  ids and a complete indexer every round but the wasted one removes one level, so `need + round` is
  constant. `CallEnds` bounds a call: `StepsLeft`, two statements for each round the cap allows and the
  statements around the loop, never exceeds `2 * MaxResolutionRounds + 7` and every step decreases it. That is the
  part of `Returns` that is not about fairness.
- **`BoundaryProofs`**: the type (which the run leaves to the proof), `OneOwner`, `DriftNeverEntered` and `ReturnsAsPromised` for any number of goroutines,
  handles, addresses and strings. `OneOwner` counts owners and is not inductive; `BoundaryInv` takes it apart:
  what each goroutine holds at each statement (`Frames`), that the object of a call is its alone and
  already spent while a consuming function runs (`Targets`), that what is pointed to is what the
  holder takes it for (`Typed`), that no two hold the same (`Alone`), and that all that is allocated is
  held (`NothingLost`). Of the allocator the proof uses only that what it
  gives out is free.
- **`EpochProofs`**: the type, `WindowOpen`, `ExpiresLate`, `OnlyPinsTooLong` for every width and validity. `EpochInv`
  keeps, from the settling on, the two bounds of an unpinned window relative to the epoch read and
  to `MinEpoch`. `ExtendBounds` is the lemma about the saturating sum: in range, never below its base,
  and short only at the very top.
- **`FinalizationProofs`**: the type, `GateIsSafe`, `PollNotRaced`, `FrameNotLost`, and that `Finalization` implements `Finality` for any
  verdicts and any amount of other traffic. `FinInv` says what has happened by each statement of the
  caller, that a frame about this transaction anywhere in the stream proves an announcement, that an
  announcement proves a decision and a decision a submit, that a submit still under way after its caller gave
  up has not been taken, and that a stream is cancelled from the first poll on. One lemma per group of actions; the stream's own steps are handled once, by lemmas
  on what each does to a frame in flight.
- **`WatchEventsProofs`**: the type, `GoneIsLast` and `CancelIsSilent` for any log, faults and backoff, and, under
  the assumption that every frame carries its id (`~IdlessFrames`; the run `WatchEventsMissed` shows why), that
  `WatchEvents` implements `EventFeed` and repeats events only behind a reconnect (`StepsBackOnReconnect`). `WatchInv` keeps the one-place error buffer in step with the loop. `FeedInv`
  is about a position in the log: nothing decodable lies between the cursor and it (`Skipped`), and the
  frame in hand and those on the wire are the events behind it, one after the other, up to the last
  one served or up to the cut (`Ahead`). A delivered event is then the next decodable one after the last; or it is the first of a connection whose replay
  overlaps, and then one the caller has had: nothing between the start of the watch and the last event
  delivered is missing from `got` (`Origin`, `Covered`).
- **`BuildersProofs`**: `HandedOutIsKept`, `StaysReconciled` and `FreshWindow` for any elements, widths, lengths and capacities.
  Lemmas about Go's `append` come first (`AppendFacts`): the result shows one element more, and whoever shares
  the array and is not ahead of the appended header sees nothing, in place or copied. `BuildersInv` adds what
  makes that enough (`Ahead`): whoever alone appends is never behind those it shares an array with.
  The rest says that everything else in an intent is its own, a claim too (`FieldsKept`).
- **`CosignProofs`**: `OwnedExactly`, `HandOffVerifies` and `OneTransaction` for any set of co-signers. `CosignInv` adds
  that every record in circulation commits to the current main signer while the session is not
  amended, and every authorization to A's seal key while no other key has been used.
- **`TransportProofs`** begins with lemmas about `InOrder`: every set of positions has a list (`ListExists`), only one
  (`ListsAgree`, `ListIsInOrder`), and the lists of a set with one more position, without its first, or of
  an initial part of it are what one expects (`InOrderMore`, `InOrderRest`, `InOrderPart`). Induction over data being out of
  reach, they are proved by the smallest counterexample (`SmallestOf`, from well-foundedness).
  - `Framing`: `FramesOK`, and `IsStream`, that the line machine implements `SSEStream`, for any layouts and any number of
    frames. `FramesOK` is not inductive: that what is on offer carries data needs to know what the
    accumulators hold. `FramingInv` says that they hold exactly what the lines read so far amount to
    (`Gathered`), that a frame is on offer just while the reader is blocked on it (`Offered`), that a cut line is the
    last one and never a blank one (`OfBody`), and that nothing happens before the stream is open
    (`AtFirst`). What a frame amounts to is settled by lemmas about its layout: line by line
    (`UpToNext`, `AmountsNext`), in full (`UpToWhole`), and cut short (`PartIs`, `CutIs`). Then each action of the line machine is
    matched with its step of `SSEStream`: what it does to the frames ahead is to take the first (`AheadRest`), add
    one (`AheadMore`), keep all (`AheadStays`), or keep an initial part and perhaps a short frame behind it
    (`AheadEnds`).
  - `Balances`: `TypeOK`, `Exact` and `KeepsOrder` for any vaults and resources, any chunk size, any omissions and any changes of the
    ledger. `BalancesInv` ties what is collected to the ids asked for so far (`Collected`: in their order, each with an
    amount it has held, and with a hole exactly when something was omitted), says what has happened by each
    statement (`Progress`), and that amounts are remembered (`History`). `MergeMerges` is the lemma about one response,
    `ChunkCollected` the one about putting it behind the others. `ReadEnds` bounds the call by the number of ids it
    read: `ReadLeft` falls with each of its statements and with no step of the ledger.

Only model-checked: liveness under fairness (`Returns`, `ReaderStops`, `ReturnsOnceDecided`, `ReturnsByDeadline`, `Delivers`, `Ends`,
`Arrives`), which is outside the proof system's reach; and that the sums of `Balances` are sums, whose
definition is a fold: the proof compares equal folds and never computes one.

## 7. What is not modelled

- What a line consists of: the trimming of `splitField` and the decoding of a body into characters.
- What the native functions compute, and the JSON that goes in and out: `Boundary` models their
  wrappers, of the stateless ones (keys, addresses, substate decoding, stealth scanning and
  unmasking) only memory and version check. `result.go`, `ootle.go` and the receive half of `stealth.go` are
  sequential conversions around them.
- JSON shapes and decoding, hex and base64 conversions, error wrapping, headers, authorization.
- The argument and instruction DSL (`ArgValue`, `InstructionSpec`): sequential construction of JSON.
- In the builders: the stealth builder's fee-payer refusal, and the options of a single output.
- Concurrent use of one handle or one sealer, which their documentation excludes.
- The native core and the indexer beyond what the Go source shows of them; the examples.

## 8. Plan

Done: the driver and its ownership proof; the validity window; the stream with its line machine and its
two consumers with their abstract promises; the native boundary; co-signing; balances; builders; and
the proofs of every invariant, action property and refinement that a run checks. What is left, in order:

1. Compose `Driver` and `Finalization`: the "answer" of the former refined to the latter; and `Driver` with
   `Boundary`: the abstract partial refined to the handle and what it points to.
2. The fee-payer refusal of the stealth builder; the instruction DSL's workspace references.

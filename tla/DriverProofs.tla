---------------------------- MODULE DriverProofs ----------------------------
(***************************************************************************)
(* The driver never misuses nor leaks native memory and seals only what    *)
(* the core resolved, for every set of addresses, every round cap and      *)
(* every depth of the dependency chain.                                    *)
(***************************************************************************)
EXTENDS Driver, TLAPS

\* The inductive invariant: types, who owns which native partial, and how far it is resolved.
THEOREM Invariance == Spec => []IInv
<1>. USE RoundsAssumption, HandleAssumption DEF IInv, TypeOK, Ownership, Progress
<1>1. Init => IInv
  <2> SUFFICES ASSUME Init PROVE IInv
    OBVIOUS
  <2>1. TypeOK
    <3>1. post \in Posts
      BY DEF Init, Posts, NoPost
    <3>2. need \in 0..MaxDepth /\ round \in 0..MaxResolutionRounds
      BY DEF Init
    <3>3. ask \in 0..MaxDepth /\ got \in 0..MaxDepth
      BY DEF Init
    <3>4. handle \in Addresses \cup {Nil, Spent} /\ live \in SUBSET Addresses
      BY DEF Init
    <3>5. pc \in Steps /\ outcome \in Outcomes
      BY DEF Init, Steps, Outcomes
    <3>6. QED
      BY <3>1, <3>2, <3>3, <3>4, <3>5 DEF Init
  <2>2. QED
    BY <2>1 DEF Init
<1>2. IInv /\ [Next]_vars => IInv'
  <2> SUFFICES ASSUME IInv, [Next]_vars PROVE IInv'
    OBVIOUS
  <2>. USE DEF resolution, memory, Steps, Outcomes, Return, Unwinding, Goto
  <2>1. CASE Check
    BY <2>1 DEF Check
  <2>2. CASE Settle
    BY <2>2 DEF Settle
  <2>3. CASE BuildFails
    BY <2>3 DEF BuildFails
  <2>4. CASE Build
    BY <2>4 DEF Build, Cores, SeedLevel
  <2>5. CASE Fetch
    BY <2>5 DEF Fetch
  <2>6. CASE FetchFails
    BY <2>6 DEF FetchFails
  <2>7. CASE ApplyFails
    BY <2>7 DEF ApplyFails, Consume, AfterConsume
  <2>8. CASE Resolved
    BY <2>8 DEF Resolved, Replace, Consume, NextRound
  <2>9. CASE NeedMore
    BY <2>9 DEF NeedMore, Replace, Consume, NextRound, AtCap, GiveUp, StillNeeded, NextAsk,
                SeedLevel, Cores
  <2>10. CASE UnreadableResolution
    <3>1. StillNeeded \in 0..MaxDepth
      BY <2>10 DEF UnreadableResolution, StillNeeded
    <3>2. QED
      BY <2>10, <3>1 DEF UnreadableResolution, Replace, Consume, NextRound
  <2>11. CASE Seal
    BY <2>11 DEF Seal, Consume, AfterConsume
  <2>12. CASE Post
    BY <2>12 DEF Post, Posts, Endpoint, EnvelopeFlag, Calls
  <2>13. CASE Unencodable
    BY <2>13 DEF Unencodable
  <2>14. CASE Answer
    BY <2>14 DEF Answer
  <2>15. CASE Unwind
    BY <2>15 DEF Unwind
  <2>16. CASE UNCHANGED vars
    BY <2>16 DEF vars
  <2>17. QED
    BY <2>1, <2>2, <2>3, <2>4, <2>5, <2>6, <2>7, <2>8, <2>9, <2>10, <2>11, <2>12, <2>13,
       <2>14, <2>15, <2>16 DEF Next, Step, Resolve, Terminated
<1>3. QED
  BY <1>1, <1>2, PTL DEF Spec

\* The driver's types: every field stays in its set, the round counter within the cap.
THEOREM TypeCorrect == Spec => []TypeOK
<1>1. IInv => TypeOK
  BY DEF IInv
<1>2. QED
  BY <1>1, Invariance, PTL

\* No double free and no use after free, on any path of any entry point.
THEOREM MemorySafety == Spec => []NoUseAfterFree
<1>1. IInv => NoUseAfterFree
  BY HandleAssumption DEF IInv, TypeOK, Steps, Ownership, NoUseAfterFree
<1>2. QED
  BY <1>1, Invariance, PTL

\* A finished call leaves nothing allocated but the partial of a prepared co-sign session.
THEOREM NoLeak == Spec => []NothingLeaked
<1>1. IInv => NothingLeaked
  BY DEF IInv, Ownership, NothingLeaked
<1>2. QED
  BY <1>1, Invariance, PTL

\* Nothing unresolved is sealed, posted or handed to co-signers.
THEOREM SealsResolved == Spec => []OnlyResolvedSealed
<1>1. IInv => OnlyResolvedSealed
  BY DEF IInv, Progress, OnlyResolvedSealed
<1>2. QED
  BY <1>1, Invariance, PTL

\* A call gives up only on a chain longer than the cap allows.
THEOREM GivesUpLate == Spec => []GivesUpOnlyBeyondCap
<1>. USE RoundsAssumption DEF Converging
<1>1. Init => Converging
  BY DEF Init
<1>2. IInv /\ Converging /\ [Next]_vars => Converging'
  <2> SUFFICES ASSUME IInv, Converging, [Next]_vars PROVE Converging'
    OBVIOUS
  <2>. USE DEF resolution, memory, Return, Unwinding, Goto, SeedLevel, Wasted
  <2>0. core.depth \in Nat /\ need \in Nat /\ round \in Nat /\ ask \in Nat /\ got \in Nat
    BY DEF IInv, TypeOK, Cores
  <2>1. CASE Check \/ Settle \/ BuildFails
    BY <2>1 DEF Check, Settle, BuildFails
  <2>2. CASE Build
    <3>1. round = 0
      BY <2>2 DEF Build, IInv, Progress
    <3>2. QED
      BY <2>2, <3>1 DEF Build
  <2>3. CASE Fetch
    BY <2>3 DEF Fetch
  <2>4. CASE FetchFails \/ ApplyFails
    BY <2>4 DEF FetchFails, ApplyFails
  <2>5. CASE Resolved \/ UnreadableResolution
    BY <2>5 DEF Resolved, UnreadableResolution
  <2>6. CASE NeedMore
    <3>1. round < MaxResolutionRounds /\ need > 0
      BY <2>6 DEF NeedMore, IInv, Progress
    <3>2. ASSUME core.fetchIds, ~partial
          PROVE  need' = ask' /\ need' + round' = core.depth + Wasted
      <4>1. CASE round = 0
        BY <2>0, <2>6, <3>1, <3>2, <4>1 DEF NeedMore, NextRound, NextAsk, StillNeeded, IInv, TypeOK, Cores
      <4>2. CASE round > 0
        BY <2>0, <2>6, <3>1, <3>2, <4>2 DEF NeedMore, NextRound, NextAsk, StillNeeded
      <4>3. QED
        BY <2>0, <4>1, <4>2
    <3>3. need' > 0 /\ round' > 0
      BY <2>0, <2>6 DEF NeedMore, NextRound
    <3>4. QED
      BY <2>0, <2>6, <3>1, <3>2, <3>3 DEF NeedMore, NextRound, AtCap, GiveUp, StillNeeded
  <2>7. CASE Seal \/ Post \/ Unencodable \/ Answer
    BY <2>7 DEF Seal, Post, Unencodable, Answer
  <2>8. CASE Unwind
    BY <2>8 DEF Unwind
  <2>9. CASE UNCHANGED vars
    BY <2>9 DEF vars
  <2>10. QED
    BY <2>1, <2>2, <2>3, <2>4, <2>5, <2>6, <2>7, <2>8, <2>9 DEF Next, Step, Resolve, Terminated
<1>3. Converging => GivesUpOnlyBeyondCap
  BY DEF GivesUpOnlyBeyondCap
<1>4. QED
  BY <1>1, <1>2, <1>3, Invariance, PTL DEF Spec

-----------------------------------------------------------------------------
(* Why the call ends.  What is left of it is a number: two statements for   *)
(* each round the cap still allows, and the statements around the loop.     *)

RoundsLeft == MaxResolutionRounds - round
StepsLeft ==
    CASE pc = "check"  -> 2 * RoundsLeft + 7
      [] pc = "settle" -> 2 * RoundsLeft + 6
      [] pc = "build"  -> 2 * RoundsLeft + 5
      [] pc = "fetch"  -> 2 * RoundsLeft + 4
      [] pc = "apply"  -> 2 * RoundsLeft + 3
      [] pc = "seal"   -> 4
      [] pc = "route"  -> 3
      [] pc = "answer" -> 2
      [] pc = "unwind" -> 1
      [] pc = "done"   -> 0

\* What is left of a call is a natural number, and never more than at its first statement.
LEMMA StepsBounded == IInv => StepsLeft \in 0..(2 * MaxResolutionRounds + 7)
<1>. SUFFICES ASSUME IInv PROVE StepsLeft \in 0..(2 * MaxResolutionRounds + 7)
  OBVIOUS
<1>1. /\ pc \in Steps /\ round \in 0..MaxResolutionRounds
      /\ MaxResolutionRounds \in Nat
  BY RoundsAssumption DEF IInv, TypeOK
<1>2. RoundsLeft \in 0..MaxResolutionRounds
  BY <1>1 DEF RoundsLeft
<1>3. StepsLeft \in {2 * RoundsLeft + 7, 2 * RoundsLeft + 6, 2 * RoundsLeft + 5,
                     2 * RoundsLeft + 4, 2 * RoundsLeft + 3, 4, 3, 2, 1, 0}
  BY <1>1 DEF StepsLeft, Steps
<1>4. QED
  BY <1>1, <1>2, <1>3

\* Every statement of a call brings its end nearer, whatever the core and the indexer answer, so a
\* call executes at most 2 * MaxResolutionRounds + 7 of them: a core that always asks for more, or an
\* indexer that always leaves something out, cannot keep it looping.  With each request and native
\* call returning, this is why it returns (Returns, which TLC checks).
THEOREM CallEnds ==
    Spec => /\ [](StepsLeft \in 0..(2 * MaxResolutionRounds + 7))
            /\ [][StepsLeft' < StepsLeft]_vars
<1>1. IInv /\ Step => StepsLeft' < StepsLeft
  <2>. SUFFICES ASSUME IInv, Step PROVE StepsLeft' < StepsLeft
    OBVIOUS
  <2>. USE DEF StepsLeft, RoundsLeft, Return, Unwinding, Goto, resolution
  <2>1. /\ round \in 0..MaxResolutionRounds
        /\ MaxResolutionRounds \in Nat \ {0}
        /\ pc \in {"fetch", "apply"} => round < MaxResolutionRounds
    BY RoundsAssumption DEF IInv, TypeOK, Progress
  <2>2. CASE Check
    BY <2>1, <2>2 DEF Check
  <2>3. CASE Settle
    BY <2>1, <2>3 DEF Settle
  <2>4. CASE BuildFails
    BY <2>1, <2>4 DEF BuildFails
  <2>5. CASE Build
    BY <2>1, <2>5 DEF Build
  <2>6. CASE Fetch
    BY <2>1, <2>6 DEF Fetch
  <2>7. CASE FetchFails
    BY <2>1, <2>7 DEF FetchFails
  <2>8. CASE ApplyFails
    BY <2>1, <2>8 DEF ApplyFails
  <2>9. CASE Resolved
    BY <2>1, <2>9 DEF Resolved, NextRound
  <2>10. CASE NeedMore
    BY <2>1, <2>10 DEF NeedMore, NextRound, AtCap, GiveUp
  <2>11. CASE UnreadableResolution
    BY <2>1, <2>11 DEF UnreadableResolution, NextRound
  <2>12. CASE Seal
    BY <2>1, <2>12 DEF Seal
  <2>13. CASE Post
    BY <2>1, <2>13 DEF Post
  <2>14. CASE Unencodable
    BY <2>1, <2>14 DEF Unencodable
  <2>15. CASE Answer
    BY <2>1, <2>15 DEF Answer
  <2>16. CASE Unwind
    BY <2>1, <2>16 DEF Unwind
  <2>17. QED
    BY <2>2, <2>3, <2>4, <2>5, <2>6, <2>7, <2>8, <2>9, <2>10, <2>11, <2>12, <2>13, <2>14, <2>15,
       <2>16 DEF Step, Resolve
<1>2. IInv /\ [Next]_vars => [StepsLeft' < StepsLeft]_vars
  BY <1>1 DEF Next, Terminated
<1>3. QED
  BY <1>2, StepsBounded, Invariance, PTL DEF Spec

=============================================================================

------------------------------- MODULE Balances -------------------------------
(***************************************************************************)
(* AccountBalances: the account component and then its vaults are fetched  *)
(* from the indexer, the vaults chunk by chunk, and the native core sums   *)
(* what was fetched per resource.  The ledger moves on between any two     *)
(* requests, and the indexer may leave out what it does not have, or serve *)
(* what the core cannot read.                                              *)
(***************************************************************************)
EXTENDS SequencesExt, InOrder

(* A definition named X_Y is a deliberately wrong form of X that no action uses: the      *)
(* property that guards X is checked to fail when X is replaced by it.                    *)
CONSTANTS
    Vaults,      \* vaults the account may have
    Resources,   \* what they hold
    ResourceOf,  \* the resource of each vault
    Nil,         \* a nil slice, which is sent to the core as null
    fetchChunk,  \* ids per POST /substates/fetch, 20 in the code
    MaxAmount,   \* bound on what a vault holds
    MaxChanges   \* bound on the changes of the ledger during the call

ASSUME VaultsAssumption == IsFiniteSet(Vaults)
ASSUME ResourceAssumption == ResourceOf \in [Vaults -> Resources]
ASSUME ChunkAssumption == fetchChunk \in Nat \ {0}
ASSUME LedgerBounds == MaxAmount \in Nat /\ MaxChanges \in Nat

VARIABLES
    vaults,    \* the account's vaults, in the order of its state
    ledger,    \* what each vault holds
    changes,   \* changes of the ledger during the call
    pc,        \* the call's next statement
    ids,       \* the vaults named by the account that was read
    start,     \* how many of them have been asked for
    fetched,   \* the vault substates collected, Nil before the first request
    omitted,   \* the indexer left out something it was asked for
    malformed, \* it served what is no account, no vault, or a balance beyond uint64
    outcome,   \* what the call returns
    balances,  \* the sums, for the resources the account was seen to hold
    witnessed  \* history: the amounts each vault has held since the call began

chain == <<vaults, ledger, changes, witnessed>>
vars == <<chain, pc, ids, start, fetched, omitted, malformed, outcome, balances>>

VaultLists == {s \in SeqOf(Vaults, Cardinality(Vaults)) : IsInjective(s)}
Substates == [id : Vaults, amount : 0..MaxAmount]
VaultReads == SeqOf(Substates, Cardinality(Vaults))
ASSUME NilAssumption == Nil \notin VaultReads

Outcomes == {"none", "ok", "TRANSPORT", "VALIDATION", "RESOLUTION", "PARSE"}

Init ==
    /\ vaults \in VaultLists
    /\ ledger \in [Vaults -> 0..MaxAmount]
    /\ changes = 0
    /\ witnessed = [v \in Vaults |-> {ledger[v]}]
    /\ pc = "account"
    /\ ids = <<>> /\ start = 0 /\ fetched = Nil
    /\ omitted = FALSE /\ malformed = FALSE
    /\ outcome = "none"
    /\ balances = <<>>

-----------------------------------------------------------------------------
(* The call.                                                                *)

Return(o) == pc' = "done" /\ outcome' = o

ReadAccount ==
    /\ pc = "account"
    /\ ids' = vaults
    /\ malformed' \in BOOLEAN
    /\ pc' = "wants"
    /\ UNCHANGED <<chain, start, fetched, omitted, outcome, balances>>

AccountUnread ==
    /\ pc = "account"
    /\ \/ omitted' = TRUE /\ Return("RESOLUTION")
       \/ Return("TRANSPORT") /\ UNCHANGED omitted
    /\ UNCHANGED <<chain, ids, start, fetched, malformed, balances>>

\* What the core answers to a substate that is malformed, or not of the kind it expects.
Unreadable == {"PARSE", "VALIDATION"}

\* AccountBalanceWants: the core names the vaults, or refuses what is not an account.  Without any,
\* nothing is fetched and the slice stays nil.
Want ==
    /\ pc = "wants"
    /\ \/ /\ ~malformed /\ ids = <<>>
          /\ pc' = "sum"
          /\ UNCHANGED <<fetched, outcome>>
       \/ /\ ~malformed /\ ids # <<>>
          /\ pc' = "vaults"
          /\ fetched' = <<>>
          /\ UNCHANGED outcome
       \/ /\ malformed
          /\ \E refusal \in Unreadable : Return(refusal)
          /\ UNCHANGED fetched
    /\ UNCHANGED <<chain, ids, start, omitted, malformed, balances>>

ChunkEnd == IF start + fetchChunk > Len(ids) THEN Len(ids) ELSE start + fetchChunk
Chunk == SubSeq(ids, start + 1, ChunkEnd)

MoreChunks_WholeOnes == start + 2 * fetchChunk <= Len(ids)
MoreChunks_Always == TRUE
MoreChunks == start + fetchChunk < Len(ids)

\* A response is a map from id to substate: the loop over the ids asked for gives it an order, and
\* skips those it lacks.
Found(asked, served) == {k \in 1..Len(asked) : asked[k] \in served}
Taken(asked, at) == [i \in DOMAIN at |-> [id |-> asked[at[i]], amount |-> ledger[asked[at[i]]]]]

Merge_InMapOrder(asked, served) == Taken(asked, Reverse(InOrder(Found(asked, served))))
Merge(asked, served) == Taken(asked, InOrder(Found(asked, served)))

FetchChunk ==
    /\ pc = "vaults"
    /\ \E served \in SUBSET ToSet(Chunk) :
          /\ fetched' = fetched \o Merge(Chunk, served)
          /\ omitted' = (omitted \/ served # ToSet(Chunk))
          /\ malformed' \in {malformed, malformed \/ served # {}}
    /\ start' = start + fetchChunk
    /\ pc' = (IF MoreChunks THEN "vaults" ELSE "sum")
    /\ UNCHANGED <<chain, ids, outcome, balances>>

FetchFails ==
    /\ pc = "vaults"
    /\ Return("TRANSPORT")
    /\ UNCHANGED <<chain, ids, start, fetched, omitted, malformed, balances>>

\* ootle_account_balances (outside src/): it takes a JSON array, matches the vaults by id, and
\* refuses when one is missing or cannot be read.
Supplied == {fetched[i].id : i \in 1..Len(fetched)}
Amount(v) == fetched[CHOOSE i \in 1..Len(fetched) : fetched[i].id = v].amount
VaultsOf(r, set) == {v \in set : ResourceOf[v] = r}

Refusals ==
    (IF ToSet(ids) \subseteq Supplied THEN {} ELSE {"RESOLUTION"})
    \cup (IF malformed THEN Unreadable ELSE {})

Sum ==
    /\ pc = "sum"
    /\ \/ /\ fetched = Nil
          /\ Return("PARSE")
          /\ UNCHANGED balances
       \/ /\ fetched # Nil /\ Refusals = {}
          /\ Return("ok")
          /\ balances' = [r \in {ResourceOf[v] : v \in ToSet(ids)} |->
                             SumFunction([v \in VaultsOf(r, ToSet(ids)) |-> Amount(v)])]
       \/ /\ fetched # Nil
          /\ \E refusal \in Refusals : Return(refusal)
          /\ UNCHANGED balances
    /\ UNCHANGED <<chain, ids, start, fetched, omitted, malformed>>

\* AccountBalance: what the caller reads for one resource.
AccountBalance(r) == IF r \in DOMAIN balances THEN balances[r] ELSE 0

Call == ReadAccount \/ AccountUnread \/ Want \/ FetchChunk \/ FetchFails \/ Sum

-----------------------------------------------------------------------------
(* The ledger (outside src/): vaults change, and an account gains them.     *)

Pay ==
    /\ changes < MaxChanges /\ pc # "done"
    /\ changes' = changes + 1
    /\ \E v \in Vaults, amount \in 0..MaxAmount :
          /\ ledger' = [ledger EXCEPT ![v] = amount]
          /\ witnessed' = [witnessed EXCEPT ![v] = @ \cup {amount}]
    /\ UNCHANGED <<vaults, pc, ids, start, fetched, omitted, malformed, outcome, balances>>

GainVault ==
    /\ changes < MaxChanges /\ pc # "done"
    /\ changes' = changes + 1
    /\ \E v \in Vaults \ ToSet(vaults) : vaults' = Append(vaults, v)
    /\ UNCHANGED <<ledger, witnessed, pc, ids, start, fetched, omitted, malformed, outcome,
                    balances>>

Terminated == pc = "done" /\ UNCHANGED vars

Next == Call \/ Pay \/ GainVault \/ Terminated

Spec == Init /\ [][Next]_vars

-----------------------------------------------------------------------------
(* Properties.                                                              *)

TypeOK ==
    /\ vaults \in VaultLists
    /\ ledger \in [Vaults -> 0..MaxAmount]
    /\ changes \in 0..MaxChanges
    /\ pc \in {"account", "wants", "vaults", "sum", "done"}
    /\ ids \in VaultLists
    /\ start \in 0..Cardinality(Vaults) + fetchChunk - 1
    /\ fetched \in VaultReads \cup {Nil}
    /\ omitted \in BOOLEAN /\ malformed \in BOOLEAN
    /\ outcome \in Outcomes
    /\ DOMAIN balances \subseteq Resources
    /\ witnessed \in [Vaults -> SUBSET (0..MaxAmount)]

\* The call was answered: no request failed, and what was served is what the core can read.
Answered == pc = "done" /\ ~malformed /\ outcome # "TRANSPORT"

\* One amount for each vault, each held at some moment of the call.
Sightings == {seen \in [Vaults -> 0..MaxAmount] : \A v \in Vaults : seen[v] \in witnessed[v]}
SumsTo(amount, set) ==
    \A r \in Resources : AccountBalance(r) = SumFunction([v \in VaultsOf(r, set) |-> amount[v]])

\* A read of an account with vaults is complete or refused: a vault the indexer left out is a
\* "RESOLUTION" error, "never a silent zero" (substate.go 84).  What is answered counts each vault
\* the account had when it was read once, wherever it falls among the chunks, with an amount it held
\* during the call; when the ledger was still, that is exactly what the account holds.
Exact ==
    Answered /\ ids # <<>> =>
        IF omitted THEN outcome = "RESOLUTION"
        ELSE /\ outcome = "ok"
             /\ \E seen \in Sightings : SumsTo(seen, ToSet(ids))
             /\ changes = 0 => SumsTo(ledger, ToSet(vaults))

\* "The order follows the input ids (then chunk order)" (transport.go 240): what is collected is the
\* list that was asked for without the omitted ids, each id once, whatever the map's order.
KeepsOrder ==
    fetched # Nil =>
        \A i, j \in 1..Len(fetched) : i < j =>
            \E k, l \in 1..Len(ids) :
                k < l /\ ids[k] = fetched[i].id /\ ids[l] = fetched[j].id

\* AccountBalance "returns 0 when the account holds no vault of that resource (not an error)"
\* (balances.go 44-45), also when it holds no vault at all.
NoVaultIsNoError == Answered /\ ~omitted => outcome = "ok"

=============================================================================

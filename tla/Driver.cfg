SPECIFICATION FairSpec
CONSTANTS
    Kinds = {"public", "generic", "faucet", "stealth", "cosign"}
    Addresses = {a1, a2}
    Nil = Nil
    Spent = Spent
    MaxResolutionRounds = 3
    MaxDepth = 4
INVARIANTS
    TypeOK
    NoUseAfterFree
    NothingLeaked
    OnlyResolvedSealed
    GivesUpOnlyBeyondCap
PROPERTIES
    Returns

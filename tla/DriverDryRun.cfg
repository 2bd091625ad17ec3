SPECIFICATION Spec
CONSTANTS
    Kinds = {"stealth", "faucet"}
    Addresses = {a1, a2}
    Nil = Nil
    Spent = Spent
    MaxResolutionRounds = 3
    MaxDepth = 4
INVARIANTS
    DryRunHonoured

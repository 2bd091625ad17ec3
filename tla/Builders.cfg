SPECIFICATION Spec
CONSTANTS
    Kinds = {"transaction", "transfer", "faucet", "stealth"}
    Elements = {1, 2}
    AmountWidth = 3
    DefaultValidityEpochs = 2
    MaxLen = 2
    MaxCap = 2
    MaxArrays = 2
    MaxIntents = 2
    MaxEpoch = 1
INVARIANTS
    HandedOutIsKept
    StaysReconciled
    FreshWindow

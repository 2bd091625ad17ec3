SPECIFICATION Spec
CONSTANTS
    Signers = {b1, b2}
    NoSigner = NoSigner
    SealKeys = {k1, k2}
    OwnKey = k1
    NoTx = NoTx
    MaxAuths = 3
INVARIANTS
    OwnedExactly
    HandOffVerifies
PROPERTIES
    OneTransaction

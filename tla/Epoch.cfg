SPECIFICATION Spec
CONSTANTS
    EpochWidth = 16
    DefaultValidityEpochs = 3
    MaxTransactionValidityEpochs = 5
    Unset = Unset
INVARIANTS
    TypeOK
    WindowOpen
    ExpiresLate
    OnlyPinsTooLong
CHECK_DEADLOCK FALSE

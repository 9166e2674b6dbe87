SPECIFICATION Spec
CONSTANTS
    k1 = k1
    k2 = k2
    k3 = k3
    Vaults = {v1}
    Programs = {t1}
    Adapters = {a1}
    Intents = {i1}
    NoAccount = NoAccount
    MaxI64 = 4
    OverflowChecks = FALSE
    Keys = {k1, k2, k3}
    Data = {d1, d2}
    InitArgs <- AllArgs
    MAX_SIGNERS = 2
    MAX_CANCELLERS = 2
    MaxU64 = 1
    MaxU8 = 3
    MaxTime = 3
    MaxSignatures = 2
    SigningDates <- Dates
    SigningExpiries = {2}
    Carriable <- OneCarried
    Forwardable = {}
INVARIANTS
    TypeOK
    QueuedWithFreshQuorum
    VetoCountsDistinctSigners
    CallsAreSerial
    ExecutionWindowIsOpen
    CallsRespectTheirWindow
    NoVetoIsTurnedAway
PROPERTIES
    SettledIsFinal
    RefinesPromise
CHECK_DEADLOCK FALSE

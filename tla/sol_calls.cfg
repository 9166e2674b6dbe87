SPECIFICATION Spec
CONSTANTS
    k1 = k1
    k2 = k2
    k3 = k3
    Vaults = {v1}
    Programs = {t1}
    Adapters = {a1}
    Intents = {i1}
    NoAccount = NoAccount
    MaxI64 = 4
    OverflowChecks = FALSE
    Keys = {k1}
    Data = {d1}
    InitArgs <- WrappingArgs
    MAX_SIGNERS = 2
    MAX_CANCELLERS = 2
    MaxU64 = 1
    MaxU8 = 3
    MaxTime = 3
    MaxSignatures = 0
    SigningDates = {}
    SigningExpiries = {}
    Carriable <- OneCarried
    Forwardable = {v1, k1}
INVARIANTS
    VaultCallsAreGuarded
CHECK_DEADLOCK FALSE

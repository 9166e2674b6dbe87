SPECIFICATION Spec
CONSTANTS
    s1 = s1
    s2 = s2
    s3 = s3
    i1 = i1
    i2 = i2
    a1 = a1
    t1 = t1
    p1 = p1
    p2 = p2
    Vaults = {v1}
    Safes = {safe}
    Addresses = {s1, s2, s3}
    ZeroAddress = zero
    Targets = {t1}
    Payloads = {p1, p2}
    Adapters = {a1}
    Intents = {i1, i2}
    Undecodable = none
    IntentOf <- EachItsOwn
    InitArgs <- EdgeArgs
    Max64 = 4
    Max8 = 3
    MaxSignatures = 3
    ClockSkew = 0
    SignAhead = 0
    AttestationTTLs = {1}
SYMMETRY SignerSymmetry
INVARIANTS
    ExpiryIsWhatWasSigned

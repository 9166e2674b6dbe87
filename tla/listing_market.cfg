SPECIFICATION ListingSpec
CONSTANTS
    s1 = s1
    t1 = t1
    o1 = o1
    Vaults = {v1}
    Safes = {safe}
    Addresses = {s1}
    ZeroAddress = zero
    Targets = {target}
    InitArgs <- LoneArgs
    Max64 = 3
    Max8 = 1
    MaxSignatures = 1
    ClockSkew = 0
    SignAhead = 0
    AttestationTTLs = {1}
    Tokens = {t1}
    Oracles = {o1}
    WAD = 1
    BPS = 10
    Max256 = 999
    FeedPolicies <- TwoPolicies
    Answers = {10, 20}
    Decimals = {1, 2}
    Claims <- TwoClaims
    Values = {0}
    Garbage = garbage
    Adapter = adapter
    Undecodable = none
INVARIANTS
    SignedClaimsMetTheMarket

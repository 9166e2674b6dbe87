SPECIFICATION ReviewSpec
CONSTANTS
    t1 = t1
    o1 = o1
    Tokens = {t1}
    Oracles = {o1}
    ZeroAddress = zero
    WAD = 2
    BPS = 10
    Max256 = 1999
    Max64 = 2
    FeedPolicies <- SomePolicies
    Answers <- SomeAnswers
    Decimals = {0, 1, 2, 3, 5}
    Claims <- AllClaims
    E8 = 1
    WarnBps = 1
    MaxReviews = 1
INVARIANTS
    AdmittedClaimsAreClose
    ExactClaimsAreAdmitted
    WarningsForetellTheChain

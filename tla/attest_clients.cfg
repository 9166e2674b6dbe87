SPECIFICATION Spec
CONSTANTS
    Base = 3
    Small = 2
    Depth = 2
    MICROS = 40
    CENT = 4
    Inputs <- SomeInputs
    Values <- SomeValues
    MaxTime = 2
    MaxRuns = 1
INVARIANTS
    OwnProposalsPass
    MessagesSurviveTheWire
    ApprovalsVerifyAsAsked
    AmountsAreShown
    SerialisationIsUnambiguous
CHECK_DEADLOCK FALSE

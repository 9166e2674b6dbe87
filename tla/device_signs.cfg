SPECIFICATION DeviceSpec
CONSTANTS
    id1 = id1
    id2 = id2
    vault = vault
    bodyA = bodyA
    bodyB = bodyB
    Ids = {id1, id2}
    Networks = {"evm"}
    Vaults = {vault}
    Nonces = {0, 1}
    Kinds = {1, 2, 3}
    Bodies = {bodyA, bodyB}
    Proposals <- MixedProposals
    NoProposal = none
    Lines <- ShortLines
    ArgsLength <- KindLengths
    MAX_ACTION_ARGS = 1024
    REPLAY_WINDOW = 1
    Damages = {"none"}
    MaxHandled = 3
    MaxBoots = 2
    LineRoom = 1
INVARIANTS
    ReplayWindowHolds
    SignsOnlyWhatWasShown

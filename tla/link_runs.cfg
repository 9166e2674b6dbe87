SPECIFICATION FairLinkSpec
CONSTANTS
    vault = vault
    body = body
    Calls <- Runs
    NoCall = 0
    Request <- Requests
    Damages = {"none", "length"}
    MaxAnswers = 3
    Ids <- Runs
    Networks = {"solana"}
    Vaults = {vault}
    Nonces = {0}
    Kinds = {3}
    Bodies = {body}
    NoProposal = NoProposal
    Lines <- OneScreen
    ArgsLength <- TransferLength
    MAX_ACTION_ARGS = 1024
    REPLAY_WINDOW = 2
    MaxHandled = 3
    MaxBoots = 2
    LineRoom = 3
CHECK_DEADLOCK FALSE
INVARIANTS
    OnlyAbandonedRunsMislead
PROPERTIES
    EveryRunEnds

SPECIFICATION Spec
CONSTANTS
    N = 3
    Base <- MCBase
    StartDelays = {0}
    Team <- MCTeam
    TeamCount = 2
    TurnLimit = 0
    Time <- MCTime
    PowerTime = 1
    TurnCosts = {}
    Items <- MCNone
    ItemDelay = 1
    MaxFlight = 1
    MaxDeaths = 1
    MaxTurns = 1
    None = None
    Shoots = TRUE
    OldPass = TRUE
    SendFails = FALSE
    NewMaster = FALSE
INVARIANTS TypeOK TableExact NoEarlyEnd
PROPERTIES OnlySilentAreKicked

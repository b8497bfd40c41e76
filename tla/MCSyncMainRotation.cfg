SPECIFICATION LiveSpec
CONSTANTS
    N = 3
    Base <- MCBase
    StartDelays = {0}
    Team <- MCTeam
    TeamCount = 2
    TurnLimit = 0
    Time <- MCTime
    PowerTime = 1
    TurnCosts = {1}
    Items <- MCHeal
    ItemDelay = 1
    MaxFlight = 1
    MaxDeaths = 1
    MaxTurns = 1
    None = None
    Shoots = FALSE
    OldPass = FALSE
    SendFails = FALSE
    NewMaster = TRUE
PROPERTIES GameEnds NobodyStarves LeastDelay

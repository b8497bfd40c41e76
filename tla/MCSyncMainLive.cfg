SPECIFICATION LiveSpec
CONSTANTS
    N = 2
    Base <- MCBase
    StartDelays = {0}
    Team <- MCTeam
    TeamCount = 1
    TurnLimit = 0
    Time <- MCTime
    PowerTime = 1
    TurnCosts = {}
    Items <- MCTwo
    ItemDelay = 1
    MaxFlight = 1
    MaxDeaths = 1
    MaxTurns = 1
    None = None
    Shoots = TRUE
    OldPass = FALSE
    SendFails = TRUE
    NewMaster = FALSE
INVARIANT OneActor
 

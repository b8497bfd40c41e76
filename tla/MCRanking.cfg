\* Three teams, some of which may have nobody left.
CONSTANTS
    a = a
    b = b
    c = c
    Fighters = {a, b, c}
    TeamOf <- MCThreeTeams
    TeamCount = 3
    Nobody = Nobody
    MaxLife = 2
    MaxTurn = 2
    LiveWrap = 16
SPECIFICATION SpecRanking
PROPERTY TeamsAreRanked
CHECK_DEADLOCK FALSE

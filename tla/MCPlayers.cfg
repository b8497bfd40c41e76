\* Three seats, two places in the entry area, three users at most; a budget of
\* four and three pockets; five players to deal.  Three characters, two of them
\* in one team; two hit points, two pockets each; stealth lasts one turn,
\* blindness two.
CONSTANTS
    Guests = {0, 1, 2}
    Columns = 2
    MaxUsers = 3
    cheap = cheap
    dear = dear
    Goods = {cheap, dear}
    Price <- MCPrice
    Empty = Empty
    PocketCount = 3
    MaxCost = 4
    Charas = {reimu}
    Random = Random
    MostPlayers = 5
    a = a
    b = b
    c = c
    Fighters = {a, b, c}
    TeamOf <- MCTeamOf
    TeamCount = 2
    Nobody = Nobody
    StealthTurns = 1
    BlindTurns = 2
    MaxHP = 2
    TeamDamage = FALSE
    Slots = 2
SYMMETRY MCSymmetry
SPECIFICATION MCSpec
INVARIANTS
    TypeOKPlayers
    
    BudgetIsExact
    DealIsSound
    SightIsSound
    
    PocketsAreSound
PROPERTY TeamsMatch

\* Two objects of two types; three characters in two teams at the end of a game;
\* two stages and two characters of two files, one a multiple of the chunk;
\* three packets on their way; four packets on one connection, where no read
\* goes on past the end of a packet in stock.
CONSTANTS
    a = a
    b = b
    c = c
    MaxMade = 2
    Types = {t, u}
    NoObject = NoObject
    ItemIsBlt = FALSE
    Fighters = {a, b, c}
    TeamOf <- MCTeamOf
    TeamCount = 2
    Nobody = Nobody
    MaxLife = 2
    MaxTurn = 2
    LiveWrap = 16
    Stages = 2
    Characters = 2
    Sizes <- MCSizes
    Files = 2
    Chunk = 2
    LoginTimeout = 2
    Labels = {p1, p2, p3}
    MaxQueued = 3
    Conns = {c1}
    Stream <- MCStream
    Spans = FALSE
SPECIFICATION SpecFlow
INVARIANTS
    TypeOKFlow
    
    
    TransferIsSound
    NoLostWakeup
    
PROPERTIES Reclaimed RankingEnds FileIsWhole DownloadEnds PacketLeaves IsMailbox
CHECK_DEADLOCK FALSE

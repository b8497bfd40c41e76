\* One connection, and reads that go on past the end of a packet in stock.
CONSTANTS
    Conns = {c1}
    Stream <- MCStream
    Spans = TRUE
SPECIFICATION SpecFraming
INVARIANT HandedAsSent

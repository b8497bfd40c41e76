\* The gate: four slots.  The closing of connections: three slots, and two
\* kicks between two starts of the server.
SPECIFICATION SpecSlots
CONSTANTS
    MaxLogin = 4
    WaitTime = 2
    SynTimeout = 2
    SendFails = TRUE
    MaxSession = 3
    MaxKicks = 2
INVARIANTS
    TypeOKSlots
    PassedMeansLoaded
    
PROPERTIES
    AskedBeforeKicked
    GateOpens
\* The two threads that close connections can wait for each other.
CHECK_DEADLOCK FALSE

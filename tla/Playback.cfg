SPECIFICATION Spec
CONSTANTS
    Handlers = {"web", "telephony", "sip"}
    Frames = 2
    MaxResponses = 2
    MaxChunks = 2
    MaxLater = 1
    MaxQueue = 1
    MaxCuts = 1
    MaxDrains = 1
    MaxXoffs = 1
INVARIANTS
    TypeOK
    HeardWasPlayed
    HistoryInOrder
    PlayingKnown
    FlushedSilent
CHECK_DEADLOCK FALSE

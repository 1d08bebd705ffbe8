SPECIFICATION LiveSpec
CONSTANTS
    Clients = {"openai", "azure", "litellm", "gemini", "responses", "websocket"}
    Tools = TRUE
    MaxRequests = 2
    MaxPieces = 2
    MaxFrames = 1
    MaxDrops = 1
INVARIANTS
    TypeOK
    OwnAnswer
    ContinuesWhole
    AnswerSaid
PROPERTIES
    RequestEnds
CHECK_DEADLOCK FALSE

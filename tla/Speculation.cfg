SPECIFICATION Spec
CONSTANTS
    MaxSeq = 3
    MaxTexts = 0
    MaxLong = 0
    Handlers = {"asr"}
    BargeIn = FALSE
    DiscardPreWelcome = TRUE
    Flux = TRUE
    Tools = FALSE
    RepeatAfterSilence = TRUE
    EmptyTail = FALSE
INVARIANTS
    RevokedStaysRevoked
CHECK_DEADLOCK FALSE

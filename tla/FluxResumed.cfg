SPECIFICATION HeardSpec
CONSTANTS
    MaxSeq = 3
    MaxTexts = 0
    MaxLong = 0
    Handlers = {"asr"}
    BargeIn = TRUE
    DiscardPreWelcome = TRUE
    Flux = TRUE
    Tools = FALSE
    RepeatAfterSilence = FALSE
    EmptyTail = FALSE
INVARIANTS
    HeardHasQuestion
CHECK_DEADLOCK FALSE

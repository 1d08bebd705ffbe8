SPECIFICATION Spec
CONSTANTS
    MaxSeq = 3
    MaxTexts = 0
    MaxLong = 0
    Handlers = {"asr", "dtmf"}
    BargeIn = TRUE
    DiscardPreWelcome = TRUE
    Flux = FALSE
    Tools = TRUE
    RepeatAfterSilence = FALSE
    EmptyTail = TRUE
INVARIANTS
    NoOrphan
    OneChain
    ChainStaysRevoked
CHECK_DEADLOCK FALSE

SPECIFICATION LiveSpec
CONSTANTS
    MaxSeq = 3
    MaxTexts = 1
    MaxLong = 1
    Handlers = {"asr"}
    BargeIn = TRUE
    DiscardPreWelcome = TRUE
    Flux = FALSE
    Tools = FALSE
    RepeatAfterSilence = FALSE
    EmptyTail = FALSE
INVARIANTS
    AnswerIsValid
    RepliesInOrder
    WelcomeMarkOutstanding
PROPERTIES
    PipelineDrains
    Answered
CHECK_DEADLOCK FALSE

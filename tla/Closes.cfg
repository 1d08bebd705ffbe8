SPECIFICATION LiveSpec
CONSTANTS
    Causes = {"llm_hangup", "synthesizer_error", "transcriber_error"}
    Message = TRUE
    Interrupts = TRUE
    Disconnects = FALSE
INVARIANTS
    EndIsHeld
PROPERTIES
    CallCloses
CHECK_DEADLOCK FALSE

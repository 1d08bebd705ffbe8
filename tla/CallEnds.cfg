SPECIFICATION Spec
CONSTANTS
    Causes = {"llm_hangup", "end_call", "llm_error", "voicemail", "inactivity", "web_limit", "synthesizer_error", "transcriber_error"}
    Message = TRUE
    Interrupts = TRUE
    Disconnects = TRUE
INVARIANTS
    OneCloser
    FarewellSettled
PROPERTIES
    ImplementsPhases
CHECK_DEADLOCK FALSE

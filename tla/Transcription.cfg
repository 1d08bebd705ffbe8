CONSTANTS
  Providers = {"deepgram", "flux", "gladia", "smallest", "elevenlabs", "sarvam", "assemblyai", "pixa", "openai", "google", "azure"}
  Segments = 3
SPECIFICATION LiveSpec
INVARIANTS
    TypeOK
    WordsHeard
    EagerSettled
PROPERTIES
    UtteranceSettles
CHECK_DEADLOCK FALSE

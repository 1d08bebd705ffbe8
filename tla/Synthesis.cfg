CONSTANTS
  Providers = {"elevenlabs", "cartesia", "deepgram", "pixa", "rime", "sarvam", "smallest", "http", "azure"}
  MaxSeq = 2
  MaxTexts = 2
  MaxAudio = 2
  MaxDrops = 1
  MaxUpsets = 1
SPECIFICATION LiveSpec
INVARIANTS
    TypeOK
    AudioOfItsAnswer
    FinalIsLast
PROPERTIES
    StreamSettles
CHECK_DEADLOCK FALSE

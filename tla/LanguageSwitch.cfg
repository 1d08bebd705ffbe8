CONSTANTS
  Labels = {"en", "hi", "ta"}
  VoiceLabels = {"en", "hi", "mr"}
  First = "en"
  MaxSwitches = 3
  MaxDrops = 1
  MaxOut = 1
SPECIFICATION LiveSpec
INVARIANTS
    PoolsAgree
    VoiceIsActive
PROPERTIES
    DeathEndsCall
    SwitchCompletes
CHECK_DEADLOCK FALSE

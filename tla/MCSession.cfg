SPECIFICATION FairSpec
CONSTANTS
  RingCap = 1
  DevCap = 6
  Guard = 1
  Target = 4
  Slack = 0
  Averaging = 2
INVARIANTS
  TypeOK
  OneCore
  NoStaleSound
  DialogPauses
  SilentWhenPaused
  Audible
  NothingDropped
PROPERTIES
  CloseHappens
  SoundResumes
CHECK_DEADLOCK FALSE

SPECIFICATION FairSpec
CONSTANTS
  LinePeriod = 136
  ShortPeriod = 136
  ShortLine = 1
  Lines = 3
  VblankLine = 2
  OverscanLine = 2
  RaiseH = 1
  EdgeH = 3
  InitH = 6
  RefreshH = 52
  RefreshClocks = 4
  HdmaH = 70
  Unit = 4
  HoldClocks = 2
  HtimeStep = 2
  HTimes = {0}
  VTimes = {0}
  Speeds = {3, 6}
  ClockMod = 6
  DmaSizes = {12}
  ProgramOps = {"mdmaen", "hdmaen"}
  NmitimenValues = {}
  RegisterSpeed = 3
  FetchCycles = 2
  EntryCycles = 2
  MdmaBound = 3
  DeferralBound = 2
INVARIANTS
  StartDelayJustified
  HdmaBeforeLatch
  NoDuplicateRequest
  MdmaServed
  NoDmaFrontier
PROPERTY
  FramesGoOn

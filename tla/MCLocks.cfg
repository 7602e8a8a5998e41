SPECIFICATION Spec
CONSTANTS
  LinePeriod = 28
  ShortPeriod = 28
  ShortLine = 9
  Lines = 4
  VblankLine = 1
  OverscanLine = 3
  RaiseH = 1
  EdgeH = 2
  InitH = 1
  RefreshH = 10
  RefreshClocks = 1
  HdmaH = 14
  Unit = 1
  HoldClocks = 2
  HtimeStep = 2
  HTimes = {4}
  VTimes = {1}
  Speeds = {1}
  ClockMod = 1
  DmaSizes = {16}
  ProgramOps = {"nmitimen", "setini", "mdmaen", "hdmaen"}
  NmitimenValues <- NmiOnly
  RegisterSpeed = 1
  FetchCycles = 2
  EntryCycles = 2
  MdmaBound = 3
  DeferralBound = 3
INVARIANTS
  EdgeAccounting
  DeferralBounded

SPECIFICATION Spec
CONSTANTS
  LinePeriod = 20
  ShortPeriod = 18
  ShortLine = 1
  Lines = 3
  VblankLine = 2
  OverscanLine = 2
  RaiseH = 1
  EdgeH = 3
  InitH = 6
  RefreshH = 12
  RefreshClocks = 3
  HdmaH = 99
  Unit = 4
  HoldClocks = 2
  HtimeStep = 2
  HTimes = {2, 7}
  VTimes = {1}
  Speeds = {3}
  ClockMod = 3
  DmaSizes = {}
  ProgramOps = {"nmitimen", "rdnmi", "timer", "timeup", "mask", "native", "rti"}
  NmitimenValues <- Nmitimen
  RegisterSpeed = 3
  FetchCycles = 2
  EntryCycles = 2
  MdmaBound = 3
  DeferralBound = 2
INVARIANTS
  TypeOK
  TimerIrqConsistent
  FrameDiscipline
  RefreshOncePerLine
  RdnmiWindow
  OnePollPerFrame
PROPERTY
  ImplementsFrames

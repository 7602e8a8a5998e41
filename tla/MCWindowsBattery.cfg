SPECIFICATION Spec
CONSTANTS
  RingCap = 1
  DevCap = 6
  Guard = 1
  Target = 4
  Slack = 0
  Averaging = 2
INVARIANTS
  BatteryPersists
CHECK_DEADLOCK FALSE

SPECIFICATION Spec
CONSTANTS
  Bits = 3
  Keys <- TwoKeys
  Opposite <- Pairs
INVARIANTS
  TypeOK
  TapsReachGuest
  NoPhantomKeys
  SerialReadsOneSample
  AutoReadsFrame

CONSTANTS
  Images = {i0, i1, i2}
  Blank = i0
  Missing = missing
  Partial = partial
  Dirs = {d1}
  FirstFiles = {i1, i2}
  Volumes = {FALSE}
  Interval = 2
  Wrap = 8
  MaxFrame = 2
SPECIFICATION Spec
INVARIANT BatterySurvives

CONSTANTS
  Images = {i0, i1, i2}
  Blank = i0
  Missing = missing
  Partial = partial
  Dirs = {d1, d2}
  FirstFiles = {i1, i2, missing, partial}
  Volumes = {TRUE, FALSE}
  Interval = 1
  Wrap = 8
  MaxFrame = 1
SPECIFICATION Spec
SYMMETRY Interchangeable
INVARIANTS TypeOK CleanIsPersisted
PROPERTY NeverTorn
\* A host all of whose directories hold a foreign file never starts.
CHECK_DEADLOCK FALSE

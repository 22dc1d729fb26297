SPECIFICATION Spec
CONSTANTS
  d1 = d1
  d2 = d2
  Devices = {d1, d2}
  Capacity = 2
  Sinces = {0}
  Filtered = FALSE
  MaxUploads = 2
  MaxSubs = 2
  MaxTimers = 1
  MaxTime = 2
CONSTRAINT Bounded
SYMMETRY Symmetry
INVARIANTS TypeOK NoGap
 
CHECK_DEADLOCK FALSE

SPECIFICATION FairSpec
CONSTANTS
  d1 = d1
  d2 = d2
  Devices = {d1, d2}
  Capacity = 3
  Sinces = {0}
  Filtered = FALSE
  MaxUploads = 1
  MaxSubs = 2
  MaxTimers = 1
  MaxTime = 1
PROPERTY OnlineDevicesTold
CHECK_DEADLOCK FALSE

SPECIFICATION FairSpec
CONSTANTS
  uploaded = uploaded
  created = created
  garbage = garbage
  i1 = i1
  i2 = i2
  h1 = h1
  Events = {uploaded, garbage}
  WellFormed = {uploaded}
  Ids = {i1, i2, h1}
  IdOf <- MCIdOf
  Workers = {w1, w2}
  MaxRetries = 2
  Store = "redis"
  MaxCrashes = 1
  MaxErrors = 1
  MaxForgets = 1
INVARIANT HandledOnce
 
CHECK_DEADLOCK FALSE

SPECIFICATION FairSpec
CONSTANTS
  uploaded = uploaded
  created = created
  garbage = garbage
  i1 = i1
  i2 = i2
  h1 = h1
  Events = {uploaded, created, garbage}
  WellFormed = {uploaded, created}
  Ids = {i1, i2, h1}
  IdOf <- MCIdOf
  Workers = {w1}
  MaxRetries = 2
  Store = "memory"
  MaxCrashes = 1
  MaxErrors = 0
  MaxForgets = 0
INVARIANT TypeOK
 
CHECK_DEADLOCK FALSE

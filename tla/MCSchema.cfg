SPECIFICATION FairSpec
CONSTANTS
  i1 = i1
  i2 = i2
  f1 = f1
  f2 = f2
  r1 = r1
  r2 = r2
  r3 = r3
  Instances = {i1, i2}
  Deployments <- MCDeployments
  Files = {f1, f2}
  Rows = {r1, r2, r3}
  Batch = 2
  TextDefaults = FALSE
INVARIANTS
  TypeOK
  OkMeansMigrated
  NextStartMigrates
  
PROPERTY
  EncryptEnds

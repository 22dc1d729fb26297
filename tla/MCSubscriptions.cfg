SPECIFICATION FairSpec
CONSTANTS
  Accounts = {a1}
  Hashes = {d1, d2}
  Streams = {s1, s2}
  Subscribers = {q1}
  Updaters = {u1}
  Capacity = 1
  MaxFailures = 2
INVARIANTS TypeOK  RegisteredMonitored
PROPERTY LeftIsUnregistered

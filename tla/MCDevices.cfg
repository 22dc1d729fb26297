SPECIFICATION DevicesSpec
CONSTANTS
  Accounts = {a1, a2}
  Hashes = {d1}
  Calls = {q1, q2, q3}
SYMMETRY Symmetry
INVARIANTS
  DevicesTypeOK
  AnsweredRegistered
PROPERTY DeviceKeepsAccount

SPECIFICATION Spec
CONSTANTS
  Devices = {d1}
  TempDevice = temp
  Emails = {e1, e2}
  ClientHashes = {c}
  Requests = {q1, q2}
  MaxRandom = 2
SYMMETRY Symmetry
INVARIANTS
  TypeOK
  AnsweredAccepted
  SessionAccount
  KeysAgree

SPECIFICATION Spec
CONSTANTS
  Gids = {1, 2}
  Wids = {w}
  Folders = {f}
  Conds = {c}
  Configs <- OneGroup
  Requests = {q1, q2}
  Attempts = 2
  MaxRequests = 3
  MaxTime = 1
INVARIANTS TypeOK NoOrphans AnswersOwnWatchers
PROPERTIES EmptyMessagesKeepConditions ImplementsIdMap
CHECK_DEADLOCK FALSE
SYMMETRY RequestSymmetry

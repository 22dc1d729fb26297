SPECIFICATION Spec
CONSTANTS
  k1 = k1
  k2 = k2
  q1 = q1
  q2 = q2
  Keys = {k1, k2}
  Requests = {q1, q2}
  MaxRevisions = 1
  Ttl = 0
  IdCollisions = TRUE
  MaxRow = 2
  MaxRev = 3
  MaxTime = 1
SYMMETRY Symmetry
INVARIANT UploadSupersedes

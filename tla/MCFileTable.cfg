SPECIFICATION Spec
CONSTANTS
  k1 = k1
  q1 = q1
  q2 = q2
  Keys = {k1}
  Requests = {q1, q2}
  MaxRevisions = 1
  Ttl = 0
  IdCollisions = FALSE
  MaxRow = 3
  MaxRev = 3
  MaxTime = 1
SYMMETRY Symmetry
INVARIANTS TypeOK RevisionsInRealTimeOrder UploadSupersedes DeleteIsFinal
 

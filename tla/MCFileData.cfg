\* Two requests over two files, for the two kinds of file storage.
CONSTANTS
  MaxFiles = 2
  Requests = {q1, q2}
  Backends = {"database", "s3"}
SPECIFICATION Spec
INVARIANTS TypeOK AckedReadable CacheBacked AckedKept CellHeldByChecker
SYMMETRY RequestSymmetry

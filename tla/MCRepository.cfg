SPECIFICATION Spec
CONSTANTS
  ca = ca
  cb = cb
  cc = cc
  Chunk = {ca, cb, cc}
  Point = {p1, p2}
  Trees <- MCTrees
  Bytes <- MCBytes
  PackTarget = 4
  MaxCrashes = 1
  ResetMayFail = FALSE
INVARIANTS
  TypeOK
  IInv
  PointsDurable
  PointsReadable
  DedupIsSafe
PROPERTY
  ImplementsPointStore

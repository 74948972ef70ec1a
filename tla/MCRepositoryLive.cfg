SPECIFICATION FairSpec
CONSTANTS
  ca = ca
  cb = cb
  cc = cc
  Chunk = {ca, cb, cc}
  Point = {p1, p2}
  Trees <- MCTreesSmall
  Bytes <- MCBytes
  PackTarget = 4
  MaxCrashes = 1
  ResetMayFail = TRUE
PROPERTY DeadPacksReclaimed

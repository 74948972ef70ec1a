SPECIFICATION FairSpec
CONSTANTS
  a = a
  b = b
  p1 = p1
  p2 = p2
  Chunk = {a}
  Point = {p1}
  Worker = {w1}
  Need <- MCNeedOne
  Bytes <- MCBytes
  Repack = FALSE
  Remote = {p1}
  Pausable = {}
  Expirable = {p1}
  RemoteOnly = {}
  MaxCrashes = 2
CHECK_DEADLOCK FALSE
PROPERTY QueuedIsUploaded

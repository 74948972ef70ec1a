SPECIFICATION Spec
CONSTANTS
  a = a
  b = b
  p1 = p1
  p2 = p2
  Chunk = {a, b}
  Point = {p1, p2}
  Worker = {w1}
  Need <- MCNeed2
  Bytes <- MCBytes
  Repack = TRUE
  Remote = {p1, p2}
  Pausable = {}
  Expirable = {p1}
  RemoteOnly = {}
  MaxCrashes = 0
CHECK_DEADLOCK FALSE
INVARIANT ProtectedIsRecoverable

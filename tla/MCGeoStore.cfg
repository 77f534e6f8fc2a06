SPECIFICATION FairSpec
CONSTANTS
  Vehicles = {v1, v2}
  Loops = {u1}
  Pruners = {p1, p2}
  TTL = 2
  None = None
  v1 = v1
  v2 = v2
  u1 = u1
  p1 = p1
  p2 = p2
INVARIANT TypeOK
INVARIANT HiddenOnlyByRace
PROPERTY HiddenEnds
PROPERTY GoneIsPruned

SPECIFICATION Spec
CONSTANTS
  Streams = {s1, s2}
  Vehicles = {v1, v2}
  Workers = {w1, w2}
  ChanCap = 1
  MaxPings = 2
  MaxCopies = 1
  Kinds = {"good", "invalid"}
  None = None
  s1 = s1
  s2 = s2
  v1 = v1
  v2 = v2
  w1 = w1
  w2 = w2
SYMMETRY Symmetry
INVARIANT TypeOK
INVARIANT Conservation
INVARIANT LostOnlyIfLate
INVARIANT WriterClosedLast
INVARIANT SessionEntryLive
INVARIANT SoleStreamRegistered
PROPERTY RelaySpec

SPECIFICATION FairSpec
CONSTANTS
  Streams = {s1}
  Vehicles = {v1}
  Workers = {w1, w2}
  ChanCap = 2
  MaxPings = 3
  MaxCopies = 2
  Kinds = {"good", "invalid", "nan"}
  None = None
  s1 = s1
  v1 = v1
  w1 = w1
  w2 = w2
INVARIANT OvertakesFew
PROPERTY AcceptedIsSettled
PROPERTY ShutdownCompletes

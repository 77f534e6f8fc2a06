SPECIFICATION FairSpec
CONSTANTS
  Vehicles = {v1}
  Speeds = {0, 120, 121}
  Places = {0, 500, 501}
  Terms = {w1}
  Silence = 1
  None = None
  v1 = v1
  w1 = w1
INVARIANT SpeedAndRouteRaised
PROPERTY SilenceReported

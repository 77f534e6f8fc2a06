SPECIFICATION Spec
CONSTANTS
  Vehicles = {v1, v2}
  Speeds = {0}
  Places = {0}
  Terms = {w1, w2}
  Silence = 1
  None = None
  v1 = v1
  v2 = v2
  w1 = w1
  w2 = w2
SYMMETRY Symmetry
INVARIANT TypeOK
INVARIANT FiredMeansReported
INVARIANT OneReportPerSilence

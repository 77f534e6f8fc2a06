SPECIFICATION Spec
CONSTANTS
  i1 = i1
  i2 = i2
  p1 = p1
  p2 = p2
  Instances = {i1, i2}
  Partitions = {p1}
  Length = 3
  Unparsable <- SecondUnparsable
  Capacity = 2
  MaxTerm = 2
  MaxMoves = 1
  None = None
SYMMETRY Symmetry
INVARIANT TypeOK
INVARIANT OneInFlight
INVARIANT CommittedIsChecked
PROPERTY LogSpec
CHECK_DEADLOCK FALSE

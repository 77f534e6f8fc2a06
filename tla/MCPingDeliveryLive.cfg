SPECIFICATION FairSpec
CONSTANTS
  i1 = i1
  i2 = i2
  p1 = p1
  p2 = p2
  Instances = {i1}
  Partitions = {p1, p2}
  Length = 2
  Unparsable <- SecondUnparsable
  Capacity = 2
  MaxTerm = 2
  MaxMoves = 1
  None = None
CHECK_DEADLOCK FALSE
PROPERTY LedPartitionsDrain

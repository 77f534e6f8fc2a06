SPECIFICATION FairSpec
CONSTANTS
  Instances = {i1, i2}
  i1 = i1
  i2 = i2
INVARIANT TypeOK
INVARIANT SoleLeader
INVARIANT KeysBounded
PROPERTY LockSpec
PROPERTY SurvivorLeads
PROPERTY StaleLeaderStops

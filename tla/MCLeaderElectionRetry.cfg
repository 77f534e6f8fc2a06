SPECIFICATION FairSpec
CONSTANTS
  Instances = {i1}
  i1 = i1
PROPERTY RetrySucceeds

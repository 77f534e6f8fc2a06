SPECIFICATION Spec
CONSTANTS
  Callers = {c1, c2}
  Limit = 2
  Window = 4
  Skew = 1
  MaxTime = 6
  MaxCalls = 4
  c1 = c1
  c2 = c2
\* MaxTime and MaxCalls end the run.
CHECK_DEADLOCK FALSE
INVARIANT TypeOK
INVARIANT WindowBound
INVARIANT RefusedOnlyIfFull

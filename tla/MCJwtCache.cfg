SPECIFICATION Spec
CONSTANTS
  Requests = {r1, r2}
  Tokens = {t1, f1}
  Forged = {f1}
  Life = 2
  Skew = 1
  Lag = 1
  MaxTime = 6
  None = None
  r1 = r1
  r2 = r2
  t1 = t1
  f1 = f1
INVARIANT TypeOK
INVARIANT AcceptedIsValid
INVARIANT RefusedIsOver

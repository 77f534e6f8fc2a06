SPECIFICATION Spec
CONSTANTS
  h1 = h1
  h2 = h2
  e1 = e1
  e2 = e2
  pw1 = pw1
  pw2 = pw2
  t1 = t1
  t2 = t2
  Handlers = {h1, h2}
  Emails = {e1, e2}
  Passwords = {pw1, pw2}
  Tokens = {t1, t2}
  None = None
SYMMETRY Symmetry
INVARIANT TypeOK
INVARIANT ToldIsRegistered
INVARIANT HeldIsStored
INVARIANT DeadTokenRefused

CONSTANTS
  Stores = {s1, s2}
  Accounts = {a1, a2}
  Tokens = {t1, t2}
  MayFail = FALSE
  MaxCalls = 3
SPECIFICATION Spec
SYMMETRY Symmetry
INVARIANT Stored
CHECK_DEADLOCK FALSE

CONSTANTS
  Stores = {s1, s2}
  Accounts = {a1, a2}
  Tokens = {t1, t2}
  MayFail = TRUE
  MaxCalls = 4
SPECIFICATION Spec
SYMMETRY Symmetry
INVARIANTS TypeOK Retrievable NothingInvented
CHECK_DEADLOCK FALSE

CONSTANTS
  Count = 3
  Threads = {t1, t2, t3}
  MaxRounds = 4
SPECIFICATION Spec
SYMMETRY Symmetry
INVARIANTS RoundRobin ListsEveryServer
CHECK_DEADLOCK FALSE

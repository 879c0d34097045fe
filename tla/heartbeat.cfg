CONSTANT MaxClones = 4
SPECIFICATION Spec
INVARIANTS BeatsWhileHeld AtMostOneLate
PROPERTY HeartbeatEnds
CHECK_DEADLOCK FALSE

CONSTANTS
  HeaderLength = 2
  MaxItems = 2
  MaxChildren = 2
  MaxLength = 2
  Connections <- SmallConnections
SPECIFICATION Spec
INVARIANTS InOrder DamageContained HeaderIntact FramesAsSent
CHECK_DEADLOCK FALSE

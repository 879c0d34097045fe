CONSTANTS
  Flows <- AllFlows
  Chains <- SmallChains
  Offers <- SmallOffers
  EndsDuring <- Everywhere
SPECIFICATION Spec
PROPERTY LoginEnds
CHECK_DEADLOCK FALSE

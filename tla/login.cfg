CONSTANTS
  Flows <- AllFlows
  Chains <- SmallChains
  Offers <- SmallOffers
  EndsDuring <- Everywhere
SPECIFICATION Spec
INVARIANTS TypeOK LogonMeansGranted NoHandlerOverlooked CleanSession GuardDataOffered
PROPERTY EndsUnlessCutOff
CHECK_DEADLOCK FALSE

CONSTANTS
  NConvs = 3
  MaxClock = 3
  MaxDepth = 2
  MaxEvents = 2
SPECIFICATION Spec
INVARIANTS TypeOK ListCurrent DisorderOnlyBelowPins

CONSTANT
  MaxSignals = 3
SPECIFICATION FairSpec
INVARIANTS TypeOK WorksOnFullCaches OneInformerPerKind AllExposed ExitCodeIsTrue
PROPERTIES SignalEnds ComesToServe
CHECK_DEADLOCK FALSE

SPECIFICATION Spec
CONSTANTS
  f1 = f1 f2 = f2
  Files = {f1}
  Lag = 1
  BusCapacity = 1
  BusInTime = TRUE
  MaxLines = 1
  MaxSessions = 2
  MaxTime = 1
  MaxStops = 1
INVARIANT CursorBehindBus
PROPERTY EveryTurnIsStored

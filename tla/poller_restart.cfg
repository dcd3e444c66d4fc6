SPECIFICATION Spec
CONSTANTS
  f1 = f1 f2 = f2
  Files = {f1}
  Lag = 1
  BusCapacity = 1
  BusInTime = TRUE
  MaxLines = 3
  MaxSessions = 1
  MaxTime = 2
  MaxStops = 1
INVARIANTS CheckpointBehindStore StoredAsWritten

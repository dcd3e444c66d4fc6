SPECIFICATION Spec
CONSTANTS
  e1 = e1
  e2 = e2
  e3 = e3
  Events = {e1, e2, e3}
  Ingested = {e1, e2}
  Malformed = {e2}
  QueueCapacity = 1
  BatchSize = 2
  FlushRetries = 1
  SinkErrors = {"contended", "failed"}
  SkipCap = 1
INVARIANTS NothingVanishes SettledIsAccountedFor DroppedIsExact DrainIsComplete
PROPERTIES ImplementsLog ContentionOnlyDelays StopEndsTheWorker AcceptedIsSettled

SPECIFICATION Spec
CONSTANTS
  q1 = q1 t1 = t1 t2 = t2
  Requests = {q1}
  Tasks = {t1, t2}
  Audited = {q1, t1}
  MaxConcurrent = 1
INVARIANTS CleanStopLosesNothing NoRecorderOutlivesTheStore
PROPERTY ShutdownEnds

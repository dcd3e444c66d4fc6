SPECIFICATION Spec
CONSTANTS
  a = a b = b x = x y = y
  r1 = r1 r2 = r2
  Ids = {a, b, x, y}
  Ts <- Stamped
  Typed = {a, b, x}
  Horizon = 3
  Span = 2
  TailRows = 2
  LogKeep = 1
  Policies <- Retention
  Batches = {{b, x}}
  Reinsert = FALSE
  Readers = {r1}
  Froms = {0, 1}
  Start = 2
  MaxTime = 3
  MaxRow = 4
  MaxChanges = 2
  MaxReads = 0
INVARIANT AnswersAsTheStore

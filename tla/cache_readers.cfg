SPECIFICATION Spec
CONSTANTS
  a = a b = b x = x y = y
  r1 = r1 r2 = r2
  Ids = {a, b}
  Ts <- Recent
  Typed = {a, b}
  Horizon = 3
  Span = 2
  TailRows = 1
  LogKeep = 1
  Policies <- RetentionA
  Batches = {{b}}
  Reinsert = FALSE
  Readers = {r1, r2}
  Froms = {0, 1}
  Start = 2
  MaxTime = 3
  MaxRow = 2
  MaxChanges = 1
  MaxReads = 3
INVARIANTS OneFill
PROPERTY ReadReturns

\* Two goroutines, two EventLog values, up to four rows and two reopenings.
CONSTANTS
  t1 = t1
  t2 = t2
  l1 = l1
  l2 = l2
  a = a
  b = b
  Thread = {t1, t2}
  Log = {l1, l2}
  Payload = {a, b}
  MaxRows = 3
  MaxOpens = 2
SPECIFICATION Spec
SYMMETRY Symmetry
INVARIANTS
  ChainIntact
  RowsRooted
\* The callers may stop appending.
CHECK_DEADLOCK FALSE

\* Two goroutines append to one EventLog value; no process dies.
CONSTANTS
  t1 = t1
  t2 = t2
  l1 = l1
  l2 = l2
  a = a
  b = b
  Thread = {t1, t2}
  Log = {l1}
  Payload = {a, b}
  MaxRows = 3
  MaxOpens = 0
SPECIFICATION Spec
INVARIANT ChainedToPrevious
\* The callers may stop appending.
CHECK_DEADLOCK FALSE

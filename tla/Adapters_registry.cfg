\* Two adapter objects, two goroutines, two IDs.
CONSTANTS
  a1 = a1
  a2 = a2
  w1 = w1
  w2 = w2
  i1 = i1
  i2 = i2
  Id = {i1, i2}
  Adapter = {a1, a2}
  Worker = {w1, w2}
  Kinds = {"http", "ssh", "grpc", "mqtt", "mesh"}
  Attempts = 2
  None = None
SPECIFICATION Spec
INVARIANTS
  OrphansExplained
  RegisteredOpen
PROPERTY TakesBackItsOwn
SYMMETRY Symmetry
\* A panic ends the process, and adapters are bounded.
CHECK_DEADLOCK FALSE

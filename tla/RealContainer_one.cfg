\* One container and three starts.
CONSTANTS
  q1 = q1
  q2 = q2
  q3 = q3
  Container = {c1}
  Process = {q1, q2, q3}
  Nil = Nil
SPECIFICATION Spec
INVARIANT OneProcess
CHECK_DEADLOCK FALSE

\* One entity; each of its callers, the detector and the reconciler at work.
CONSTANTS
  o1 = o1
  o2 = o2
  number = number
  float = float
  Entity = {e1}
  Object = {o1, o2}
  Value = {number, float}
  Json <- MCJson
  Snap = {s1}
  Detector = {d1}
  Reconciler = {r1}
  Nil = Nil
  MaxVersion = 3
  MaxRestarts = 1
SPECIFICATION Spec
SYMMETRY Symmetry
VIEW Live
INVARIANTS
  DbMirrors
PROPERTY VersionsTell
\* Versions are bounded.
CHECK_DEADLOCK FALSE

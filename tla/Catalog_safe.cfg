\* One ID registered again and again, by two goroutines that hold its objects.
CONSTANTS
  o1 = o1
  o2 = o2
  o3 = o3
  Id = {e1}
  Object = {o1, o2, o3}
  Type = {server, api}
  State = {unknown, healthy}
  Adapter = {a1}
  Unknown = unknown
  Goroutine = {t1, t2}
  Nil = Nil
  MaxListed = 2
SPECIFICATION Spec
SYMMETRY Symmetry
VIEW Live
INVARIANTS
  Listed
  TypesExact
\* Listings are bounded.
CHECK_DEADLOCK FALSE

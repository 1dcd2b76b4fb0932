\* Two containers and two starts between them.
CONSTANTS
  q1 = q1
  q2 = q2
  q3 = q3
  Container = {c1, c2}
  Process = {q1, q2}
  Nil = Nil
SPECIFICATION FairSpec
INVARIANTS
  RunningWatched
  OnlyRunTracked
PROPERTIES
  StopKills
  DeathNoticed
\* A CreateContainer that names an image never returns.
CHECK_DEADLOCK FALSE

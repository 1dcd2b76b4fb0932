CONSTANTS
  Nil = Nil
  Box = {b1, b2}
  Proc = {1, 2}
  User = {u1, u2}
  Interface = {u2}
  Container = {k1, k2}
  Net = {n1}
  NetName = {"bridge", "net"}
  Client = {1}
  Given = {3}
  Image = {1, 2, 3}
  Name = {m1, m2}
  Caller = {g1, g2}
  Threshold = 2
  ResetTimeout = 2
  RequestID = {1, 2}
  TTL = 2
  Period = 2
  MaxClock = 7
  Id = {p1, p2}
  Priority = {1, 2}
  Request = {"start", "stop"}
  RuleList <- MCRuleList
  MaxPerMin = 2
  Minute = 2
  LastTick = 5
  Type = {"crash"}
  Word = {"oom"}
  Metric = {"cpu"}
  Written <- MCWritten
  Tuner = {t1}
  Top = 2
  Few = 1
  Some = 2
  Many = 3
  Streak = 2
  MaxCount = 3
  Entity = {e1, e2, e3}
  MaxListed = 3
SPECIFICATION Spec
INVARIANTS
  TypesOK
  RunningRecorded
  StatusAgrees
  AddressesDiffer
  NamesLead
  DecisionsRight
  DependenciesSound
PROPERTIES
  PruneSpares
  FailsFast
  OncePerTTL
SYMMETRY Symmetry
CHECK_DEADLOCK FALSE

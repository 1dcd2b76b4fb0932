CONSTANTS
  Item = {1, 2}
  Source = {s1}
  Channel = {c1}
  Capacity = 1
  Pending = 1
  Interval = 2
  Limit = 1
  EndOfTime = 2
  All = All
  None = None
  Node = {1, 2, 3}
  Changes = 1
SPECIFICATION Spec
INVARIANTS
  NothingLost
  SubscribersServed
  QueriesRight
PROPERTIES
  Recorded
  OneCoordinator
CHECK_DEADLOCK FALSE

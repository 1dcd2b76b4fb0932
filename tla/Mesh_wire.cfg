\* One peer, two connections (one reconnection), two requests.
CONSTANTS
  c1 = c1
  c2 = c2
  q1 = q1
  q2 = q2
  Peer = {p1}
  Conn = {c1, c2}
  Call = {q1, q2}
  None = None
  Retries = 1
  Kinds = {"state", "command", "ping", "chunk"}
  Chunks = 2
  MaxUnread = 2
SPECIFICATION Spec
INVARIANTS
  Maintained
  Paired
  LostOnlyByReconnection
SYMMETRY Symmetry
\* The adapter can be disconnected with no request left.
CHECK_DEADLOCK FALSE

CONSTANTS
  q1 = q1
  q2 = q2
  p1 = p1
  p2 = p2
  Request = {q1, q2}
  Peer = {p1}
  Host = host
  None = None
  Room = 1
  Workers = {1}
SPECIFICATION Spec
INVARIANT FanOutWithoutInput
CHECK_DEADLOCK FALSE

SPECIFICATION Spec
CONSTANTS
  p1 = p1
  p2 = p2
  c1 = c1
  c2 = c2
  s1 = s1
  s2 = s2
  Publishers = {p1, p2}
  Callers = {c1, c2}
  Subs = {s1, s2}
  BufSize <- MCBufSize
  MaxCalls <- MCMaxCalls
  Nobody = Nobody
INVARIANTS
  NoPanic
  NoSilentLoss
  LossNeedsBacklog
  PublisherOrder
PROPERTIES
  ImplementsFanout
SYMMETRY Symmetry
CHECK_DEADLOCK FALSE

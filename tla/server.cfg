SPECIFICATION Spec
CONSTANTS
  c1 = c1
  c2 = c2
  b1 = b1
  b2 = b2
  p1 = p1
  Nothing = Nothing
  Conns = {c1, c2}
  Paths = {p1}
  Buffers = {b1, b2}
  MaxRequests <- OnFirst
  MaxDelay = 1000
  IdleTimeout = TRUE
  ReadTimeout = TRUE
  WriteTimeout = TRUE
INVARIANTS AnsweredInOrder AliveIsExact BuffersArePrivate OneMoreAnswer GoneClientsEnd
CHECK_DEADLOCK FALSE
SYMMETRY BufferSymmetry

SPECIFICATION Spec
CONSTANTS
  u1 = u1
  u2 = u2
  c1 = c1
  c2 = c2
  k1 = k1
  NoConn = NoConn
  Users = {u1}
  Conns = {c1, c2}
  Keys = {k1}
  KeyOf <- OneKey
  MaxCapacity = 1
  IdleTimeout = 1
  MaxExpiring = 1
  maxRetryCount = 1
INVARIANTS ExpiredCallReturns

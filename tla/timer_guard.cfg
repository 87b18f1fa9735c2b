SPECIFICATION Spec
CONSTANTS
  c1 = c1
  c2 = c2
  e1 = e1
  e2 = e2
  l1 = l1
  l2 = l2
  Nobody = Nobody
  Callers = {c1, c2}
  Expirers = {e1, e2}
  Loops = {l1, l2}
INVARIANTS TimerIsGuarded
CHECK_DEADLOCK FALSE

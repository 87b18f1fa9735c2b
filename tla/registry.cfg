SPECIFICATION FairSpec
CONSTANTS
  p1 = p1
  p2 = p2
  m1 = m1
  m2 = m2
  x1 = x1
  Nil = Nil
  Procs = {p1, p2}
  Names <- TheName
  Views <- Chains
  Letters <- TheLetters
  Metrics = {m1, m2, x1}
  Meters = {m1, m2}
  Unknown = {x1}
INVARIANTS OneMetricPerName NoMeterIsOrphaned PrefixesCompose
PROPERTIES EveryCallReturns

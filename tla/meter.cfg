SPECIFICATION MeterSpec
CONSTANTS
  Tickers = {arbiter}
  Markers = {m1, m2}
  Stoppers = {s1, s2}
  MaxEvents = 3
  MaxTicks = 2
INVARIANTS EventsConserved ArbiterTicksCount RatesAreCounted
PROPERTIES StopIsFinal
SYMMETRY Alike
CHECK_DEADLOCK FALSE

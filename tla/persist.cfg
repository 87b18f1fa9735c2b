SPECIFICATION FairSpec
CONSTANT MaxTrips = 3
INVARIANTS NoCrossTalk Quiescent SendsNeverBlock
PROPERTIES ImplementsExchange TripReturns CloseStopsLoops
CHECK_DEADLOCK FALSE

SPECIFICATION Spec
CONSTANTS
  w1 = w1
  w2 = w2
  NoCaller = NoCaller
  Routes = {1, 2}
  Callers = {w1, w2, g1}
  Workers = {w1, w2}
  Models <- MCOneModel
  Sighted <- MCSighted
  Images = FALSE
  GuestRoutes = {1, 2}
  FailureThreshold = 2
  Plans <- MCOneCall
  MaxCalls = 1
  MaxStep = 1
  MaxRevision = 0
  MaxBudget = 2
  MaxFaults = 2
CHECK_DEADLOCK FALSE
INVARIANTS
  InterruptedRunsResume

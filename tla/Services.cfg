SPECIFICATION ServicesSpec
CONSTANTS
  w1 = w1
  w2 = w2
  NoCaller = NoCaller
  None = None
  Routes = {1, 2}
  Callers = {w1, w2, g1}
  Workers = {w1, w2}
  Models <- MCModels
  Sighted <- MCSighted
  Images = TRUE
  GuestRoutes = {1}
  FailureThreshold = 1
  Plans <- MCPlans
  MaxCalls = 3
  MaxStep = 1
  MaxRevision = 1
  MaxBudget = 2
  MaxFaults = 1
  Users = {u1}
  Offers = {f1, f2}
  Subscribing = {f1}
  MaxPayments = 2
  Period = 1
  MaxOrders = 2
  MaxRefunds = 1
  MaxEvents = 3
  MaxTime = 1
  MaxCreations = 2
  MaxJoins = 2
  MaxVerificationFaults = 1
  MaxTurn = 2
  MaxDreamAttempts = 2
  MaxCommands = 2
  MaxDreamFaults = 1
  Chats = {h1, h2}
  MaxExpansions = 2
  MaxAnnouncementClaims = 4
  MaxAnnouncementFaults = 2
  ScheduleIds = {1, 2}
  Every <- MCEvery
  Skipping = {2}
  MaxScheduleTime = 3
  MaxOccurrenceAttempts = 2
  MaxScheduleClaims = 3
  MaxScheduleEdits = 1
  MaxScheduleFaults = 1
  b1 = b1
  b2 = b2
  b3 = b3
  Bindings = {b1, b2, b3}
  PhaseOf <- MCPhase
  Stoppers = {s1, s2}
  Tellers = {1, 2}
  Citizens = {1, 2, 3}
  Endowment <- MCEndowment
  Agendas <- MCAgendas
  Members = {1, 2}
  GiftLimit = 1
  Cooldown = 2
  Bonus = 1
  Payouts = {0, 3}
  ProjectCost = 3
  MaxContextTurns = 4
  MaxOpened = 3
  Uploads = {3, 4}
  Translations = {2}
  WarningMessages = 2
  HardMessages = 3
  KeptRows = 1
  SegmentRows = 2
  ContextBudget = 1
  MaxSummaryAttempts = 2
  MaxTroubles = 1
SYMMETRY MCSymmetry
INVARIANTS
  ServicesTypeOK
  NothingForReturnedMoney
  PeriodsDisjoint
  RefundsInStep
  AnswerOrDeadline
  ForgottenStays
  EachEventOnce
  ReportComplete
  FiresInOrder
  StopInOrder
  PaidOnce
  BooksAgree
  ContextIsWhole
  FilesAreAccounted
PROPERTIES
  CircuitsRecover
  EffectsOnce
CHECK_DEADLOCK FALSE

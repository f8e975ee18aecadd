SPECIFICATION FairSpec
CONSTANTS
  t1 = t1
  chat = chat
  NoTurn = NoTurn
  NoMessage = NoMessage
  NoClaim = NoClaim
  Messages <- MCMessages
  Streams = {chat}
  StreamOf <- MCStreamOf
  Turns = {t1}
  TurnOf <- MCTurnOf
  Progress <- MCProgress
  SourceOf <- MCSourceOf
  Workers = {w1, w2}
  MaxAttempts = 2
  MaxStored = 4
  MaxFaults = 1
INVARIANTS
  TypeOK
  StreamOrder
  PlanOutcome
  ReceiptsDecide
  ProgressPrecedesReply
PROPERTIES
  EveryMessageSettles
CHECK_DEADLOCK FALSE

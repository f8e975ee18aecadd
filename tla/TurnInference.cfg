SPECIFICATION FairSpec
CONSTANTS
  c1 = c1
  c2 = c2
  u1 = u1
  MaxInput = 3
  Conversations = {c1}
  ConversationOf <- MCOneConversation
  UserOf <- MCOneUser
  Scheduled = {3}
  Plain = {1, 2}
  Capacity = 1
  MaxBudget = 1
  MaxResets = 1
  MaxFaults = 1
CHECK_DEADLOCK FALSE
INVARIANTS
  TypeOK
  TurnMatchesActivity
  ReplyAnswersEveryInput
  StoredOnce
PROPERTIES
  RepliesForgetReset
  EveryTurnEnds

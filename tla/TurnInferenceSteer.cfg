SPECIFICATION Spec
CONSTANTS
  c1 = c1
  c2 = c2
  u1 = u1
  MaxInput = 2
  Conversations = {c1}
  ConversationOf <- MCOneConversation
  UserOf <- MCOneUser
  Scheduled = {}
  Plain = {1, 2}
  Capacity = 1
  MaxBudget = 1
  MaxResets = 0
  MaxFaults = 0
CHECK_DEADLOCK FALSE
INVARIANTS
  SteerNeverRefused

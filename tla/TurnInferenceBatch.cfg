SPECIFICATION Spec
CONSTANTS
  c1 = c1
  c2 = c2
  u1 = u1
  MaxInput = 3
  Conversations = {c1, c2}
  ConversationOf <- MCTwoConversations
  UserOf <- MCOneUser
  Scheduled = {1}
  Plain = {2, 3}
  Capacity = 2
  MaxBudget = 1
  MaxResets = 0
  MaxFaults = 0
CHECK_DEADLOCK FALSE
INVARIANTS
  ConversationsIndependent

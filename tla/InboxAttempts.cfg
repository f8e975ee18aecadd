SPECIFICATION Spec
CONSTANTS
  c1 = c1
  NoClaim = NoClaim
  MaxUpdate = 2
  Conversations = {c1}
  ConversationOf <- MCOneConversation
  Workers = {w1, w2}
  MaxAttempts = 1
  MaxFaults = 2
CHECK_DEADLOCK FALSE
INVARIANTS
  BoundedAttempts

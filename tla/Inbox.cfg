SPECIFICATION FairSpec
CONSTANTS
  c1 = c1
  NoClaim = NoClaim
  MaxUpdate = 2
  Conversations = {c1}
  ConversationOf <- MCOneConversation
  Workers = {w1, w2}
  MaxAttempts = 2
  MaxFaults = 2
INVARIANTS
  TypeOK
  NoUpdateLost
  SettledInOrder
  LastClaimSettles
PROPERTIES
  EveryUpdateSettles
  StopEnds

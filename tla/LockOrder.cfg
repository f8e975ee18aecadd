SPECIFICATION EconomySpec
CONSTANTS
  Tellers = {1, 2}
  Citizens = {1, 2, 3}
  Endowment <- MCEndowment
  Agendas <- MCAgendas
  Members = {1, 2}
  GiftLimit = 1
  Cooldown = 2
  Bonus = 1
  Payouts = {0, 3}
  ProjectCost = 3
CHECK_DEADLOCK FALSE
INVARIANTS
  LocksInOrder

SPECIFICATION VerificationSpec
CONSTANTS
  MaxCreations = 1
  MaxJoins = 1
  MaxVerificationFaults = 0
INVARIANTS
  NobodyLeftMuted
CHECK_DEADLOCK FALSE

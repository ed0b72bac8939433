SPECIFICATION Spec
CONSTANTS
  Request = {"r1", "r2"}
  Email = {"ram"}
  MaxFailures = 1
  PasswordSlots = 1
  Writers = 1
  MaxPending = 1
  MaxAccounts = 2
  MaxTokens = 2
  MaxEntries = 1
  MaxCalls = 4
INVARIANT AccountsHold
PROPERTY SignedOutIsOut
PROPERTY AllEnds
CHECK_DEADLOCK FALSE

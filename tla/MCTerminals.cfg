SPECIFICATION Spec
CONSTANTS
  Hardened = 8
  U8 = 4
  Accounts <- MCAccounts
  MaxIndex = 1
  MaxKeys = 2
  None = None
INVARIANT SameTerminal
CHECK_DEADLOCK FALSE

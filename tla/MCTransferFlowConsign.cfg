SPECIFICATION Spec
CONSTANTS
  MaxIndex = 2
  MaxCommits = 3
  IndexModulus = 2
  None = None
INVARIANT TransferReturns

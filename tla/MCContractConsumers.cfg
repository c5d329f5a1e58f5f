SPECIFICATION Spec
CONSTANTS
  IdLen = 2
  Opouts <- MCOpouts
  OpIds <- MCOpIds
  None = None
  Err = Err
INVARIANTS
  ClaimsDecoded
  TruncationDetected
PROPERTY ClaimsKept

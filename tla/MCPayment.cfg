SPECIFICATION Spec
CONSTANTS
  a1 = a1
  a2 = a2
  a3 = a3
  d1 = d1
  d2 = d2
  v1 = v1
  v2 = v2
  b1 = b1
  b2 = b2
  None = None
  Outpoints = {1, 2, 3, 4}
  Opouts <- MCOpouts
  contract_of <- MCContractOf
  type_of <- MCTypeOf
  AssignmentTypes <- MCTypes
  kind_of <- MCKindOf
  default_assignment = None
  Situations <- MCSituations
  AddsCoins = FALSE
  MaxExtras = 1
INVARIANTS
  TypeOK
  SelectionFewest
  RefusesOnlyIfPoor
  MainNeverShort
  AmountConserved
  NoStateLeftBehind
  OtherStateReturned

SPECIFICATION Spec
CONSTANTS
  AssignmentTypes = {a1, a2, a3}
  None = None
INVARIANTS
  InformedInvoicePayable
  WrongNetworkRefused
CHECK_DEADLOCK FALSE

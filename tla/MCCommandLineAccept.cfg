\* `accept` without --force.
SPECIFICATION Spec
CONSTANTS
    None = None
    MaxTx = 0
    Invoiced = {0}
    Paths = {p}
    p = p
    q = q
INVARIANT
    AcceptsMined

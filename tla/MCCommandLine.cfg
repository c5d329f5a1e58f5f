\* Files saved at each change or when values are dropped; kills at any step.
SPECIFICATION Spec
CONSTANTS
    None = None
    MaxTx = 2
    Invoiced = {1, 2}
    Paths = {p, q}
    p = p
    q = q
SYMMETRY PathSymmetry
INVARIANTS
    TypeOK
    ChangeSpendable
    OneTxPerPayment
    ConsignedFirst
PROPERTY
    RecordedFirst

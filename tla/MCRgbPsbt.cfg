SPECIFICATION Spec
CONSTANTS
  t1 = t1
  t2 = t2
  t3 = t3
  t4 = t4
  None = None
  ContractIds = {1, 2}
  Opouts = {1, 2, 3}
  OpIds <- MCOpIds
  Seals = {}
  Foreign = {f1}
  ForeignMsgs = {m1}
  TooBig = {t4}
  NOut = 2
  contract_of <- MCContractOf
  inputs_of <- MCInputsOf
INVARIANTS
  TypeOK
  CommitmentCoversMessages
  FasciaAnchored
  ConsumersComplete
  ClaimsBacked
PROPERTIES
  TxidFixed
  SealsClaims

SPECIFICATION Spec
CONSTANTS
  t1 = t1
  t2 = t2
  t3 = t3
  t4 = t4
  None = None
  ContractIds = {1, 2}
  Opouts = {1, 2, 3}
  OpIds <- MCOpIds
  Seals = {s1}
  Foreign = {}
  ForeignMsgs = {}
  TooBig = {t4}
  NOut = 1
  contract_of <- MCContractOf
  inputs_of <- MCInputsOf
INVARIANT PushKeepsReveals

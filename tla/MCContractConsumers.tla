----------------------- MODULE MCContractConsumers -------------------------
(***************************************************************************)
(* ContractConsumers with allocations that differ in one field each and    *)
(* whose numbers have different bytes, and with identifiers of two bytes.  *)
(***************************************************************************)
EXTENDS ContractConsumers

MCOpouts ==
    {[op |-> <<0, 1>>, ty |-> 1, no |-> 256], [op |-> <<0, 1>>, ty |-> 256, no |-> 1],
     [op |-> <<0, 1>>, ty |-> 1, no |-> 1], [op |-> <<1, 0>>, ty |-> 1, no |-> 65535]}
MCOpIds == {<<0, 1>>, <<2, 0>>}
=============================================================================

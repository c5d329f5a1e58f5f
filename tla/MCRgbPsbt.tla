----------------------------- MODULE MCRgbPsbt -----------------------------
(***************************************************************************)
(* Instance of RgbPsbt for TLC: two contracts; t1 and t2 of the first one  *)
(* overlap in allocation 2 (a double spend that fails half-way when t2 is  *)
(* pushed first), t3 belongs to the second, t4 is too big to be stored.    *)
(***************************************************************************)
EXTENDS RgbPsbt, TLC

CONSTANTS t1, t2, t3, t4

MCOpIds == {t1, t2, t3, t4}
MCContractOf == (t1 :> 1) @@ (t2 :> 1) @@ (t3 :> 2) @@ (t4 :> 2)
MCInputsOf == (t1 :> {1, 2}) @@ (t2 :> {2, 3}) @@ (t3 :> {1}) @@ (t4 :> {1})
=============================================================================

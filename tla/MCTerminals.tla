---------------------------- MODULE MCTerminals ----------------------------
(***************************************************************************)
(* Terminals with paths from the account key and from the master key.      *)
(***************************************************************************)
EXTENDS Terminals

MCAccounts == {<< >>, <<Hardened + 2, Hardened + 1, Hardened>>}
=============================================================================

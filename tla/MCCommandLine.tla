--------------------------- MODULE MCCommandLine ---------------------------
(***************************************************************************)
(* CommandLine with two file names, which are interchangeable.             *)
(***************************************************************************)
EXTENDS CommandLine, TLC

CONSTANTS p, q

PathSymmetry == Permutations(Paths)
=============================================================================

---------------------------- MODULE MCSetupFlow ----------------------------
(***************************************************************************)
(* Small instances of SetupFlow for TLC.                                   *)
(***************************************************************************)
EXTENDS SetupFlow, TLC

Symmetry == Permutations(Terminals)

=============================================================================

---------------------------- MODULE MCWriteTools ----------------------------
(***************************************************************************)
(* Small instances of WriteTools for TLC.                                  *)
(***************************************************************************)
EXTENDS WriteTools, TLC

Symmetry == Permutations(Sessions) \union Permutations(Calls)

=============================================================================

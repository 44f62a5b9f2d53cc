---------------------------- MODULE MCSysVarTypes ----------------------------
(***************************************************************************)
(* Small instances of SysVarTypes for TLC.                                 *)
(***************************************************************************)
EXTENDS SysVarTypes, TLC

Symmetry == Permutations(Calls)

=============================================================================

----------------------------- MODULE MCReaders -----------------------------
(***************************************************************************)
(* Small instances of Readers for TLC.                                     *)
(***************************************************************************)
EXTENDS Readers, TLC

Symmetry == Permutations(Callers)

=============================================================================

-------------------------- MODULE MCSessionManager --------------------------
(***************************************************************************)
(* Small instances of SessionManager for TLC.                              *)
(***************************************************************************)
EXTENDS SessionManager, TLC

Symmetry == Permutations(Sids) \cup Permutations(Handles) \cup Permutations(Flights)

=============================================================================

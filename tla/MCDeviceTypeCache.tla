-------------------------- MODULE MCDeviceTypeCache --------------------------
(***************************************************************************)
(* Small instances of DeviceTypeCache for TLC.                             *)
(***************************************************************************)
EXTENDS DeviceTypeCache, TLC

Symmetry == Permutations(Types) \union Permutations(Callers) \union Permutations(Workers)

=============================================================================

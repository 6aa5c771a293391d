------------------------------ MODULE MCStartup -------------------------------
(***************************************************************************)
(* Instances of ServerStartup for TLC.                                     *)
(***************************************************************************)
EXTENDS ServerStartup, TLC

Symmetry == Permutations(Process) \cup Permutations(RequiredModelFile)
=============================================================================

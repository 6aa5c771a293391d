------------------------------- MODULE MCBackup -------------------------------
(***************************************************************************)
(* Instances of BackupRestore for TLC.                                     *)
(***************************************************************************)
EXTENDS BackupRestore, TLC

Symmetry == Permutations(Memory)
=============================================================================

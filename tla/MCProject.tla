------------------------------ MODULE MCProject ------------------------------
(***************************************************************************)
(* Instances of ProjectDirectory for TLC.                                  *)
(***************************************************************************)
EXTENDS ProjectDirectory, TLC

\* One client that makes every call.
SoloCan == [w \in {"A"} |-> {"store", "forget", "session", "rename"}]

\* One client renames while another works on.
PairCan == ("A" :> {"rename"}) @@ ("B" :> {"store", "forget", "session"})

Symmetry == Permutations(Memory) \cup Permutations(Session)
=============================================================================

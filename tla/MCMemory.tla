------------------------------- MODULE MCMemory -------------------------------
(***************************************************************************)
(* Instances of MemoryLifecycle for TLC.  A point has 8 units, the decay   *)
(* factor is 1/2, an access gives half a point and the boost ends at one   *)
(* point: with a clock of at most 4 every quotient is exact.               *)
(***************************************************************************)
EXTENDS MemoryLifecycle, TLC

\* Two clients: while one recalls and updates, the other deletes what is old.
RecallCan == ("A" :> {"store", "recall", "update"}) @@ ("B" :> {"recall", "forget", "maintain"})

\* One client that makes every call.
SoloCan == [w \in {"A"} |-> {"store", "extract", "recall", "update", "forget", "maintain"}]

\* A negative similarity is one of a memory that says the opposite.
AnySimilarity == {-1, 1, 2}

Symmetry == Permutations(Memory)
=============================================================================

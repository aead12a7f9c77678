------------------------------ MODULE MCScenarios ------------------------------
(* Finite instances of Scenarios for TLC.                                  *)
EXTENDS Scenarios, TLC

Interchangeable == Permutations(Slot) \cup Permutations(Sequence)
=============================================================================

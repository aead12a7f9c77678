---------------------------- MODULE MCOrganizations ----------------------------
(* Finite instances of Organizations for TLC.                              *)
EXTENDS Organizations, TLC

Interchangeable == Permutations(Organization) \cup Permutations(Slug)
                     \cup Permutations(Slot)
=============================================================================

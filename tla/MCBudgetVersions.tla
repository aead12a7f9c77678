--------------------------- MODULE MCBudgetVersions ---------------------------
(* Finite instances of BudgetVersions for TLC.                             *)
EXTENDS BudgetVersions, TLC

(* All versions belong to one fiscal year, so names and activations        *)
(* compete.                                                                *)
CONSTANT y1
SameYear == [v \in BudgetVersion |-> y1]

Interchangeable == Permutations(BudgetVersion) \cup Permutations(Name)
                     \cup Permutations(Slot) \cup Permutations(IdemKey)
=============================================================================

------------------------------- MODULE MCCatalog -------------------------------
(* Finite instances of Catalog for TLC.                                    *)
EXTENDS Catalog, TLC

CONSTANT Restated  \* bound: the one account whose status requests change

(* Files that name an account and a department in either order.            *)
CrossingRows == {<<a, d>> : a \in Account, d \in Flat \ {UNASSIGNED}}
                \cup {<<d, a>> : a \in Account, d \in Flat \ {UNASSIGNED}}

(* Every account is renamed, all but one are moved, that one changes its   *)
(* status: the columns are written alike, and parents decide the rest.     *)
Rename == [parent: {None}, clear_parent: {FALSE}, status: {None}]
Move == [parent: Account, clear_parent: {FALSE}, status: {None}]
          \cup [parent: {None}, clear_parent: {TRUE}, status: {None}]
Restate == [parent: {None}, clear_parent: {FALSE}, status: DimensionStatus]

To(a, body) == [id |-> a, parent |-> body.parent,
                clear_parent |-> body.clear_parent, status |-> body.status]
Patches == {To(a, body) : a \in Account, body \in Rename}
           \cup {To(a, body) : a \in Account \ {Restated}, body \in Move}
           \cup {To(Restated, body) : body \in Restate}

Interchangeable == Permutations(Slot) \cup Permutations(Account \ {Restated})
=============================================================================

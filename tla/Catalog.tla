-------------------------------- MODULE Catalog --------------------------------
(***************************************************************************)
(* The dimensions of an organization: accounts in a hierarchy, departments *)
(* and cost centers (application/dimensions.py, domain/dimensions.py), and *)
(* the import that creates the ones its rows name                          *)
(* (application/imports.py, _to_entry).                                    *)
(*                                                                         *)
(* A code is unique in its table and never changes, so a dimension is      *)
(* named by its code.  A re-parenting walks up from the new parent with    *)
(* one SELECT per account, and nothing that it has read is locked.  An     *)
(* INSERT keeps its index entry until the end of the transaction.          *)
(***************************************************************************)
EXTENDS Naturals, Sequences, FiniteSets, SequencesExt

CONSTANTS
  Account,       \* codes of accounts
  Flat,          \* codes of departments and cost centers
  UNASSIGNED,    \* the cost center of rows that name none
  Slot,          \* threads that serve requests
  Rows,          \* the sequences of codes that files name
  Patch,         \* the bodies PATCH /accounts/{id} is sent with
  ACCOUNT_HIERARCHY_MAX_DEPTH,
  None

Parent == Account \cup {None}
DimensionStatus == {"active", "inactive"}

(* A field that is None is not given.                                      *)
PatchBody == [id: Account, parent: Parent, clear_parent: BOOLEAN,
              status: DimensionStatus \cup {None}]

ASSUME CatalogAssumption ==
  /\ UNASSIGNED \in Flat
  /\ Account \cap Flat = {}
  /\ Rows \subseteq Seq(Account \cup Flat)
  /\ ACCOUNT_HIERARCHY_MAX_DEPTH \in Nat \ {0}
  /\ Patch \subseteq PatchBody
  /\ None \notin Account \cup Flat

VARIABLES
  rows,  \* committed rows of accounts, departments and cost_centers, by code
  tx     \* the request each slot is running

vars == <<rows, tx>>

-----------------------------------------------------------------------------
(* Rows                                                                    *)

(* The columns that only administrators change.  Departments and cost      *)
(* centers have no parent.  The type of an account is written with its     *)
(* status and read, like it, by none of what follows: status stands for    *)
(* both.                                                                   *)
Row == [parent: Parent, status: DimensionStatus]
NoRow == [parent |-> None, status |-> "absent"]
NewRow(parent) == [parent |-> parent, status |-> "active"]

Editor == {"analyst", "admin"}   \* the roles with MANAGE_DIMENSIONS

(* Mutant of can_restructure_dimensions: MANAGE_DIMENSIONS is enough.      *)
can_restructure_anyone(role) == role \in Editor

can_restructure_dimensions(role) == role = "admin"

(* Mutant of assert_account_hierarchy: only the depth is looked at.        *)
assert_depth(a, parent, ancestors) ==
  1 + Len(ancestors) <= ACCOUNT_HIERARCHY_MAX_DEPTH

(* Mutant of assert_account_hierarchy: the account itself is not counted.  *)
assert_hierarchy_above(a, parent, ancestors) ==
  parent # None =>
    /\ parent # a /\ a \notin ToSet(ancestors)
    /\ Len(ancestors) <= ACCOUNT_HIERARCHY_MAX_DEPTH

assert_account_hierarchy(a, parent, ancestors) ==
  parent # None =>
    /\ parent # a /\ a \notin ToSet(ancestors)
    /\ 1 + Len(ancestors) <= ACCOUNT_HIERARCHY_MAX_DEPTH

(* with_updates: fields that are not given leave the value.                *)
with_updates(row, parent, clear_parent, status) ==
  [parent |-> IF clear_parent THEN None
              ELSE IF parent # None THEN parent ELSE row.parent,
   status |-> IF status # None THEN status ELSE row.status]

(* UNASSIGNED_PROTECTED, which CostCenter.with_updates raises.             *)
Protected(d, status) == d = UNASSIGNED /\ status = "inactive"

(* The columns in which `save' finds a difference, and the UPDATE of them. *)
Changed(row, new) == {c \in {"parent", "status"} : row[c] # new[c]}
Updated(row, new, cols) ==
  [parent |-> IF "parent" \in cols THEN new.parent ELSE row.parent,
   status |-> IF "status" \in cols THEN new.status ELSE row.status]

-----------------------------------------------------------------------------
(* Requests                                                                *)

Op == {"create_account", "update_account", "create_flat", "update_flat",
       "import"}

Tx == [pc: {"off", "idle", "walk", "save", "rows", "insert", "commit"},
       op: Op \cup {None},
       role: Editor \cup {None},
       id: Account \cup Flat \cup {None},
       at: Account \cup {None},           \* the next ancestor to read
       chain: Seq(Account),               \* ancestor_ids so far
       seen: Row \cup {NoRow},            \* the row as it was first read
       work: Row \cup {NoRow},            \* the object to be written
       cols: SUBSET {"parent", "status"}, \* the pending UPDATE has them
       todo: Seq(Account \cup Flat),      \* codes the rows still name
       held: SUBSET (Account \cup Flat)]  \* rows inserted, uncommitted

Idle == [pc |-> "idle", op |-> None, role |-> None, id |-> None, at |-> None,
         chain |-> <<>>, seen |-> NoRow, work |-> NoRow, cols |-> {},
         todo |-> <<>>, held |-> {}]
Off == [Idle EXCEPT !.pc = "off"]

(* An organization starts with its cost center `Sin asignar'.              *)
Init ==
  /\ rows = [c \in Account \cup Flat |->
               IF c = UNASSIGNED THEN NewRow(None) ELSE NoRow]
  /\ \E pool \in (SUBSET Slot) \ {{}} :
       tx = [s \in Slot |-> IF s \in pool THEN Idle ELSE Off]

Sequential == \E s \in Slot : \A s2 \in Slot \ {s} : tx[s2].pc = "off"

Exists(c) == rows[c] # NoRow

(* get_by_code sees committed rows and those of its own transaction.       *)
Finds(s, c) == Exists(c) \/ c \in tx[s].held

(* POST: the code is free; an account also names an existing parent.       *)
CreateAccount(s, a, parent) ==
  /\ tx[s].pc = "idle"
  /\ ~Exists(a)
  /\ parent # None => Exists(parent)
  /\ tx' = [tx EXCEPT ![s] =
              [Idle EXCEPT !.pc = "walk", !.op = "create_account", !.id = a,
                           !.at = parent, !.work = NewRow(parent)]]
  /\ UNCHANGED rows

CreateFlat(s, d) ==
  /\ tx[s].pc = "idle"
  /\ ~Exists(d)
  /\ tx' = [tx EXCEPT ![s] =
              [Idle EXCEPT !.pc = "insert", !.op = "create_flat", !.id = d,
                           !.work = NewRow(None)]]
  /\ UNCHANGED rows

(* PATCH /accounts/{id}: the account is read, a structural change is for   *)
(* administrators, and the ancestors to be walked are those of the next    *)
(* parent, given or kept.                                                  *)
UpdateAccount(s, role, patch) ==
  LET a == patch.id
      structural == patch.parent # None \/ patch.clear_parent \/ patch.status # None
      updated == with_updates(rows[a], patch.parent, patch.clear_parent, patch.status)
  IN /\ tx[s].pc = "idle"
     /\ Exists(a)
     /\ structural => can_restructure_dimensions(role)
     /\ updated.parent # None => Exists(updated.parent)
     /\ tx' = [tx EXCEPT ![s] =
                 [Idle EXCEPT !.pc = "walk", !.op = "update_account", !.id = a,
                              !.role = role, !.at = updated.parent,
                              !.seen = rows[a], !.work = updated]]
     /\ UNCHANGED rows

UpdateFlat(s, d, role, status) ==
  /\ tx[s].pc = "idle"
  /\ Exists(d)
  /\ status # None => can_restructure_dimensions(role)
  /\ ~Protected(d, status)
  /\ tx' = [tx EXCEPT ![s] =
              [Idle EXCEPT !.pc = "save", !.op = "update_flat", !.id = d,
                           !.role = role, !.seen = rows[d],
                           !.work = with_updates(rows[d], None, FALSE, status)]]
  /\ UNCHANGED rows

(* ancestor_ids: one row per step; an account met twice ends the walk.     *)
Walk(s) ==
  LET r == tx[s] IN
  /\ r.pc = "walk" /\ r.at # None
  /\ tx' = [tx EXCEPT ![s].chain = Append(@, r.at),
                      ![s].at = IF r.at \in ToSet(r.chain) THEN None
                                ELSE rows[r.at].parent]
  /\ UNCHANGED rows

(* The end of the walk: assert_account_hierarchy.                          *)
CheckHierarchy(s) ==
  LET r == tx[s] IN
  /\ r.pc = "walk" /\ r.at = None
  /\ assert_account_hierarchy(r.id, r.work.parent, r.chain)
  /\ tx' = [tx EXCEPT ![s].pc = IF r.op = "create_account" THEN "insert"
                                                           ELSE "save"]
  /\ UNCHANGED rows

(* `save' reads the row again; the UPDATE carries what differs.            *)
Save(s) ==
  LET r == tx[s] IN
  /\ r.pc = "save"
  /\ tx' = [tx EXCEPT ![s].pc = "commit",
                      ![s].cols = Changed(rows[r.id], r.work)]
  /\ UNCHANGED rows

(* Creations and imports need no more than MANAGE_DIMENSIONS, which every  *)
(* Editor has: their role is not kept.                                     *)
(* The commit of an import whose job may create missing dimensions.        *)
Import(s, codes) ==
  /\ tx[s].pc = "idle"
  /\ tx' = [tx EXCEPT ![s] =
              [Idle EXCEPT !.pc = "rows", !.op = "import", !.todo = codes,
                           !.work = NewRow(None)]]
  /\ UNCHANGED rows

(* _resolve_account, _resolve_department, _resolve_cost_center.            *)
Resolve(s) ==
  LET r == tx[s] IN
  /\ r.pc = "rows" /\ r.todo # <<>>
  /\ tx' = [tx EXCEPT ![s] =
              IF Finds(s, Head(r.todo)) THEN [r EXCEPT !.todo = Tail(@)]
              ELSE [r EXCEPT !.pc = "insert", !.id = Head(r.todo)]]
  /\ UNCHANGED rows

RowsDone(s) ==
  /\ tx[s].pc = "rows" /\ tx[s].todo = <<>>
  /\ tx' = [tx EXCEPT ![s].pc = "commit"]
  /\ UNCHANGED rows

(* The flush of an INSERT: it waits for a transaction that holds the code  *)
(* and is refused (IntegrityError) if the code is committed.               *)
Insert(s) ==
  LET r == tx[s] IN
  /\ r.pc = "insert"
  /\ ~Exists(r.id)
  /\ \A s2 \in Slot \ {s} : r.id \notin tx[s2].held
  /\ tx' = [tx EXCEPT ![s].held = @ \cup {r.id},
                      ![s].pc = IF r.op = "import" THEN "rows" ELSE "commit"]
  /\ UNCHANGED rows

(* The end of get_db_session.                                              *)
CommitTx(s) ==
  LET r == tx[s] IN
  /\ r.pc = "commit"
  /\ rows' = [c \in Account \cup Flat |->
       IF c \in r.held THEN r.work
       ELSE IF c = r.id THEN Updated(rows[c], r.work, r.cols)
       ELSE rows[c]]
  /\ tx' = [tx EXCEPT ![s] = Idle]

(* A refused request, an IntegrityError, a deadlock that the database      *)
(* breaks, the death of the process.                                       *)
Rollback(s) ==
  /\ tx[s].pc \notin {"off", "idle"}
  /\ tx' = [tx EXCEPT ![s] = Idle]
  /\ UNCHANGED rows

Start(s) ==
  \/ \E a \in Account, parent \in Parent : CreateAccount(s, a, parent)
  \/ \E d \in Flat : CreateFlat(s, d)
  \/ \E codes \in Rows : Import(s, codes)
  \/ \E role \in Editor :
       \/ \E patch \in Patch : UpdateAccount(s, role, patch)
       \/ \E d \in Flat, status \in DimensionStatus \cup {None} :
            UpdateFlat(s, d, role, status)

Continue(s) ==
  \/ Walk(s) \/ CheckHierarchy(s) \/ Save(s) \/ Resolve(s) \/ RowsDone(s)
  \/ Insert(s) \/ CommitTx(s) \/ Rollback(s)

Next == \E s \in Slot : Start(s) \/ Continue(s)

Spec == Init /\ [][Next]_vars

-----------------------------------------------------------------------------
(* Properties                                                              *)

TypeOK ==
  /\ rows \in [Account \cup Flat -> Row \cup {NoRow}]
  /\ tx \in [Slot -> Tx]

(* The accounts above a: those in every set that holds the parent of a     *)
(* and the parent of each of its members.                                  *)
AncestorsIn(parents, a) ==
  {b \in Account : \A S \in SUBSET Account :
     (\A x \in S \cup {a} : parents[x] \in Account => parents[x] \in S)
     => b \in S}
Parents == [a \in Account |-> rows[a].parent]
Ancestors(a) == AncestorsIn(Parents, a)

Acyclic == \A a \in Account : a \notin Ancestors(a)

(* The slot s commits what it has prepared.                                *)
Commits(s) == tx[s].pc = "commit" /\ tx'[s] = Idle

(* No sequence of creations and re-parentings makes an account its own     *)
(* ancestor (ACCOUNT_CYCLE).  Two overlapping re-parentings may, but only  *)
(* over an account that the one committing last had read with another      *)
(* parent: with a fresh walk its check would have refused.                 *)
CycleNeedsStaleWalk ==
  [][Acyclic /\ ~Acyclic' =>
       \E s \in Slot : /\ Commits(s) /\ tx[s].work.parent # None
                       /\ tx[s].id \in Ancestors(tx[s].work.parent)
                       /\ tx[s].id \notin ToSet(tx[s].chain)]_vars

(* Something lies above the new parent that the walk of r did not meet:    *)
(* another request has moved an ancestor since.                            *)
WalkOutdated(r) == ~(Ancestors(r.work.parent) \subseteq ToSet(r.chain))

(* An account is moved only where itself has at most five levels above it  *)
(* and itself counted (ACCOUNT_DEPTH), by however many overlapping         *)
(* requests, unless what lies above its new parent grew between the walk   *)
(* and the commit.                                                         *)
MovedWithinDepth ==
  [][\A a \in Account :
       rows[a].parent # rows'[a].parent =>
         \/ Cardinality(Ancestors(a)') + 1 <= ACCOUNT_HIERARCHY_MAX_DEPTH
         \/ ~Sequential
            /\ \E s \in Slot : Commits(s) /\ tx[s].id = a /\ WalkOutdated(tx[s])]_vars

(* Parents and statuses of existing rows are changed by administrators     *)
(* only (require_dimension_restructure), although analysts may rename and  *)
(* a rename writes the whole object back: what an analyst's request can    *)
(* undo is a change made since its first read, by putting back exactly     *)
(* what it had read then.                                                  *)
StructureByAdmin ==
  [][\A c \in Account \cup Flat :
       Exists(c) /\ rows[c] # rows'[c] =>
         \E s \in Slot : /\ Commits(s) /\ tx[s].id = c
                         /\ \/ tx[s].role = "admin"
                            \/ /\ ~Sequential
                               /\ tx[s].work = tx[s].seen
                               /\ tx[s].seen # rows[c]]_vars

(* What a request r holds, as part of an inductive invariant.              *)
Placing == {"create_account", "update_account"}
Updating == {"update_account", "update_flat"}
Inserting == {"create_account", "create_flat", "import"}
Running(r) == r.pc \notin {"off", "idle"}

RequestShape(r) ==
  /\ ~Running(r) => r.held = {}
  /\ Running(r) =>
       /\ r.op \in Op /\ r.work \in Row
       /\ r.op \in Placing => r.id \in Account
       /\ r.op \notin Placing => r.work.parent = None
       /\ r.op \in {"create_flat", "update_flat"} => r.id \in Flat
       /\ r.op \in Updating => r.held = {} /\ Exists(r.id)
       /\ r.op \in {"create_account", "create_flat"} => r.held \subseteq {r.id}
       /\ r.op = "update_account" /\ r.role # "admin" => r.work = r.seen
       /\ r.op = "update_flat" /\ r.role # "admin" => r.work = r.seen
       /\ r.pc = "walk" => r.op \in Placing
       /\ r.pc = "save" => r.op \in Updating
       /\ r.pc = "rows" => r.op = "import"
       /\ r.pc = "insert" => r.id \in Account \cup Flat /\ r.op \in Inserting
       /\ r.cols # {} => r.pc = "commit" /\ r.op \in Updating

(* Rows are not deleted: a parent that was read is there for good.         *)
ParentsKnown(r) ==
  /\ r.work.parent # None => Exists(r.work.parent)
  /\ r.at # None => Exists(r.at)

(* The walk starts at the new parent.                                      *)
WalkStarts(r) ==
  r.op \in Placing /\ r.work.parent # None =>
    r.work.parent \in ToSet(r.chain) \cup {r.at}

HierarchyChecked(r) ==
  Running(r) /\ r.op \in Placing /\ r.pc # "walk" =>
    r.at = None /\ assert_account_hierarchy(r.id, r.work.parent, r.chain)

ParentsExist ==
  \A a \in Account : rows[a].parent # None => Exists(rows[a].parent)

FlatHaveNoParent == \A d \in Flat : rows[d].parent = None

(* A code is held by one transaction, and then no row has it yet.          *)
HeldApart ==
  \A s \in Slot : \A c \in tx[s].held :
    ~Exists(c) /\ \A s2 \in Slot \ {s} : c \notin tx[s2].held

(* Without overlaps: what was read and walked is still so.                 *)
WalkIsFresh(r) ==
  r.op \in Placing =>
    \A x \in ToSet(r.chain) : rows[x].parent \in ToSet(r.chain) \cup {r.at, None}

ReadIsFresh(r) == r.op \in Updating => r.seen = rows[r.id]

FreshWhenAlone ==
  Sequential =>
    \A s \in Slot : Running(tx[s]) => WalkIsFresh(tx[s]) /\ ReadIsFresh(tx[s])

IInv ==
  /\ TypeOK
  /\ \A s \in Slot : /\ RequestShape(tx[s]) /\ ParentsKnown(tx[s])
                     /\ WalkStarts(tx[s]) /\ HierarchyChecked(tx[s])
  /\ ParentsExist /\ FlatHaveNoParent
  /\ HeldApart
  /\ FreshWhenAlone

(* "La jerarqu\'ia de cuentas no puede superar cinco niveles"              *)
(* (domain/dimensions.py, assert_account_hierarchy).                       *)
HierarchyWithinDepth ==
  \A a \in Account : Cardinality(Ancestors(a)) < ACCOUNT_HIERARCHY_MAX_DEPTH
=============================================================================

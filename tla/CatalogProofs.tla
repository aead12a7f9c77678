----------------------------- MODULE CatalogProofs -----------------------------
(***************************************************************************)
(* Proofs about Catalog for every set of accounts, finite or not, every    *)
(* number of threads and every depth.  What lies above an account is the   *)
(* least set closed under parents, so facts about it need no induction:    *)
(* to bound it, give a closed set.                                         *)
(***************************************************************************)
EXTENDS Catalog, FiniteSetTheorems, TLAPS

-----------------------------------------------------------------------------
(* What lies above an account                                              *)

(* A set that holds its members' parents and that of a holds what is above *)
(* a.                                                                      *)
LEMMA ClosedBounds ==
  ASSUME NEW f, NEW a, NEW S \in SUBSET Account,
         \A x \in S \cup {a} : f[x] \in Account => f[x] \in S
  PROVE  AncestorsIn(f, a) \subseteq S
BY DEF AncestorsIn

(* What is above a is closed itself.                                       *)
LEMMA AncestorsClosed ==
  ASSUME NEW f, NEW a
  PROVE  /\ AncestorsIn(f, a) \in SUBSET Account
         /\ \A x \in AncestorsIn(f, a) \cup {a} :
              f[x] \in Account => f[x] \in AncestorsIn(f, a)
BY DEF AncestorsIn

LEMMA AncestorsTransitive ==
  ASSUME NEW f, NEW a, NEW b \in AncestorsIn(f, a)
  PROVE  AncestorsIn(f, b) \subseteq AncestorsIn(f, a)
BY AncestorsClosed, ClosedBounds

NoLoop(f) == \A a \in Account : a \notin AncestorsIn(f, a)

(* Clearing parents makes no cycle.                                        *)
LEMMA ClearedParents ==
  ASSUME NEW f, NEW g, \A a \in Account : g[a] = f[a] \/ g[a] \notin Account
  PROVE  /\ \A a \in Account : AncestorsIn(g, a) \subseteq AncestorsIn(f, a)
         /\ NoLoop(f) => NoLoop(g)
<1>1. ASSUME NEW a \in Account PROVE AncestorsIn(g, a) \subseteq AncestorsIn(f, a)
  BY AncestorsClosed, ClosedBounds
<1> QED
  BY <1>1 DEF NoLoop

(* Giving account i the parent p makes a cycle only if i is p or above p.  *)
LEMMA MovedParent ==
  ASSUME NEW f, NEW g, NEW i \in Account, NEW p \in Account,
         g[i] = p, \A a \in Account \ {i} : g[a] = f[a],
         NoLoop(f), p # i, i \notin AncestorsIn(f, p)
  PROVE  NoLoop(g)
<1> DEFINE S == AncestorsIn(f, p) \cup {p}
<1>1. /\ S \in SUBSET Account /\ i \notin S /\ p \in S
      /\ \A x \in S : f[x] \in Account => f[x] \in S
  BY AncestorsClosed
<1>2. i \notin AncestorsIn(g, i)
  <2>1. \A x \in S \cup {i} : g[x] \in Account => g[x] \in S
    BY <1>1
  <2> HIDE DEF S
  <2>2. AncestorsIn(g, i) \subseteq S
    BY <1>1, <2>1, ClosedBounds
  <2> QED
    BY <1>1, <2>2
<1>3. ASSUME NEW a \in Account, a # i PROVE a \notin AncestorsIn(g, a)
  <2> DEFINE A == AncestorsIn(f, a)
  <2>1. A \in SUBSET Account /\ \A x \in A \cup {a} : f[x] \in Account => f[x] \in A
    BY AncestorsClosed
  <2>2. a \notin A
    BY DEF NoLoop
  <2>3. CASE i \notin A
    <3>1. \A x \in A \cup {a} : g[x] \in Account => g[x] \in A
      BY <1>3, <2>1, <2>3
    <3>2. AncestorsIn(g, a) \subseteq A
      BY <2>1, <3>1, ClosedBounds
    <3> QED
      BY <2>2, <3>2
  <2>4. CASE i \in A
    <3>1. \A x \in A \cup S \cup {a} : g[x] \in Account => g[x] \in A \cup S
      BY <1>1, <1>3, <2>1
    <3>2. AncestorsIn(g, a) \subseteq A \cup S
      <4> DEFINE T == A \cup S
      <4>1. T \in SUBSET Account
        BY <1>1, <2>1
      <4>2. \A x \in T \cup {a} : g[x] \in Account => g[x] \in T
        BY <3>1
      <4> HIDE DEF T
      <4>3. AncestorsIn(g, a) \subseteq T
        BY <4>1, <4>2, ClosedBounds
      <4> QED
        BY <4>3 DEF T
    <3>3. a = p => i \in AncestorsIn(f, p)
      BY <2>4
    <3>4. a \in AncestorsIn(f, p) => i \in AncestorsIn(f, p)
      BY <2>4, AncestorsTransitive
    <3> QED
      BY <2>2, <3>2, <3>3, <3>4
  <2> QED
    BY <2>3, <2>4
<1> QED
  BY <1>2, <1>3 DEF NoLoop

LEMMA DepthType ==
  ACCOUNT_HIERARCHY_MAX_DEPTH \in Nat /\ 1 <= ACCOUNT_HIERARCHY_MAX_DEPTH
<1>1. ACCOUNT_HIERARCHY_MAX_DEPTH \in Nat \ {0}
  BY CatalogAssumption, Zenon
<1> QED
  BY <1>1

(* A sequence has no more members than places.                             *)
LEMMA ChainBounds ==
  ASSUME NEW chain \in Seq(Account), NEW S \in SUBSET ToSet(chain)
  PROVE  Cardinality(S) \in Nat /\ Cardinality(S) <= Len(chain)
<1> DEFINE n == Len(chain)
<1>1. n \in Nat /\ DOMAIN chain = 1..n
  OBVIOUS
<1>2. ExistsSurjection(1..n, ToSet(chain))
  <2>1. chain \in Surjection(1..n, ToSet(chain))
    BY <1>1 DEF Surjection, ToSet
  <2> QED
    BY <2>1 DEF ExistsSurjection
<1>3. IsFiniteSet(ToSet(chain))
  BY <1>1, <1>2, FS_NatSurjection
<1>4. Cardinality(ToSet(chain)) <= n
  BY <1>1, <1>2, FS_SurjCardinalityBound
<1>5. IsFiniteSet(S) /\ Cardinality(S) <= Cardinality(ToSet(chain))
  BY <1>3, FS_Subset
<1>6. Cardinality(S) \in Nat /\ Cardinality(ToSet(chain)) \in Nat
  BY <1>3, <1>5, FS_CardinalityType
<1> QED
  BY <1>1, <1>4, <1>5, <1>6

(* Reading one more ancestor.                                              *)
LEMMA AppendMember ==
  ASSUME NEW chain \in Seq(Account), NEW a \in Account
  PROVE  /\ Append(chain, a) \in Seq(Account)
         /\ ToSet(Append(chain, a)) = ToSet(chain) \cup {a}
<1>1. Append(chain, a) \in Seq(Account)
  OBVIOUS
<1>2. /\ DOMAIN chain = 1..Len(chain) /\ Len(chain) \in Nat
      /\ DOMAIN Append(chain, a) = 1..(Len(chain) + 1)
      /\ \A i \in 1..Len(chain) : Append(chain, a)[i] = chain[i]
      /\ Append(chain, a)[Len(chain) + 1] = a
  OBVIOUS
<1>3. 1..(Len(chain) + 1) = 1..Len(chain) \cup {Len(chain) + 1}
  BY <1>2
<1> QED
  BY <1>1, <1>2, <1>3 DEF ToSet

-----------------------------------------------------------------------------
(* The invariant: steps that leave the committed rows alone                *)

LEMMA IdleType == Idle \in Tx /\ Off \in Tx
<1>1. <<>> \in Seq(Account) /\ <<>> \in Seq(Account \cup Flat)
  OBVIOUS
<1> QED
  BY <1>1 DEF Idle, Off, Tx

(* An idle record meets every condition.                                   *)
LEMMA IdleHolds ==
  ASSUME NEW r \in {Idle, Off}
  PROVE  /\ RequestShape(r) /\ ParentsKnown(r) /\ WalkStarts(r) /\ HierarchyChecked(r)
         /\ ~Running(r) /\ r.held = {}
BY DEF Idle, Off, NoRow, RequestShape, ParentsKnown, WalkStarts, HierarchyChecked, Running

(* Rows of every kind of dimension.                                        *)
LEMMA RowFacts ==
  /\ NoRow \notin Row /\ NoRow.parent = None
  /\ \A parent \in Parent : /\ NewRow(parent) \in Row /\ NewRow(parent).parent = parent
                            /\ NewRow(parent) # NoRow
  /\ \A row, new \in Row : \A cols :
       /\ Updated(row, new, cols) \in Row
       /\ Updated(row, new, {}) = row
       /\ Updated(row, new, cols).parent \in {row.parent, new.parent}
  /\ \A row, new : Changed(row, new) \in SUBSET {"parent", "status"}
  /\ \A row : Changed(row, row) = {}
BY DEF NoRow, NewRow, Row, DimensionStatus, Updated, Changed

LEMMA UpdatesType ==
  ASSUME NEW row \in Row, NEW parent \in Parent, NEW clear \in BOOLEAN,
         NEW status \in DimensionStatus \cup {None}
  PROVE  /\ with_updates(row, parent, clear, status) \in Row
         /\ parent = None /\ ~clear =>
              with_updates(row, parent, clear, status).parent = row.parent
         /\ parent = None /\ ~clear /\ status = None =>
              with_updates(row, parent, clear, status) = row
BY DEF with_updates, Row, Parent

LEMMA InitInv == Init => IInv
<1> SUFFICES ASSUME Init PROVE IInv
  OBVIOUS
<1>1. \A s \in Slot : tx[s] \in {Idle, Off}
  BY DEF Init
<1>2. \A c \in Account \cup Flat :
        /\ rows[c] \in Row \cup {NoRow} /\ rows[c].parent = None
  <2>1. None \in Parent
    BY DEF Parent
  <2> QED
    BY <2>1, RowFacts DEF Init
<1>3. TypeOK
  BY <1>1, <1>2, IdleType DEF Init, TypeOK
<1>4. ParentsExist /\ FlatHaveNoParent
  BY <1>2 DEF ParentsExist, FlatHaveNoParent
<1>5. HeldApart /\ FreshWhenAlone
  BY <1>1, IdleHolds DEF HeldApart, FreshWhenAlone
<1> QED
  BY <1>1, <1>3, <1>4, <1>5, IdleHolds DEF IInv

(* A slot that is on stays on, so which threads exist does not change.     *)
LEMMA SamePool ==
  ASSUME TypeOK, NEW s \in Slot, NEW t \in Tx, tx[s].pc # "off", t.pc # "off",
         tx' = [tx EXCEPT ![s] = t]
  PROVE  /\ tx' \in [Slot -> Tx] /\ tx'[s] = t
         /\ \A s2 \in Slot \ {s} : tx'[s2] = tx[s2]
         /\ Sequential' => /\ Sequential
                           /\ \A s2 \in Slot \ {s} : tx[s2].pc = "off"
BY DEF TypeOK, Sequential

(* The committed rows stay: the new record of the slot has to satisfy the  *)
(* invariant, and holds no code that is committed or held elsewhere.       *)
LEMMA QuietStep ==
  ASSUME IInv, NEW s \in Slot, NEW t \in Tx, tx[s].pc # "off", t.pc # "off",
         tx' = [tx EXCEPT ![s] = t], UNCHANGED rows,
         RequestShape(t), ParentsKnown(t), WalkStarts(t), HierarchyChecked(t),
         \A c \in t.held : ~Exists(c) /\ \A s2 \in Slot \ {s} : c \notin tx[s2].held,
         Sequential /\ Running(t) => WalkIsFresh(t) /\ ReadIsFresh(t)
  PROVE  IInv'
<1>1. /\ tx' \in [Slot -> Tx] /\ tx'[s] = t
      /\ \A s2 \in Slot \ {s} : tx'[s2] = tx[s2]
      /\ Sequential' => /\ Sequential
                        /\ \A s2 \in Slot \ {s} : tx[s2].pc = "off"
  BY SamePool DEF IInv
<1>2. TypeOK' /\ ParentsExist' /\ FlatHaveNoParent'
  BY <1>1 DEF IInv, TypeOK, ParentsExist, FlatHaveNoParent, Exists
<1>3. ASSUME NEW s2 \in Slot
      PROVE  /\ RequestShape(tx[s2])' /\ ParentsKnown(tx[s2])'
             /\ WalkStarts(tx[s2])' /\ HierarchyChecked(tx[s2])'
  <2>1. /\ RequestShape(tx'[s2]) /\ ParentsKnown(tx'[s2])
        /\ WalkStarts(tx'[s2]) /\ HierarchyChecked(tx'[s2])
    BY <1>1 DEF IInv
  <2> QED
    BY <2>1 DEF RequestShape, ParentsKnown, WalkStarts, HierarchyChecked, Exists
<1>4. HeldApart'
  BY <1>1 DEF IInv, HeldApart, Exists
<1>5. FreshWhenAlone'
  <2> SUFFICES ASSUME Sequential', NEW s2 \in Slot, Running(tx'[s2])
               PROVE  (WalkIsFresh(tx[s2]) /\ ReadIsFresh(tx[s2]))'
    BY DEF FreshWhenAlone, Running
  <2>1. s2 = s
    BY <1>1 DEF Running
  <2> QED
    BY <1>1, <2>1 DEF WalkIsFresh, ReadIsFresh
<1> QED
  BY <1>2, <1>3, <1>4, <1>5 DEF IInv

(* A record made from Idle is a record.                                    *)
LEMMA IdleFields ==
  /\ DOMAIN Idle = {"pc", "op", "role", "id", "at", "chain", "seen", "work", "cols",
                    "todo", "held"}
  /\ Idle.at = None /\ Idle.role = None /\ Idle.work = NoRow /\ Idle.held = {}
  /\ Idle.cols = {} /\ Idle.chain = <<>> /\ Idle.pc = "idle"
BY DEF Idle

(* What the invariant says of one request.                                 *)
LEMMA RequestFacts ==
  ASSUME IInv, NEW s \in Slot
  PROVE  /\ tx[s] \in Tx /\ RequestShape(tx[s]) /\ ParentsKnown(tx[s])
         /\ WalkStarts(tx[s]) /\ HierarchyChecked(tx[s])
         /\ \A c \in tx[s].held :
              ~Exists(c) /\ \A s2 \in Slot \ {s} : c \notin tx[s2].held
         /\ Sequential /\ Running(tx[s]) => WalkIsFresh(tx[s]) /\ ReadIsFresh(tx[s])
BY DEF IInv, TypeOK, HeldApart, FreshWhenAlone

LEMMA ExistingRows ==
  ASSUME IInv, NEW c \in Account \cup Flat
  PROVE  /\ rows[c] \in Row \cup {NoRow} /\ rows[c].parent \in Parent
         /\ Exists(c) <=> rows[c] \in Row
         /\ rows[c].parent # None => Exists(rows[c].parent)
         /\ c \in Flat => rows[c].parent = None
<1>1. rows[c] \in Row \cup {NoRow}
  BY DEF IInv, TypeOK
<1>2. rows[c].parent \in Parent
  BY <1>1, RowFacts DEF Row, Parent
<1>3. rows[c].parent # None => Exists(rows[c].parent)
  BY CatalogAssumption DEF IInv, ParentsExist, FlatHaveNoParent
<1> QED
  BY <1>1, <1>2, <1>3, RowFacts DEF IInv, Exists, FlatHaveNoParent

LEMMA CreateAccountInv ==
  ASSUME IInv, NEW s \in Slot, NEW a \in Account, NEW parent \in Parent,
         CreateAccount(s, a, parent)
  PROVE  IInv'
<1> DEFINE row == NewRow(parent)
           t == [Idle EXCEPT !.pc = "walk", !.op = "create_account", !.id = a,
                             !.at = parent, !.work = row]
<1>1. row \in Row /\ row.parent = parent
  BY RowFacts
<1>2. /\ tx[s].pc = "idle" /\ (parent # None => Exists(parent))
      /\ tx' = [tx EXCEPT ![s] = t] /\ UNCHANGED rows
  BY DEF CreateAccount
<1> HIDE DEF row
<1>3. /\ t \in Tx /\ t.pc = "walk" /\ t.op = "create_account" /\ t.id = a
      /\ t.at = parent /\ t.work = row /\ t.held = {} /\ t.chain = <<>>
      /\ t.cols = {}
  BY <1>1, IdleType, IdleFields DEF Tx, Op, Parent, Idle
<1> HIDE DEF t
<1>4. RequestShape(t) /\ ParentsKnown(t) /\ WalkStarts(t) /\ HierarchyChecked(t)
  BY <1>1, <1>2, <1>3
     DEF RequestShape, ParentsKnown, WalkStarts, HierarchyChecked, Running, Placing,
         Op, Updating
<1>5. WalkIsFresh(t) /\ ReadIsFresh(t)
  BY <1>3 DEF WalkIsFresh, ReadIsFresh, ToSet, Updating
<1> QED
  BY <1>2, <1>3, <1>4, <1>5, QuietStep

LEMMA UpdateAccountInv ==
  ASSUME IInv, NEW s \in Slot, NEW role \in Editor, NEW patch \in Patch,
         UpdateAccount(s, role, patch)
  PROVE  IInv'
<1> DEFINE a == patch.id
           updated == with_updates(rows[a], patch.parent, patch.clear_parent, patch.status)
           t == [Idle EXCEPT !.pc = "walk", !.op = "update_account", !.id = a,
                             !.role = role, !.at = updated.parent,
                             !.seen = rows[a], !.work = updated]
<1>1. /\ a \in Account /\ patch.parent \in Parent /\ patch.clear_parent \in BOOLEAN
      /\ patch.status \in DimensionStatus \cup {None}
  <2>1. patch \in PatchBody
    BY CatalogAssumption, Zenon
  <2> QED
    BY <2>1 DEF PatchBody
<1>2. /\ tx[s].pc = "idle" /\ Exists(a)
      /\ updated.parent # None => Exists(updated.parent)
      /\ patch.parent # None \/ patch.clear_parent \/ patch.status # None => role = "admin"
      /\ tx' = [tx EXCEPT ![s] = t] /\ UNCHANGED rows
  BY DEF UpdateAccount, can_restructure_dimensions
<1>3. rows[a] \in Row
  BY <1>1, <1>2, ExistingRows
<1>4. updated \in Row /\ (role # "admin" => updated = rows[a])
  BY <1>1, <1>2, <1>3, UpdatesType
<1>5. updated.parent \in Parent
  BY <1>4 DEF Row
<1> HIDE DEF updated, a
<1>6. /\ t \in Tx /\ t.pc = "walk" /\ t.op = "update_account" /\ t.id = a
      /\ t.at = updated.parent /\ t.seen = rows[a] /\ t.work = updated
      /\ t.held = {} /\ t.chain = <<>> /\ t.cols = {} /\ t.role = role
  BY <1>1, <1>3, <1>4, <1>5, IdleType, IdleFields DEF Tx, Op, Parent, Idle
<1> HIDE DEF t
<1>7. RequestShape(t) /\ ParentsKnown(t) /\ WalkStarts(t) /\ HierarchyChecked(t)
  BY <1>1, <1>2, <1>4, <1>6
     DEF RequestShape, ParentsKnown, WalkStarts, HierarchyChecked, Running, Placing,
         Op, Updating
<1>8. WalkIsFresh(t) /\ ReadIsFresh(t)
  BY <1>6 DEF WalkIsFresh, ReadIsFresh, ToSet
<1> QED
  BY <1>2, <1>6, <1>7, <1>8, QuietStep

LEMMA FlatInv ==
  ASSUME IInv, NEW s \in Slot, NEW d \in Flat,
         \/ CreateFlat(s, d)
         \/ \E role \in Editor, status \in DimensionStatus \cup {None} :
              UpdateFlat(s, d, role, status)
  PROVE  IInv'
<1>1. CASE CreateFlat(s, d)
  <2> DEFINE row == NewRow(None)
             t == [Idle EXCEPT !.pc = "insert", !.op = "create_flat", !.id = d,
                               !.work = row]
  <2>1. row \in Row /\ row.parent = None
    BY RowFacts DEF Parent
  <2>2. /\ tx[s].pc = "idle" /\ tx' = [tx EXCEPT ![s] = t]
        /\ UNCHANGED rows
    BY <1>1 DEF CreateFlat
  <2> HIDE DEF row
  <2>3. /\ t \in Tx /\ t.pc = "insert" /\ t.op = "create_flat" /\ t.id = d
        /\ t.at = None /\ t.work = row /\ t.held = {} /\ t.cols = {}
    BY <2>1, IdleType, IdleFields DEF Tx, Op
  <2> HIDE DEF t
  <2>4. /\ RequestShape(t) /\ ParentsKnown(t) /\ WalkStarts(t) /\ HierarchyChecked(t)
        /\ WalkIsFresh(t) /\ ReadIsFresh(t)
    BY <2>1, <2>3
       DEF RequestShape, ParentsKnown, WalkStarts, HierarchyChecked, WalkIsFresh,
           ReadIsFresh, Running, Placing, Op, Updating, Inserting
  <2> QED
    BY <2>2, <2>3, <2>4, QuietStep
<1>2. ASSUME NEW role \in Editor, NEW status \in DimensionStatus \cup {None},
             UpdateFlat(s, d, role, status)
      PROVE  IInv'
  <2> DEFINE updated == with_updates(rows[d], None, FALSE, status)
             t == [Idle EXCEPT !.pc = "save", !.op = "update_flat", !.id = d,
                               !.role = role, !.seen = rows[d], !.work = updated]
  <2>1. /\ tx[s].pc = "idle" /\ Exists(d)
        /\ status # None => role = "admin"
        /\ tx' = [tx EXCEPT ![s] = t] /\ UNCHANGED rows
    BY <1>2 DEF UpdateFlat, can_restructure_dimensions
  <2>2. rows[d] \in Row /\ rows[d].parent = None
    BY <2>1, ExistingRows
  <2>3. /\ updated \in Row /\ updated.parent = None
        /\ role # "admin" => updated = rows[d]
    BY <2>1, <2>2, UpdatesType DEF Parent
  <2> HIDE DEF updated
  <2>4. /\ t \in Tx /\ t.pc = "save" /\ t.op = "update_flat" /\ t.id = d
        /\ t.at = None /\ t.seen = rows[d] /\ t.work = updated
        /\ t.held = {} /\ t.cols = {} /\ t.role = role
    BY <2>2, <2>3, IdleType, IdleFields DEF Tx, Op, Idle
  <2> HIDE DEF t
  <2>5. /\ RequestShape(t) /\ ParentsKnown(t) /\ WalkStarts(t) /\ HierarchyChecked(t)
        /\ WalkIsFresh(t) /\ ReadIsFresh(t)
    BY <2>1, <2>3, <2>4
       DEF RequestShape, ParentsKnown, WalkStarts, HierarchyChecked, WalkIsFresh,
           ReadIsFresh, Running, Placing, Op, Updating, Inserting
  <2> QED
    BY <2>1, <2>4, <2>5, QuietStep
<1> QED
  BY <1>1, <1>2

LEMMA ImportInv ==
  ASSUME IInv, NEW s \in Slot, NEW codes \in Rows, Import(s, codes)
  PROVE  IInv'
<1> DEFINE row == NewRow(None)
           t == [Idle EXCEPT !.pc = "rows", !.op = "import", !.todo = codes,
                             !.work = row]
<1>1. row \in Row /\ row.parent = None
  BY RowFacts DEF Parent
<1>2. /\ tx[s].pc = "idle" /\ tx' = [tx EXCEPT ![s] = t]
      /\ UNCHANGED rows
  BY DEF Import
<1>3. codes \in Seq(Account \cup Flat)
  BY CatalogAssumption, Zenon
<1> HIDE DEF row
<1>4. /\ t \in Tx /\ t.pc = "rows" /\ t.op = "import" /\ t.at = None
      /\ t.work = row /\ t.held = {} /\ t.cols = {}
  BY <1>1, <1>3, IdleType, IdleFields DEF Tx, Op
<1> HIDE DEF t
<1>5. /\ RequestShape(t) /\ ParentsKnown(t) /\ WalkStarts(t) /\ HierarchyChecked(t)
      /\ WalkIsFresh(t) /\ ReadIsFresh(t)
  BY <1>1, <1>4
     DEF RequestShape, ParentsKnown, WalkStarts, HierarchyChecked, WalkIsFresh,
         ReadIsFresh, Running, Placing, Op, Updating, Inserting
<1> QED
  BY <1>2, <1>4, <1>5, QuietStep

(* ancestor_ids: the account read joins the chain, its parent comes next.  *)
LEMMA WalkInv ==
  ASSUME IInv, NEW s \in Slot, Walk(s)
  PROVE  IInv'
<1> DEFINE r == tx[s]
           up == IF r.at \in ToSet(r.chain) THEN None ELSE rows[r.at].parent
           t == [r EXCEPT !.chain = Append(@, r.at), !.at = up]
<1>1. /\ r \in Tx /\ RequestShape(r) /\ ParentsKnown(r) /\ WalkStarts(r)
      /\ r.pc = "walk" /\ r.at # None
      /\ \A c \in r.held : ~Exists(c) /\ \A s2 \in Slot \ {s} : c \notin tx[s2].held
      /\ Sequential => WalkIsFresh(r) /\ ReadIsFresh(r)
  BY RequestFacts DEF Walk, Running
<1>2. tx' = [tx EXCEPT ![s] = t] /\ UNCHANGED rows
  BY DEF Walk, IInv, TypeOK
<1>3. r.at \in Account /\ r.chain \in Seq(Account)
  BY <1>1 DEF Tx
<1>4. up \in Parent /\ (up # None => Exists(up))
  BY <1>3, ExistingRows DEF Parent
<1>5. /\ Append(r.chain, r.at) \in Seq(Account)
      /\ ToSet(Append(r.chain, r.at)) = ToSet(r.chain) \cup {r.at}
  BY <1>3, AppendMember
<1>6. r.at \in ToSet(r.chain) \/ up = rows[r.at].parent
  OBVIOUS
<1> HIDE DEF up
<1>7. /\ t \in Tx /\ t.pc = "walk" /\ t.op = r.op /\ t.id = r.id /\ t.at = up
      /\ t.seen = r.seen /\ t.work = r.work /\ t.held = r.held /\ t.cols = r.cols
      /\ t.role = r.role /\ t.chain = Append(r.chain, r.at)
  BY <1>1, <1>4, <1>5 DEF Tx, Parent
<1> HIDE DEF t
<1>8. RequestShape(t) /\ ParentsKnown(t) /\ HierarchyChecked(t)
  BY <1>1, <1>4, <1>7 DEF RequestShape, ParentsKnown, HierarchyChecked, Running
<1>9. WalkStarts(t)
  BY <1>1, <1>5, <1>7 DEF WalkStarts
<1>10. WalkIsFresh(r) => WalkIsFresh(t)
  BY <1>5, <1>6, <1>7 DEF WalkIsFresh
<1>11. ReadIsFresh(r) => ReadIsFresh(t)
  BY <1>7 DEF ReadIsFresh
<1> HIDE DEF r
<1> QED
  BY <1>1, <1>2, <1>7, <1>8, <1>9, <1>10, <1>11, QuietStep DEF r

(* assert_account_hierarchy and the save.                                  *)
LEMMA CheckInv ==
  ASSUME IInv, NEW s \in Slot, CheckHierarchy(s)
  PROVE  IInv'
<1> DEFINE r == tx[s]
           pc == IF r.op = "create_account" THEN "insert" ELSE "save"
           t == [r EXCEPT !.pc = pc]
<1>1. /\ r \in Tx /\ RequestShape(r) /\ ParentsKnown(r) /\ WalkStarts(r)
      /\ r.pc = "walk"
      /\ \A c \in r.held : ~Exists(c) /\ \A s2 \in Slot \ {s} : c \notin tx[s2].held
      /\ Sequential => WalkIsFresh(r) /\ ReadIsFresh(r)
  BY RequestFacts DEF CheckHierarchy, Running
<1>2. /\ r.at = None /\ assert_account_hierarchy(r.id, r.work.parent, r.chain)
      /\ tx' = [tx EXCEPT ![s] = t] /\ UNCHANGED rows
  BY DEF CheckHierarchy, IInv, TypeOK
<1>3. /\ pc \in {"insert", "save"} /\ (pc = "insert" <=> r.op = "create_account")
  OBVIOUS
<1> HIDE DEF pc
<1>4. /\ t \in Tx /\ t.pc = pc /\ t.op = r.op /\ t.id = r.id /\ t.at = r.at
      /\ t.seen = r.seen /\ t.work = r.work /\ t.held = r.held /\ t.cols = r.cols
      /\ t.role = r.role /\ t.chain = r.chain
  BY <1>1, <1>3 DEF Tx
<1> HIDE DEF t
<1>5. RequestShape(t)
  BY <1>1, <1>3, <1>4
     DEF RequestShape, Running, Placing, Updating, Inserting
<1>6. ParentsKnown(t) /\ WalkStarts(t) /\ HierarchyChecked(t)
  BY <1>1, <1>2, <1>4 DEF ParentsKnown, WalkStarts, HierarchyChecked
<1>7. (WalkIsFresh(r) => WalkIsFresh(t)) /\ (ReadIsFresh(r) => ReadIsFresh(t))
  BY <1>4 DEF WalkIsFresh, ReadIsFresh
<1> HIDE DEF r
<1> QED
  BY <1>1, <1>2, <1>3, <1>4, <1>5, <1>6, <1>7, QuietStep DEF r

LEMMA SaveInv ==
  ASSUME IInv, NEW s \in Slot, Save(s)
  PROVE  IInv'
<1> DEFINE r == tx[s]
           cols == Changed(rows[r.id], r.work)
           t == [r EXCEPT !.pc = "commit", !.cols = cols]
<1>1. /\ r \in Tx /\ RequestShape(r) /\ ParentsKnown(r) /\ WalkStarts(r)
      /\ HierarchyChecked(r) /\ r.pc = "save"
      /\ \A c \in r.held : ~Exists(c) /\ \A s2 \in Slot \ {s} : c \notin tx[s2].held
      /\ Sequential => WalkIsFresh(r) /\ ReadIsFresh(r)
  BY RequestFacts DEF Save, Running
<1>2. tx' = [tx EXCEPT ![s] = t] /\ UNCHANGED rows
  BY DEF Save, IInv, TypeOK
<1>3. cols \in SUBSET {"parent", "status"}
  BY RowFacts
<1> HIDE DEF cols
<1>4. /\ t \in Tx /\ t.pc = "commit" /\ t.op = r.op /\ t.id = r.id /\ t.at = r.at
      /\ t.seen = r.seen /\ t.work = r.work /\ t.held = r.held /\ t.cols = cols
      /\ t.role = r.role /\ t.chain = r.chain
  BY <1>1, <1>3 DEF Tx
<1> HIDE DEF t
<1>5. RequestShape(t)
  BY <1>1, <1>4 DEF RequestShape, Running, Updating
<1>6. ParentsKnown(t) /\ WalkStarts(t) /\ HierarchyChecked(t)
  BY <1>1, <1>4 DEF ParentsKnown, WalkStarts, HierarchyChecked, Running
<1>7. (WalkIsFresh(r) => WalkIsFresh(t)) /\ (ReadIsFresh(r) => ReadIsFresh(t))
  BY <1>4 DEF WalkIsFresh, ReadIsFresh
<1> HIDE DEF r
<1> QED
  BY <1>1, <1>2, <1>4, <1>5, <1>6, <1>7, QuietStep DEF r

(* The rows of an import, and the flush of one INSERT.                     *)
LEMMA ResolveInv ==
  ASSUME IInv, NEW s \in Slot, Resolve(s) \/ RowsDone(s)
  PROVE  IInv'
<1> DEFINE r == tx[s]
<1>1. /\ r \in Tx /\ RequestShape(r) /\ ParentsKnown(r) /\ WalkStarts(r)
      /\ HierarchyChecked(r) /\ r.pc = "rows" /\ r.op = "import"
      /\ \A c \in r.held : ~Exists(c) /\ \A s2 \in Slot \ {s} : c \notin tx[s2].held
      /\ Sequential => WalkIsFresh(r) /\ ReadIsFresh(r)
  BY RequestFacts DEF Resolve, RowsDone, Running, RequestShape
<1>2. r.todo \in Seq(Account \cup Flat)
  BY <1>1 DEF Tx
<1>3. PICK t \in Tx :
        /\ t.pc \in {"rows", "insert", "commit"} /\ t.op = "import"
        /\ t.pc = "insert" => t.id \in Account \cup Flat
        /\ t.at = r.at /\ t.work = r.work /\ t.held = r.held /\ t.cols = r.cols
        /\ t.role = r.role
        /\ tx' = [tx EXCEPT ![s] = t] /\ UNCHANGED rows
  <2>1. CASE RowsDone(s)
    <3> DEFINE t == [r EXCEPT !.pc = "commit"]
    <3>1. /\ t \in Tx /\ t.pc = "commit" /\ t.op = "import" /\ t.at = r.at
          /\ t.work = r.work /\ t.held = r.held /\ t.cols = r.cols
          /\ t.role = r.role
      BY <1>1 DEF Tx
    <3>2. tx' = [tx EXCEPT ![s] = t] /\ UNCHANGED rows
      BY <2>1 DEF RowsDone, IInv, TypeOK
    <3> HIDE DEF t
    <3> QED
      BY <3>1, <3>2
  <2>2. CASE Resolve(s) /\ Finds(s, Head(r.todo))
    <3> DEFINE t == [r EXCEPT !.todo = Tail(@)]
    <3>1. Tail(r.todo) \in Seq(Account \cup Flat)
      BY <1>2, <2>2 DEF Resolve
    <3>2. /\ t \in Tx /\ t.pc = "rows" /\ t.op = "import" /\ t.at = r.at
          /\ t.work = r.work /\ t.held = r.held /\ t.cols = r.cols
          /\ t.role = r.role
      BY <1>1, <3>1 DEF Tx
    <3>3. tx' = [tx EXCEPT ![s] = t] /\ UNCHANGED rows
      BY <2>2 DEF Resolve
    <3> HIDE DEF t
    <3> QED
      BY <3>2, <3>3
  <2>3. CASE Resolve(s) /\ ~Finds(s, Head(r.todo))
    <3> DEFINE c == Head(r.todo)
               t == [r EXCEPT !.pc = "insert", !.id = c]
    <3>1. c \in Account \cup Flat
      BY <1>2, <2>3 DEF Resolve
    <3>2. tx' = [tx EXCEPT ![s] = t] /\ UNCHANGED rows
      BY <2>3 DEF Resolve
    <3> HIDE DEF c
    <3>3. /\ t \in Tx /\ t.pc = "insert" /\ t.op = "import" /\ t.at = r.at
          /\ t.work = r.work /\ t.held = r.held /\ t.cols = r.cols
          /\ t.role = r.role /\ t.id = c
      BY <1>1, <3>1 DEF Tx
    <3> HIDE DEF t
    <3> QED
      BY <3>1, <3>2, <3>3
  <2> QED
    BY <2>1, <2>2, <2>3
<1>4. RequestShape(t)
  BY <1>1, <1>3
     DEF RequestShape, Running, Placing, Updating, Inserting, Op
<1>5. /\ ParentsKnown(t) /\ WalkStarts(t) /\ HierarchyChecked(t)
      /\ WalkIsFresh(t) /\ ReadIsFresh(t)
  BY <1>1, <1>3
     DEF ParentsKnown, WalkStarts, HierarchyChecked, WalkIsFresh, ReadIsFresh, Placing,
         Updating
<1> HIDE DEF r
<1> QED
  BY <1>1, <1>3, <1>4, <1>5, QuietStep DEF r

LEMMA InsertInv ==
  ASSUME IInv, NEW s \in Slot, Insert(s)
  PROVE  IInv'
<1> DEFINE r == tx[s]
           pc == IF r.op = "import" THEN "rows" ELSE "commit"
           t == [r EXCEPT !.held = @ \cup {r.id}, !.pc = pc]
<1>1. /\ r \in Tx /\ RequestShape(r) /\ ParentsKnown(r) /\ WalkStarts(r)
      /\ HierarchyChecked(r) /\ r.pc = "insert"
      /\ \A c \in r.held : ~Exists(c) /\ \A s2 \in Slot \ {s} : c \notin tx[s2].held
      /\ Sequential => WalkIsFresh(r) /\ ReadIsFresh(r)
  BY RequestFacts DEF Insert, Running
<1>2. /\ ~Exists(r.id) /\ \A s2 \in Slot \ {s} : r.id \notin tx[s2].held
      /\ tx' = [tx EXCEPT ![s] = t] /\ UNCHANGED rows
  BY DEF Insert, IInv, TypeOK
<1>3. pc \in {"rows", "commit"} /\ (pc = "rows" <=> r.op = "import")
  OBVIOUS
<1>4. r.id \in Account \cup Flat
  BY <1>1 DEF RequestShape, Running
<1> HIDE DEF pc
<1>5. /\ t \in Tx /\ t.pc = pc /\ t.op = r.op /\ t.id = r.id /\ t.at = r.at
      /\ t.seen = r.seen /\ t.work = r.work /\ t.held = r.held \cup {r.id}
      /\ t.cols = r.cols /\ t.role = r.role /\ t.chain = r.chain
  BY <1>1, <1>3, <1>4 DEF Tx
<1> HIDE DEF t
<1>6. RequestShape(t)
  BY <1>1, <1>3, <1>5 DEF RequestShape, Running, Inserting, Updating
<1>7. ParentsKnown(t) /\ WalkStarts(t) /\ HierarchyChecked(t)
  BY <1>1, <1>3, <1>5 DEF ParentsKnown, WalkStarts, HierarchyChecked, Running
<1>8. (WalkIsFresh(r) => WalkIsFresh(t)) /\ (ReadIsFresh(r) => ReadIsFresh(t))
  BY <1>5 DEF WalkIsFresh, ReadIsFresh
<1>9. \A c \in t.held : ~Exists(c) /\ \A s2 \in Slot \ {s} : c \notin tx[s2].held
  BY <1>1, <1>2, <1>5
<1> HIDE DEF r
<1> QED
  BY <1>1, <1>2, <1>3, <1>5, <1>6, <1>7, <1>8, <1>9, QuietStep DEF r

LEMMA RollbackInv ==
  ASSUME IInv, NEW s \in Slot, Rollback(s)
  PROVE  IInv'
<1>1. /\ tx[s].pc # "off" /\ tx' = [tx EXCEPT ![s] = Idle]
      /\ UNCHANGED rows
  BY DEF Rollback
<1>2. Idle.pc = "idle" /\ Idle \in Tx
  BY IdleFields, IdleType
<1> QED
  BY <1>1, <1>2, IdleHolds, QuietStep

-----------------------------------------------------------------------------
(* The invariant: commits                                                  *)

(* A commit writes the rows it inserted and the columns of its UPDATE;     *)
(* what exists stays, what comes to exist it held.                         *)
LEMMA CommitWrites ==
  ASSUME IInv, NEW s \in Slot, CommitTx(s)
  PROVE  /\ TypeOK'
         /\ \A c \in Account \cup Flat :
              \/ rows'[c] = rows[c]
              \/ c \in tx[s].held /\ ~Exists(c) /\ rows'[c] = tx[s].work
              \/ /\ c = tx[s].id /\ tx[s].op \in Updating /\ Exists(c)
                 /\ rows'[c] = Updated(rows[c], tx[s].work, tx[s].cols)
         /\ \A c \in Account \cup Flat :
              rows'[c].parent \in {rows[c].parent, tx[s].work.parent}
         /\ \A c \in Account \cup Flat : Exists(c) => Exists(c)'
         /\ \A c \in Account \cup Flat : Exists(c)' => Exists(c) \/ c \in tx[s].held
<1> DEFINE r == tx[s]
<1>1. /\ r \in Tx /\ RequestShape(r) /\ r.pc = "commit" /\ Running(r)
      /\ \A c \in r.held : ~Exists(c)
  BY RequestFacts DEF CommitTx, Running
<1>2. /\ r.held \subseteq Account \cup Flat /\ r.work \in Row
      /\ r.cols # {} => r.op \in Updating /\ Exists(r.id)
  BY <1>1 DEF Tx, RequestShape
<1>3. /\ rows' = [c \in Account \cup Flat |->
           IF c \in r.held THEN r.work
           ELSE IF c = r.id THEN Updated(rows[c], r.work, r.cols)
           ELSE rows[c]]
      /\ tx' = [tx EXCEPT ![s] = Idle]
  BY DEF CommitTx
<1> HIDE DEF r
<1>4. ASSUME NEW c \in Account \cup Flat
      PROVE  /\ rows'[c] \in Row \cup {NoRow}
             /\ \/ rows'[c] = rows[c]
                \/ c \in r.held /\ ~Exists(c) /\ rows'[c] = r.work
                \/ /\ c = r.id /\ r.op \in Updating /\ Exists(c)
                   /\ rows'[c] = Updated(rows[c], r.work, r.cols)
             /\ rows'[c].parent \in {rows[c].parent, r.work.parent}
             /\ Exists(c) => Exists(c)'
             /\ Exists(c)' => Exists(c) \/ c \in r.held
  <2>1. rows[c] \in Row \cup {NoRow} /\ (Exists(c) <=> rows[c] \in Row)
    BY ExistingRows
  <2>2. Exists(c)' <=> rows'[c] # NoRow
    BY DEF Exists
  <2>3. CASE c \in r.held
    <3>1. rows'[c] = r.work /\ ~Exists(c)
      BY <1>1, <1>3, <2>3
    <3> QED
      BY <1>2, <2>2, <2>3, <3>1, RowFacts
  <2>4. CASE c \notin r.held /\ c = r.id
    <3>1. rows'[c] = Updated(rows[c], r.work, r.cols)
      BY <1>3, <2>4
    <3>2. CASE r.cols = {}
      <4>1. Updated(rows[c], r.work, {}) = rows[c]
        BY <2>1 DEF Updated, Row, NoRow
      <4> QED
        BY <2>1, <2>2, <3>1, <3>2, <4>1 DEF Exists
    <3>3. CASE r.cols # {}
      <4>1. rows[c] \in Row /\ Exists(c) /\ r.op \in Updating
        BY <1>2, <2>1, <2>4, <3>3
      <4>2. /\ Updated(rows[c], r.work, r.cols) \in Row
            /\ Updated(rows[c], r.work, r.cols).parent \in {rows[c].parent, r.work.parent}
        BY <1>2, <4>1, RowFacts
      <4> QED
        BY <2>2, <2>4, <3>1, <4>1, <4>2, RowFacts
    <3> QED
      BY <3>2, <3>3
  <2>5. CASE c \notin r.held /\ c # r.id
    <3>1. rows'[c] = rows[c]
      BY <1>3, <2>5
    <3> QED
      BY <2>1, <2>2, <3>1 DEF Exists
  <2> QED
    BY <2>3, <2>4, <2>5
<1>5. TypeOK'
  <2>1. rows' \in [Account \cup Flat -> Row \cup {NoRow}]
    BY <1>3, <1>4
  <2>2. tx' \in [Slot -> Tx]
    BY <1>3, IdleType DEF IInv, TypeOK
  <2> QED
    BY <2>1, <2>2 DEF TypeOK
<1> QED
  BY <1>4, <1>5 DEF r

LEMMA CommitInv ==
  ASSUME IInv, NEW s \in Slot, CommitTx(s)
  PROVE  IInv'
<1>1. /\ tx[s].pc = "commit" /\ tx'[s] = Idle
      /\ \A s2 \in Slot \ {s} : tx'[s2] = tx[s2]
      /\ tx' = [tx EXCEPT ![s] = Idle]
  BY DEF CommitTx, IInv, TypeOK
<1>2. /\ \A c \in Account \cup Flat : Exists(c) => Exists(c)'
      /\ \A c \in Account \cup Flat : Exists(c)' => Exists(c) \/ c \in tx[s].held
      /\ \A c \in Account \cup Flat :
           rows'[c].parent \in {rows[c].parent, tx[s].work.parent}
  BY CommitWrites
<1>3. ASSUME NEW s2 \in Slot
      PROVE  /\ RequestShape(tx[s2])' /\ ParentsKnown(tx[s2])'
             /\ WalkStarts(tx[s2])' /\ HierarchyChecked(tx[s2])'
  <2>1. CASE s2 = s
    <3>1. /\ RequestShape(Idle)' /\ ParentsKnown(Idle)'
          /\ WalkStarts(Idle)' /\ HierarchyChecked(Idle)'
      BY DEF Idle, NoRow, RequestShape, ParentsKnown, WalkStarts, HierarchyChecked,
             Running
    <3> QED
      BY <1>1, <2>1, <3>1
         DEF RequestShape, ParentsKnown, WalkStarts, HierarchyChecked, Exists
  <2>2. CASE s2 # s
    <3>1. /\ tx'[s2] = tx[s2] /\ tx[s2] \in Tx /\ RequestShape(tx[s2])
          /\ ParentsKnown(tx[s2]) /\ WalkStarts(tx[s2]) /\ HierarchyChecked(tx[s2])
      BY <1>1, <2>2, RequestFacts
    <3>2. /\ tx[s2].work.parent # None => tx[s2].work.parent \in Account
          /\ tx[s2].at # None => tx[s2].at \in Account
      BY <3>1, RowFacts DEF Tx, Row, Parent
    <3>3. Running(tx[s2]) /\ tx[s2].op \in Updating => tx[s2].id \in Account \cup Flat
      BY <3>1 DEF RequestShape, Updating, Placing
    <3>4. RequestShape(tx[s2])'
      BY <1>2, <3>1, <3>3 DEF RequestShape, Running
    <3>5. ParentsKnown(tx[s2])'
      BY <1>2, <3>1, <3>2 DEF ParentsKnown
    <3> QED
      BY <3>1, <3>4, <3>5 DEF WalkStarts, HierarchyChecked, Running
  <2> QED
    BY <2>1, <2>2
<1>4. tx[s].work.parent # None =>
        tx[s].work.parent \in Account /\ Exists(tx[s].work.parent)
  BY RequestFacts, RowFacts DEF ParentsKnown, Tx, Row, Parent
<1>5. ParentsExist'
  <2> SUFFICES ASSUME NEW a \in Account, rows'[a].parent # None
               PROVE  Exists(rows[a].parent)'
    BY DEF ParentsExist
  <2>1. rows[a].parent # None => rows[a].parent \in Account /\ Exists(rows[a].parent)
    BY ExistingRows DEF Parent
  <2> DEFINE p == rows'[a].parent
  <2>2. p \in Account /\ Exists(p)
    BY <1>2, <1>4, <2>1
  <2> HIDE DEF p
  <2>3. rows'[p] # NoRow
    BY <1>2, <2>2 DEF Exists
  <2> QED
    BY <2>3 DEF p, Exists
<1>6. FlatHaveNoParent'
  <2> SUFFICES ASSUME NEW d \in Flat PROVE rows'[d].parent = None
    BY DEF FlatHaveNoParent
  <2>1. rows[d].parent = None
    BY ExistingRows
  <2>2. d \in tx[s].held \/ d = tx[s].id \/ rows'[d] = rows[d]
    BY CommitWrites
  <2>3. RequestShape(tx[s]) /\ Running(tx[s])
    BY <1>1, RequestFacts DEF Running
  <2>4. d \in tx[s].held \/ d = tx[s].id => tx[s].op \notin Placing
    BY <2>3, CatalogAssumption DEF RequestShape, Placing, Updating
  <2>5. tx[s].op \notin Placing => tx[s].work.parent = None
    BY <2>3 DEF RequestShape
  <2> QED
    BY <1>2, <2>1, <2>2, <2>4, <2>5
<1>7. HeldApart'
  <2> SUFFICES ASSUME NEW s2 \in Slot, NEW c \in tx'[s2].held
               PROVE  ~Exists(c)' /\ \A s3 \in Slot \ {s2} : c \notin tx'[s3].held
    BY DEF HeldApart
  <2>1. s2 # s /\ tx'[s2] = tx[s2] /\ c \in Account \cup Flat
    BY <1>1, IdleFields, RequestFacts DEF Tx
  <2>2. ~Exists(c) /\ \A s3 \in Slot \ {s2} : c \notin tx[s3].held
    BY <2>1, RequestFacts
  <2>3. \A s3 \in Slot \ {s2} : c \notin tx'[s3].held
    BY <1>1, <2>2, IdleFields
  <2> QED
    BY <1>2, <2>1, <2>2, <2>3
<1>8. FreshWhenAlone'
  <2>1. Idle.pc = "idle" /\ Idle \in Tx
    BY IdleFields, IdleType
  <2>2. Sequential' => \A s2 \in Slot \ {s} : tx[s2].pc = "off"
    BY <1>1, <2>1, SamePool DEF IInv
  <2>3. Sequential' => \A s2 \in Slot : tx'[s2].pc \in {"off", "idle"}
    BY <1>1, <2>1, <2>2
  <2> QED
    BY <2>3 DEF FreshWhenAlone, Running
<1> QED
  BY <1>3, <1>5, <1>6, <1>7, <1>8, CommitWrites DEF IInv

LEMMA NextInv == IInv /\ [Next]_vars => IInv'
<1> SUFFICES ASSUME IInv, [Next]_vars PROVE IInv'
  OBVIOUS
<1>1. CASE UNCHANGED vars
  BY <1>1 DEF vars, IInv, TypeOK, RequestShape, ParentsKnown, WalkStarts,
              HierarchyChecked, ParentsExist, FlatHaveNoParent, HeldApart,
              FreshWhenAlone, Sequential, WalkIsFresh, ReadIsFresh, Running, Exists
<1>2. ASSUME NEW s \in Slot, Start(s) PROVE IInv'
  BY <1>2, CreateAccountInv, UpdateAccountInv, FlatInv, ImportInv DEF Start
<1>3. ASSUME NEW s \in Slot, Continue(s) PROVE IInv'
  BY <1>3, WalkInv, CheckInv, SaveInv, ResolveInv, InsertInv, CommitInv, RollbackInv
     DEF Continue
<1> QED
  BY <1>1, <1>2, <1>3 DEF Next

(* The inductive invariant holds.                                          *)
THEOREM Invariance == Spec => []IInv
BY InitInv, NextInv, PTL DEF Spec

(* Rows and requests have the types the tables and schemas give them.      *)
THEOREM TypeCorrect == Spec => []TypeOK
<1>1. IInv => TypeOK
  BY DEF IInv
<1> QED
  BY <1>1, Invariance, PTL

-----------------------------------------------------------------------------
(* Cycles and depth                                                        *)

(* The parents the rows give.                                              *)
LEMMA ParentsAre ==
  /\ \A a \in Account : Parents[a] = rows[a].parent
  /\ \A a \in Account : Parents'[a] = rows'[a].parent
  /\ \A a : Ancestors(a) = AncestorsIn(Parents, a)
  /\ \A a : Ancestors(a)' = AncestorsIn(Parents', a)
BY DEF Parents, Ancestors, AncestorsIn

(* A commit that places an account moves that account alone, below one     *)
(* which is not itself and which its walk has not met.                     *)
LEMMA PlacedAccount ==
  ASSUME IInv, NEW s \in Slot, CommitTx(s), tx[s].work.parent # None
  PROVE  /\ tx[s].op \in Placing /\ tx[s].id \in Account /\ tx[s].work.parent \in Account
         /\ tx[s].work.parent # tx[s].id /\ tx[s].id \notin ToSet(tx[s].chain)
         /\ 1 + Len(tx[s].chain) <= ACCOUNT_HIERARCHY_MAX_DEPTH
         /\ tx[s].chain \in Seq(Account) /\ tx[s].at = None
         /\ tx[s].work.parent \in ToSet(tx[s].chain)
         /\ \A a \in Account \ {tx[s].id} : rows'[a].parent = rows[a].parent
         /\ rows'[tx[s].id].parent \in {rows[tx[s].id].parent, tx[s].work.parent}
<1>1. /\ tx[s] \in Tx /\ RequestShape(tx[s]) /\ HierarchyChecked(tx[s])
      /\ WalkStarts(tx[s]) /\ tx[s].pc = "commit" /\ Running(tx[s])
  BY RequestFacts DEF CommitTx, Running
<1>2. tx[s].op \in Placing /\ tx[s].id \in Account
  BY <1>1 DEF RequestShape
<1>3. /\ tx[s].work.parent # tx[s].id /\ tx[s].id \notin ToSet(tx[s].chain)
      /\ 1 + Len(tx[s].chain) <= ACCOUNT_HIERARCHY_MAX_DEPTH /\ tx[s].at = None
  BY <1>1, <1>2 DEF HierarchyChecked, assert_account_hierarchy
<1>4. tx[s].held \subseteq {tx[s].id}
  BY <1>1, <1>2 DEF RequestShape, Placing, Updating
<1>5. tx[s].chain \in Seq(Account) /\ tx[s].work.parent \in Account
  BY <1>1, RowFacts DEF Tx, Row, Parent
<1>6. tx[s].work.parent \in ToSet(tx[s].chain)
  BY <1>1, <1>2, <1>3 DEF WalkStarts
<1>7. \A a \in Account : /\ rows'[a] = rows[a] \/ a = tx[s].id
                         /\ rows'[a].parent \in {rows[a].parent, tx[s].work.parent}
  BY <1>4, CommitWrites
<1> QED
  BY <1>2, <1>3, <1>5, <1>6, <1>7

(* Only commits change rows.                                               *)
LEMMA OnlyCommits ==
  ASSUME IInv, [Next]_vars, rows' # rows
  PROVE  \E s \in Slot : CommitTx(s) /\ Commits(s)
<1>1. PICK s \in Slot : CommitTx(s)
  BY DEF vars, Next, Start, Continue, CreateAccount, CreateFlat, Import,
         UpdateAccount, UpdateFlat, Walk, CheckHierarchy, Save, Resolve, RowsDone,
         Insert, Rollback
<1>2. tx[s].pc = "commit" /\ tx'[s] = Idle
  BY <1>1 DEF CommitTx, IInv, TypeOK
<1> QED
  BY <1>1, <1>2 DEF Commits

(* No step takes a thread away.                                            *)
LEMMA PoolStays ==
  ASSUME IInv, [Next]_vars, NEW s \in Slot, tx'[s].pc = "off"
  PROVE  tx[s].pc = "off"
<1>1. Idle.pc = "idle" /\ "pc" \in DOMAIN Idle
  BY IdleFields
<1>2. ASSUME NEW t \in Slot, Start(t)
      PROVE  tx'[t].pc # "off" /\ \A u \in Slot \ {t} : tx'[u] = tx[u]
  BY <1>2 DEF IInv, TypeOK, Start, CreateAccount, CreateFlat, Import,
              UpdateAccount, UpdateFlat, Idle
<1>3. ASSUME NEW t \in Slot, Continue(t)
      PROVE  (tx'[t].pc = "off" => tx[t].pc = "off")
             /\ \A u \in Slot \ {t} : tx'[u] = tx[u]
  <2>1. tx[t] \in Tx
    BY RequestFacts
  <2>2. CASE Walk(t)
    BY <2>1, <2>2 DEF IInv, TypeOK, Tx, Walk
  <2>3. CASE CheckHierarchy(t) \/ Save(t)
    BY <2>1, <2>3 DEF IInv, TypeOK, Tx, CheckHierarchy, Save
  <2>4. CASE Resolve(t)
    <3>1. tx' = [tx EXCEPT ![t] =
                   IF Finds(t, Head(tx[t].todo)) THEN [tx[t] EXCEPT !.todo = Tail(@)]
                   ELSE [tx[t] EXCEPT !.pc = "insert", !.id = Head(tx[t].todo)]]
          /\ tx[t].pc = "rows"
      BY <2>4 DEF Resolve
    <3> QED
      BY <2>1, <3>1 DEF IInv, TypeOK, Tx
  <2>5. CASE RowsDone(t) \/ Insert(t)
    BY <2>1, <2>5 DEF IInv, TypeOK, Tx, RowsDone, Insert
  <2>6. CASE CommitTx(t) \/ Rollback(t)
    <3>1. tx' = [tx EXCEPT ![t] = Idle]
      BY <2>6 DEF CommitTx, Rollback
    <3> QED
      BY <1>1, <3>1 DEF IInv, TypeOK
  <2> QED
    BY <1>3, <2>2, <2>3, <2>4, <2>5, <2>6 DEF Continue
<1> QED
  BY <1>2, <1>3 DEF vars, Next

(* A cycle closes only over an account that the walk of the request did    *)
(* not meet though it lies above the new parent now: if it does not lie    *)
(* there, the move keeps the accounts free of cycles.                      *)
LEMMA CycleStep ==
  ASSUME IInv, [Next]_vars, Acyclic, ~Acyclic'
  PROVE  \E s \in Slot : /\ CommitTx(s) /\ Commits(s) /\ tx[s].work.parent # None
                         /\ tx[s].id \in Ancestors(tx[s].work.parent)
<1> DEFINE f == Parents
           g == Parents'
<1>1. NoLoop(f) /\ ~NoLoop(g)
  BY ParentsAre DEF Acyclic, NoLoop
<1>2. /\ \A a \in Account : f[a] = rows[a].parent
      /\ \A a \in Account : g[a] = rows'[a].parent
      /\ \A a : Ancestors(a) = AncestorsIn(f, a)
  BY ParentsAre
<1> HIDE DEF f, g
<1>3. ~(\A a \in Account : g[a] = f[a] \/ g[a] \notin Account)
  BY <1>1, ClearedParents
<1>4. rows' # rows
  BY <1>2, <1>3
<1>5. PICK s \in Slot : CommitTx(s) /\ Commits(s)
  BY <1>4, OnlyCommits
<1>6. tx[s].work.parent # None
  <2>1. \A a \in Account : g[a] \in {f[a], tx[s].work.parent}
    BY <1>2, <1>5, CommitWrites
  <2> QED
    BY <1>3, <2>1, CatalogAssumption
<1> DEFINE i == tx[s].id
           p == tx[s].work.parent
<1>7. /\ i \in Account /\ p \in Account /\ p # i
      /\ \A a \in Account \ {i} : g[a] = f[a]
      /\ g[i] \in {f[i], p}
  BY <1>2, <1>5, <1>6, PlacedAccount
<1>8. g[i] = p
  BY <1>3, <1>7
<1>9. i \in AncestorsIn(f, p)
  <2> HIDE DEF i, p
  <2> QED
    BY <1>1, <1>7, <1>8, MovedParent
<1> QED
  BY <1>2, <1>5, <1>6, <1>9

(* No sequence of creations and re-parentings makes an account its own     *)
(* ancestor, unless the request that closes the cycle had walked over      *)
(* parents which another has changed since (assert_account_hierarchy).     *)
THEOREM CyclesNeedStaleWalks == Spec => CycleNeedsStaleWalk
<1> DEFINE P == Acyclic /\ ~Acyclic' =>
                  \E s \in Slot : /\ Commits(s) /\ tx[s].work.parent # None
                                  /\ tx[s].id \in Ancestors(tx[s].work.parent)
                                  /\ tx[s].id \notin ToSet(tx[s].chain)
<1>1. IInv /\ [Next]_vars => P
  <2> SUFFICES ASSUME IInv, [Next]_vars, Acyclic, ~Acyclic' PROVE P
    OBVIOUS
  <2>1. PICK s \in Slot : /\ CommitTx(s) /\ Commits(s) /\ tx[s].work.parent # None
                          /\ tx[s].id \in Ancestors(tx[s].work.parent)
    BY CycleStep
  <2>2. tx[s].id \notin ToSet(tx[s].chain)
    BY <2>1, PlacedAccount
  <2> QED
    BY <2>1, <2>2
<1> HIDE DEF P
<1>2. Spec => [][P]_vars
  BY <1>1, Invariance, PTL DEF Spec
<1> QED
  BY <1>2, PTL DEF P, CycleNeedsStaleWalk

(* Without overlaps the chain of a request that places an account holds    *)
(* everything above its new parent.                                        *)
LEMMA FreshChain ==
  ASSUME IInv, Sequential, NEW s \in Slot, CommitTx(s), tx[s].work.parent # None
  PROVE  Ancestors(tx[s].work.parent) \subseteq ToSet(tx[s].chain)
<1> DEFINE C == ToSet(tx[s].chain)
           p == tx[s].work.parent
<1>1. /\ tx[s].op \in Placing /\ tx[s].at = None /\ tx[s].chain \in Seq(Account)
      /\ p \in Account /\ p \in C
  BY PlacedAccount
<1>2. WalkIsFresh(tx[s])
  BY RequestFacts DEF CommitTx, Running
<1>3. C \in SUBSET Account
  BY <1>1 DEF ToSet
<1>4. \A x \in C : rows[x].parent \in C \cup {None}
  BY <1>1, <1>2 DEF WalkIsFresh
<1> HIDE DEF C, p
<1>5. \A x \in C \cup {p} : Parents[x] \in Account => Parents[x] \in C
  BY <1>1, <1>3, <1>4, ParentsAre, CatalogAssumption
<1>6. AncestorsIn(Parents, p) \subseteq C
  BY <1>3, <1>5, ClosedBounds
<1> QED
  BY <1>6, ParentsAre DEF C, p

(* While requests do not overlap, no account is its own ancestor.          *)
THEOREM AloneAcyclic == Spec => [](Sequential => Acyclic)
<1> DEFINE Inv == Sequential => Acyclic
<1>1. Init => Inv
  <2> SUFFICES ASSUME Init, NEW a \in Account PROVE a \notin Ancestors(a)
    BY DEF Acyclic
  <2>1. \A x \in Account : rows[x].parent = None
    <3>1. None \in Parent
      BY DEF Parent
    <3> QED
      BY <3>1, RowFacts DEF Init
  <2>2. \A x \in {} \cup {a} : Parents[x] \in Account => Parents[x] \in {}
    BY <2>1, ParentsAre, CatalogAssumption
  <2>3. AncestorsIn(Parents, a) \subseteq {}
    <3>1. {} \in SUBSET Account
      OBVIOUS
    <3> QED
      BY <2>2, <3>1, ClosedBounds, Zenon
  <2> QED
    BY <2>3, ParentsAre
<1>2. IInv /\ IInv' /\ Inv /\ [Next]_vars => Inv'
  <2> SUFFICES ASSUME IInv, Inv, [Next]_vars, Sequential', ~Acyclic' PROVE FALSE
    OBVIOUS
  <2>1. Sequential
    <3>1. \A s \in Slot : tx'[s].pc = "off" => tx[s].pc = "off"
      BY PoolStays
    <3> QED
      BY <3>1 DEF Sequential
  <2>2. PICK s \in Slot : /\ CommitTx(s) /\ tx[s].work.parent # None
                          /\ tx[s].id \in Ancestors(tx[s].work.parent)
    BY <2>1, CycleStep
  <2>3. Ancestors(tx[s].work.parent) \subseteq ToSet(tx[s].chain)
    BY <2>1, <2>2, FreshChain
  <2>4. tx[s].id \notin ToSet(tx[s].chain)
    BY <2>2, PlacedAccount
  <2> QED
    BY <2>2, <2>3, <2>4
<1> HIDE DEF Inv
<1>3. Spec => []Inv
  BY <1>1, <1>2, Invariance, PTL DEF Spec
<1> QED
  BY <1>3, PTL DEF Inv

(* Below a parent whose ancestors the walk has all met, an account is      *)
(* within the limit: the walk counted them.                                *)
LEMMA PlacedWithinDepth ==
  ASSUME IInv, NEW s \in Slot, CommitTx(s), tx[s].work.parent # None,
         NEW a \in Account, rows'[a].parent = tx[s].work.parent,
         Ancestors(tx[s].work.parent) \subseteq ToSet(tx[s].chain)
  PROVE  Cardinality(Ancestors(a)') + 1 <= ACCOUNT_HIERARCHY_MAX_DEPTH
<1> DEFINE p == tx[s].work.parent
           f == Parents
           g == Parents'
           C == AncestorsIn(f, p) \cup {p}
           above == AncestorsIn(g, a)
<1>1. /\ tx[s].id \notin ToSet(tx[s].chain)
      /\ 1 + Len(tx[s].chain) <= ACCOUNT_HIERARCHY_MAX_DEPTH
      /\ tx[s].chain \in Seq(Account) /\ p \in Account /\ p \in ToSet(tx[s].chain)
      /\ \A x \in Account \ {tx[s].id} : rows'[x].parent = rows[x].parent
  BY PlacedAccount
<1>2. /\ \A x \in Account : f[x] = rows[x].parent /\ g[x] = rows'[x].parent
      /\ Ancestors(p) = AncestorsIn(f, p) /\ Ancestors(a)' = above
  BY ParentsAre
<1> HIDE DEF f, g, p
<1>3. C \in SUBSET Account /\ \A x \in C : f[x] \in Account => f[x] \in C
  BY <1>1, AncestorsClosed
<1>4. C \subseteq ToSet(tx[s].chain)
  BY <1>1, <1>2 DEF p
<1>5. p \in C /\ g[a] = p
  BY <1>2 DEF p
<1> HIDE DEF C
<1>6. \A x \in C \cup {a} : g[x] \in Account => g[x] \in C
  BY <1>1, <1>2, <1>3, <1>4, <1>5
<1>7. above \subseteq C
  BY <1>3, <1>6, ClosedBounds
<1>8. Cardinality(above) \in Nat /\ Cardinality(above) <= Len(tx[s].chain)
  BY <1>1, <1>4, <1>7, ChainBounds
<1>9. Len(tx[s].chain) \in Nat
  BY <1>1
<1> HIDE DEF above
<1>10. Cardinality(above) + 1 <= ACCOUNT_HIERARCHY_MAX_DEPTH
  BY <1>1, <1>8, <1>9, DepthType
<1> QED
  BY <1>2, <1>10

(* However many requests overlap, an account is placed with no more above  *)
(* it than the maximum depth allows (ACCOUNT_DEPTH), unless accounts have  *)
(* come to lie above its new parent since the walk; while none overlap,    *)
(* there is no exception.                                                  *)
THEOREM MovesWithinDepth == Spec => MovedWithinDepth
<1> DEFINE P ==
      \A a \in Account :
        rows[a].parent # rows'[a].parent =>
          \/ Cardinality(Ancestors(a)') + 1 <= ACCOUNT_HIERARCHY_MAX_DEPTH
          \/ ~Sequential
             /\ \E s \in Slot : Commits(s) /\ tx[s].id = a /\ WalkOutdated(tx[s])
<1>1. IInv /\ [Next]_vars => P
  <2> SUFFICES ASSUME IInv, [Next]_vars, NEW a \in Account,
                      rows[a].parent # rows'[a].parent
               PROVE  \/ Cardinality(Ancestors(a)') + 1 <= ACCOUNT_HIERARCHY_MAX_DEPTH
                      \/ ~Sequential
                         /\ \E s \in Slot :
                              Commits(s) /\ tx[s].id = a /\ WalkOutdated(tx[s])
    OBVIOUS
  <2>1. rows' # rows
    OBVIOUS
  <2>2. PICK s \in Slot : CommitTx(s) /\ Commits(s)
    BY <2>1, OnlyCommits
  <2>3. rows'[a].parent = tx[s].work.parent
    BY <2>2, CommitWrites
  <2>4. CASE tx[s].work.parent = None
    <3> DEFINE above == AncestorsIn(Parents', a)
    <3>1. \A x \in {} \cup {a} : Parents'[x] \in Account => Parents'[x] \in {}
      BY <2>3, <2>4, ParentsAre, CatalogAssumption
    <3>2. above \subseteq {}
      <4>1. {} \in SUBSET Account
        OBVIOUS
      <4> QED
        BY <3>1, <4>1, ClosedBounds, Zenon
    <3>3. Ancestors(a)' = {}
      BY <3>2, ParentsAre
    <3>4. Cardinality({}) = 0
      BY FS_EmptySet
    <3>5. Cardinality(Ancestors(a)') = 0
      BY <3>3, <3>4
    <3>6. 0 + 1 <= ACCOUNT_HIERARCHY_MAX_DEPTH
      BY DepthType
    <3> QED
      BY <3>5, <3>6
  <2>5. CASE tx[s].work.parent # None
    <3>1. tx[s].id = a
      BY <2>2, <2>5, PlacedAccount
    <3>2. CASE Ancestors(tx[s].work.parent) \subseteq ToSet(tx[s].chain)
      BY <2>2, <2>3, <2>5, <3>2, PlacedWithinDepth
    <3>3. CASE ~(Ancestors(tx[s].work.parent) \subseteq ToSet(tx[s].chain))
      <4>1. ~Sequential
        BY <2>2, <2>5, <3>3, FreshChain
      <4> QED
        BY <2>2, <3>1, <3>3, <4>1 DEF WalkOutdated
    <3> QED
      BY <3>2, <3>3
  <2> QED
    BY <2>4, <2>5
<1> HIDE DEF P
<1>2. Spec => [][P]_vars
  BY <1>1, Invariance, PTL DEF Spec
<1> QED
  BY <1>2, PTL DEF P, MovedWithinDepth

(* Parents and statuses of existing rows are changed by administrators     *)
(* only (require_dimension_restructure), though analysts rename them and a *)
(* rename writes the whole row back: what it may put back is the row it    *)
(* had first read, when another request has changed it since.              *)
THEOREM AdminsRestructure == Spec => StructureByAdmin
<1> DEFINE P ==
      \A c \in Account \cup Flat :
        Exists(c) /\ rows[c] # rows'[c] =>
          \E s \in Slot : /\ Commits(s) /\ tx[s].id = c
                          /\ \/ tx[s].role = "admin"
                             \/ /\ ~Sequential
                                /\ tx[s].work = tx[s].seen
                                /\ tx[s].seen # rows[c]
<1>1. IInv /\ [Next]_vars => P
  <2> SUFFICES ASSUME IInv, [Next]_vars, NEW c \in Account \cup Flat,
                      Exists(c), rows[c] # rows'[c]
               PROVE  \E s \in Slot : /\ Commits(s) /\ tx[s].id = c
                                      /\ \/ tx[s].role = "admin"
                                         \/ /\ ~Sequential
                                            /\ tx[s].work = tx[s].seen
                                            /\ tx[s].seen # rows[c]
    OBVIOUS
  <2>1. PICK s \in Slot : CommitTx(s) /\ Commits(s)
    BY OnlyCommits
  <2>2. /\ tx[s].id = c /\ tx[s].op \in Updating
        /\ rows'[c] = Updated(rows[c], tx[s].work, tx[s].cols)
    BY <2>1, CommitWrites
  <2>3. /\ RequestShape(tx[s]) /\ Running(tx[s])
        /\ Sequential => ReadIsFresh(tx[s])
    BY <2>1, RequestFacts DEF Commits, Running
  <2>4. tx[s].role # "admin" => tx[s].work = tx[s].seen
    BY <2>2, <2>3 DEF RequestShape, Updating
  <2>5. tx[s].work # rows[c]
    <3>1. rows[c] \in Row
      BY ExistingRows
    <3>2. Updated(rows[c], rows[c], tx[s].cols) = rows[c]
      BY <3>1 DEF Updated, Row
    <3> QED
      BY <2>2, <3>2
  <2>6. Sequential => tx[s].seen = rows[c]
    BY <2>2, <2>3 DEF ReadIsFresh
  <2> QED
    BY <2>1, <2>2, <2>4, <2>5, <2>6
<1> HIDE DEF P
<1>2. Spec => [][P]_vars
  BY <1>1, Invariance, PTL DEF Spec
<1> QED
  BY <1>2, PTL DEF P, StructureByAdmin
=============================================================================

------------------------ MODULE BudgetVersionsProofs ------------------------
(***************************************************************************)
(* Proofs about BudgetVersions for every set of versions, names, years,    *)
(* slots and keys.  TypeInv (types, and the shape of a request at each of  *)
(* its steps) is proved first; the uniqueness of records and rows rests on *)
(* it.  In both parts a step of one slot is reduced to facts about the     *)
(* record it leaves in tx; only CommitTx writes committed state.           *)
(***************************************************************************)
EXTENDS BudgetVersions, TLAPS

TypeInv == TypeOK /\ RequestShape

(* Creating and renaming leave rows of the right type.                     *)
LEMMA DraftTypes ==
  ASSUME NEW name \in Name
  PROVE  /\ Draft(name) \in Row
         /\ \A v \in Row : with_draft_metadata(v, name) \in Row
<1>1. Draft(name) \in Row
  <2>1. PICK one \in Nat : one = 1
    OBVIOUS
  <2>2. [NoRow EXCEPT !.status = "draft", !.name = name, !.version = one]
          \in Row
    BY DEF NoRow, Row, BudgetVersionStatus
  <2> QED
    BY <2>1, <2>2 DEF Draft
<1>2. ASSUME NEW v \in Row PROVE with_draft_metadata(v, name) \in Row
  <2>1. PICK n \in Nat : n = v.version + 1
    BY DEF Row
  <2>2. [v EXCEPT !.name = name, !.version = n] \in Row
    BY DEF Row
  <2> QED
    BY <2>1, <2>2 DEF with_draft_metadata
<1> QED
  BY <1>1, <1>2

(* So do the transitions.                                                  *)
LEMMA TransitionTypes ==
  ASSUME NEW v \in Row
  PROVE  /\ activate(v) \in Row
         /\ deactivate(v) \in Row
         /\ \A now \in Scope : publish(v, now) \in Row /\ archive(v, now) \in Row
<1>1. PICK n \in Nat : n = v.version + 1
  BY DEF Row
<1>2. ASSUME NEW now \in Scope
      PROVE  publish(v, now) \in Row /\ archive(v, now) \in Row
  <2>1. [v EXCEPT !.status = "published", !.published_at = now, !.version = n]
          \in Row
    BY DEF Row, BudgetVersionStatus
  <2>2. [v EXCEPT !.status = "archived", !.is_active = FALSE,
                  !.published_at = IF @ = None THEN now ELSE @,
                  !.version = n] \in Row
    BY DEF Row, BudgetVersionStatus
  <2> QED
    BY <1>1, <2>1, <2>2 DEF publish, archive
<1>3. /\ [v EXCEPT !.is_active = TRUE, !.version = n] \in Row
      /\ [v EXCEPT !.is_active = FALSE, !.version = n] \in Row
  BY DEF Row
<1> QED
  BY <1>1, <1>2, <1>3 DEF activate, deactivate

(* A slot without a request has a record of the right shape.               *)
LEMMA IdleType == NoRow \in Row /\ Idle \in Tx
BY DEF Idle, Tx, NoRow, Row, BudgetVersionStatus

(* `save' marks columns of the row only.                                   *)
LEMMA ChangedType ==
  ASSUME NEW row, NEW v
  PROVE  Changed(row, v) \in SUBSET Column
BY DEF Changed

(* Row v in the eyes of a transaction is a row.                            *)
LEMMA VisibleType ==
  ASSUME TypeOK, NEW s \in Slot, NEW v \in BudgetVersion
  PROVE  Visible(s, v) \in Row /\ tx[s].held[v] \in Row
BY DEF TypeOK, Tx, Visible

(* The row a pending UPDATE leaves is one.                                 *)
LEMMA SavedType ==
  ASSUME TypeOK, NEW s \in Slot, tx[s].at \in BudgetVersion
  PROVE  Saved(s) \in Row
<1>1. tx[s].work \in Row /\ tx[s].other \in Row
  BY DEF TypeOK, Tx
<1>2. Visible(s, tx[s].at) \in Row
  BY VisibleType
<1> QED
  BY <1>1, <1>2 DEF Saved, Saving, Updated, Row

(* A copy of a row is a row.                                               *)
LEMMA HavingType ==
  ASSUME TypeOK, NEW r \in Tx, NEW v \in BudgetVersion
  PROVE  Having(r, v) \in [BudgetVersion -> SUBSET Row]
<1>1. r.seen \in [BudgetVersion -> SUBSET Row] /\ rows[v] \in Row
  BY DEF TypeOK, Tx
<1> QED
  BY <1>1 DEF Having

(* A step of slot s that replaces its record by one of the right shape     *)
(* keeps the others.                                                       *)
LEMMA TxStep ==
  ASSUME TypeOK, RequestShape, NEW s \in Slot, NEW t \in Tx,
         tx' = [tx EXCEPT ![s] = t],
         t.pc = "idle" => t = Idle,
         t.pc # "idle" => t.id \in BudgetVersion /\ t.at \in BudgetVersion,
         t.op \in TransitionOp => t.key \in IdemKey,
         t.reserved => t.op \in TransitionOp,
         t.pc \in {"reserve", "apply"} => t.op \in TransitionOp
  PROVE  tx' \in [Slot -> Tx] /\ RequestShape'
BY DEF TypeOK, RequestShape

(* Starting a request keeps types and shapes.                              *)
LEMMA BeginType ==
  ASSUME TypeInv, NEW s \in Slot, Begin(s)
  PROVE  TypeInv'
<1> USE DEF TypeInv
<1>1. PICK v \in BudgetVersion :
        \/ \E name \in Name : Create(s, v, name) \/ Update(s, v, name)
        \/ \E op \in TransitionOp, key \in IdemKey : Transition(s, op, v, key)
  BY DEF Begin
<1>2. rows[v] \in Row
  BY DEF TypeOK
<1>h. Having(Idle, v) \in [BudgetVersion -> SUBSET Row]
  BY IdleType, HavingType
<1>3. ASSUME NEW name \in Name, Create(s, v, name) PROVE TypeInv'
  <2> DEFINE t == [Idle EXCEPT !.op = "create", !.pc = "flush", !.id = v,
                               !.at = v, !.cols = Column,
                               !.work = Draft(name), !.seen = Having(Idle, v)]
  <2>1. Draft(name) \in Row
    BY DraftTypes
  <2>2. t \in Tx
    BY <1>h, <2>1, IdleType DEF Tx, Idle
  <2>3. tx' = [tx EXCEPT ![s] = t]
    BY <1>3 DEF Create
  <2>4. tx' \in [Slot -> Tx] /\ RequestShape'
    BY <2>2, <2>3, TxStep DEF Idle, TransitionOp
  <2> QED
    BY <1>3, <2>4 DEF Create, TypeOK
<1>4. ASSUME NEW name \in Name, Update(s, v, name) PROVE TypeInv'
  <2> DEFINE w == with_draft_metadata(rows[v], name)
             t == [Idle EXCEPT !.op = "update", !.pc = "save", !.id = v,
                               !.at = v, !.work = w, !.seen = Having(Idle, v)]
  <2>1. w \in Row
    BY <1>2, DraftTypes
  <2>2. t \in Tx
    BY <1>h, <2>1, IdleType DEF Tx, Idle
  <2>3. tx' = [tx EXCEPT ![s] = t]
    BY <1>4 DEF Update
  <2>4. tx' \in [Slot -> Tx] /\ RequestShape'
    BY <2>2, <2>3, TxStep DEF Idle, TransitionOp
  <2> QED
    BY <1>4, <2>4 DEF Update, TypeOK
<1>5. ASSUME NEW op \in TransitionOp, NEW key \in IdemKey,
             Transition(s, op, v, key)
      PROVE  TypeInv'
  <2> DEFINE t == [Idle EXCEPT !.op = op, !.pc = "reserve", !.id = v, !.at = v,
                               !.key = key, !.work = rows[v],
                               !.seen = Having(Idle, v)]
  <2>1. t \in Tx
    BY <1>2, <1>h, IdleType DEF Tx, Idle
  <2>2. tx' = [tx EXCEPT ![s] = t]
    BY <1>5 DEF Transition
  <2>3. tx' \in [Slot -> Tx] /\ RequestShape'
    BY <2>1, <2>2, TxStep DEF Idle
  <2> QED
    BY <1>5, <2>3 DEF Transition, TypeOK
<1> QED
  BY <1>1, <1>3, <1>4, <1>5

(* Saving an object of the request keeps types and shapes.                 *)
LEMMA SaveWorkType ==
  ASSUME TypeInv, NEW s \in Slot, tx[s].pc # "idle", NEW v \in Row,
         NEW pc \in {"flush", "done"}, SaveWork(s, v, pc)
  PROVE  TypeInv'
<1> USE DEF TypeInv
<1> DEFINE c == Changed(Visible(s, tx[s].id), v)
           t == [tx[s] EXCEPT !.work = v, !.at = tx[s].id, !.pc = pc,
                              !.cols = c, !.seen = Having(tx[s], tx[s].id)]
<1>1. /\ c \in SUBSET Column /\ tx[s].id \in BudgetVersion
      /\ Having(tx[s], tx[s].id) \in [BudgetVersion -> SUBSET Row]
  BY ChangedType, HavingType DEF RequestShape, TypeOK
<1>2. tx[s] \in Tx
  BY DEF TypeOK
<1>3. t \in Tx
  BY <1>1, <1>2 DEF Tx
<1>4. tx' = [tx EXCEPT ![s] = t]
  BY DEF SaveWork
<1>5. tx' \in [Slot -> Tx] /\ RequestShape'
  BY <1>2, <1>3, <1>4, TxStep DEF RequestShape, Tx
<1> QED
  BY <1>5 DEF SaveWork, TypeOK

(* So does each further step of a request.                                 *)
LEMMA ContinueType ==
  ASSUME TypeInv, NEW s \in Slot, Continue(s)
  PROVE  TypeInv'
<1> USE DEF TypeInv
<1>1. tx[s] \in Tx /\ tx[s].work \in Row /\ tx[s].other \in Row
  BY DEF TypeOK, Tx
<1>2. tx[s].pc # "idle" => tx[s].id \in BudgetVersion /\ tx[s].at \in BudgetVersion
  BY DEF RequestShape
<1>3. tx[s].op \in TransitionOp => Used(s) \in Scope
  BY DEF RequestShape, Used, Scope
<1>4. CASE Reserve(s)
  <2> DEFINE p == IF tx[s].op = "activate" THEN "active" ELSE "apply"
             t == [tx[s] EXCEPT !.pc = p]
  <2>1. p \in {"active", "apply"}
    OBVIOUS
  <2>2. tx' = [tx EXCEPT ![s] = t] /\ tx[s].pc = "reserve"
    BY <1>4 DEF Reserve
  <2> HIDE DEF p
  <2>3. t \in Tx
    BY <1>1, <2>1 DEF Tx
  <2>4. tx' \in [Slot -> Tx] /\ RequestShape'
    <3>1. t.pc = p /\ t.id = tx[s].id /\ t.at = tx[s].at /\ t.op = tx[s].op
          /\ t.key = tx[s].key /\ t.reserved = tx[s].reserved
      BY <1>1 DEF Tx
    <3> HIDE DEF t
    <3> QED
      BY <1>2, <2>1, <2>2, <2>3, <3>1, TxStep DEF RequestShape
  <2> QED
    BY <2>4, <1>4 DEF Reserve, TypeOK
<1>5. CASE Replay(s)
  <2>1. tx' = [tx EXCEPT ![s] = Idle]
    BY <1>5 DEF Replay
  <2>2. tx' \in [Slot -> Tx] /\ RequestShape'
    BY <2>1, IdleType, TxStep DEF Idle, TransitionOp
  <2> QED
    BY <2>2, <1>5 DEF Replay, TypeOK
<1>6. CASE Rename(s)
  BY <1>1, <1>6, SaveWorkType DEF Rename
<1>7. CASE Publish(s)
  <2>1. publish(tx[s].work, Used(s)) \in Row
    BY <1>1, <1>3, <1>7, TransitionTypes DEF Publish, TransitionOp
  <2> QED
    BY <2>1, <1>7, SaveWorkType DEF Publish
<1>8. CASE Archive(s)
  <2>1. archive(tx[s].work, Used(s)) \in Row
    BY <1>1, <1>3, <1>8, TransitionTypes DEF Archive, TransitionOp
  <2> QED
    BY <2>1, <1>8, SaveWorkType DEF Archive
<1>9. CASE Activate(s)
  <2>1. activate(tx[s].work) \in Row
    BY <1>1, TransitionTypes
  <2> QED
    BY <2>1, <1>9, SaveWorkType DEF Activate
<1>10. CASE GetActive(s)
  <2>1. CASE tx' = [tx EXCEPT ![s].pc = "activate"]
    <3> DEFINE t == [tx[s] EXCEPT !.pc = "activate"]
    <3>1. t \in Tx
      BY <1>1 DEF Tx
    <3>2. tx' = [tx EXCEPT ![s] = t] /\ tx[s].pc = "active"
      BY <1>10, <2>1 DEF GetActive
    <3>3. tx' \in [Slot -> Tx] /\ RequestShape'
      BY <1>1, <3>1, <3>2, TxStep DEF RequestShape, Tx
    <3> QED
      BY <3>3, <1>10 DEF GetActive, TypeOK
  <2>2. ASSUME NEW w \in ActiveOthers(tx[s].id),
               tx' = [tx EXCEPT ![s] =
                       [@ EXCEPT !.pc = "deactivate", !.at = w,
                                 !.other = deactivate(rows[w]),
                                 !.seen = Having(tx[s], w)]]
        PROVE  TypeInv'
    <3> DEFINE o == deactivate(rows[w])
               t == [tx[s] EXCEPT !.pc = "deactivate", !.at = w, !.other = o,
                                  !.seen = Having(tx[s], w)]
    <3>1. w \in BudgetVersion
      BY DEF ActiveOthers
    <3>2. o \in Row /\ Having(tx[s], w) \in [BudgetVersion -> SUBSET Row]
      BY <1>1, <3>1, TransitionTypes, HavingType DEF TypeOK
    <3>3. t \in Tx
      BY <1>1, <3>1, <3>2 DEF Tx
    <3>4. tx' = [tx EXCEPT ![s] = t] /\ tx[s].pc = "active"
      BY <1>10, <2>2 DEF GetActive
    <3>5. tx' \in [Slot -> Tx] /\ RequestShape'
      BY <1>1, <3>1, <3>3, <3>4, TxStep DEF RequestShape, Tx
    <3> QED
      BY <3>5, <1>10 DEF GetActive, TypeOK
  <2> QED
    BY <1>10, <2>1, <2>2 DEF GetActive
<1>11. CASE Deactivate(s)
  <2> DEFINE c == Changed(rows[tx[s].at], tx[s].other)
             t == [tx[s] EXCEPT !.cols = c, !.seen = Having(tx[s], tx[s].at),
                                !.pc = "flush"]
  <2>3. tx' = [tx EXCEPT ![s] = t] /\ tx[s].pc = "deactivate"
    BY <1>11 DEF Deactivate
  <2>1. c \in SUBSET Column /\ Having(tx[s], tx[s].at) \in [BudgetVersion -> SUBSET Row]
    BY <1>1, <1>2, <2>3, ChangedType, HavingType
  <2>2. t \in Tx
    BY <1>1, <2>1 DEF Tx
  <2>4. tx' \in [Slot -> Tx] /\ RequestShape'
    BY <1>1, <2>2, <2>3, TxStep DEF RequestShape, Tx
  <2> QED
    BY <2>4, <1>11 DEF Deactivate, TypeOK
<1>12. CASE Flush(s)
  <2> DEFINE h == HeldAfter(s)
             r == tx[s].op \in TransitionOp
             p == IF tx[s].at = tx[s].id THEN "done" ELSE "activate"
             t == [tx[s] EXCEPT !.held = h, !.cols = {}, !.reserved = r,
                                !.pc = p]
  <2>1. tx[s].pc = "flush" /\ tx' = [tx EXCEPT ![s] = t]
    BY <1>12 DEF Flush
  <2>2. Saved(s) \in Row
    BY <1>2, <2>1, SavedType
  <2>3. h \in [BudgetVersion -> Row]
    BY <1>1, <2>2 DEF Tx, HeldAfter
  <2>4. r \in BOOLEAN /\ p \in {"done", "activate"}
    OBVIOUS
  <2> HIDE DEF h, p
  <2>5. t \in Tx
    BY <1>1, <2>3, <2>4 DEF Tx
  <2>6. tx' \in [Slot -> Tx] /\ RequestShape'
    <3>1. t.pc # "idle" /\ t.pc \notin {"reserve", "apply"}
      BY <1>1, <2>4 DEF Tx
    <3>2. t.id = tx[s].id /\ t.at = tx[s].at /\ t.op = tx[s].op
          /\ t.key = tx[s].key /\ (t.reserved <=> r)
      BY <1>1 DEF Tx
    <3> QED
      BY <1>2, <2>1, <2>5, <3>1, <3>2, TxStep DEF RequestShape
  <2> QED
    BY <2>6, <1>12 DEF Flush, TypeOK
<1>13. CASE CommitTx(s)
  <2>1. tx[s].pc = "done" /\ tx' = [tx EXCEPT ![s] = Idle]
    BY <1>13 DEF CommitTx
  <2>2. tx' \in [Slot -> Tx] /\ RequestShape'
    BY <2>1, IdleType, TxStep DEF Idle, TransitionOp
  <2>3. Saved(s) \in Row
    BY <1>2, <2>1, SavedType
  <2>4. rows' \in [BudgetVersion -> Row]
    BY <1>13, <2>3, VisibleType DEF CommitTx
  <2>5. idem' \in [Scope -> BudgetVersion \cup {None}]
    BY <1>2, <1>3, <1>13, <2>1 DEF CommitTx, TypeOK
  <2> QED
    BY <2>2, <2>4, <2>5 DEF TypeOK
<1> QED
  BY <1>4, <1>5, <1>6, <1>7, <1>8, <1>9, <1>10, <1>11, <1>12, <1>13
     DEF Continue

(* TypeInv holds initially.                                                *)
LEMMA InitTypeInv == Init => TypeInv
BY IdleType DEF Init, TypeInv, TypeOK, RequestShape, Idle, TransitionOp

(* TypeInv is inductive.                                                   *)
LEMMA NextTypeInv == TypeInv /\ [Next]_vars => TypeInv'
<1> SUFFICES ASSUME TypeInv, [Next]_vars PROVE TypeInv'
  OBVIOUS
<1>1. ASSUME NEW s \in Slot, Begin(s) PROVE TypeInv'
  BY <1>1, BeginType
<1>2. ASSUME NEW s \in Slot, Continue(s) PROVE TypeInv'
  BY <1>2, ContinueType
<1>3. ASSUME NEW s \in Slot, Rollback(s) PROVE TypeInv'
  <2>1. tx' = [tx EXCEPT ![s] = Idle]
    BY <1>3 DEF Rollback
  <2>2. tx' \in [Slot -> Tx] /\ RequestShape'
    BY <2>1, IdleType, TxStep DEF Idle, TransitionOp, TypeInv
  <2> QED
    BY <1>3, <2>2 DEF Rollback, TypeOK, TypeInv
<1>4. ASSUME UNCHANGED vars PROVE TypeInv'
  BY <1>4 DEF TypeInv, TypeOK, RequestShape, vars
<1> QED
  BY <1>1, <1>2, <1>3, <1>4 DEF Next

(* Every variable keeps its type in every behaviour.                       *)
THEOREM TypeCorrect == Spec => []TypeOK
<1>1. TypeInv => TypeOK
  BY DEF TypeInv
<1> QED
  BY <1>1, InitTypeInv, NextTypeInv, PTL DEF Spec

-----------------------------------------------------------------------------
DataInv == RecordsHeld /\ Unclashed

NoneHeld == [v \in BudgetVersion |-> NoRow]

(* Clashing is symmetric, and a row that does not exist clashes with none. *)
LEMMA ClashSymmetric ==
  ASSUME NEW v \in BudgetVersion, NEW w \in BudgetVersion, NEW row1, NEW row2
  PROVE  /\ Clash(v, row1, w, row2) <=> Clash(w, row2, v, row1)
         /\ ~Clash(v, NoRow, w, row2)
BY DEF Clash, Active, NoRow

(* A step of slot s that writes nothing, or drops what it has written,     *)
(* keeps the data invariant.                                               *)
LEMMA SlotStep ==
  ASSUME TypeInv, DataInv, NEW s \in Slot, NEW t \in Tx,
         tx' = [tx EXCEPT ![s] = t], UNCHANGED <<rows, idem>>,
         t.held = tx[s].held \/ t.held = NoneHeld,
         t.reserved => /\ tx[s].reserved
                       /\ t.op = tx[s].op
                       /\ t.key = tx[s].key
  PROVE  DataInv'
<1>1. tx \in [Slot -> Tx]
  BY DEF TypeInv, TypeOK
<1>2. \A s2 \in Slot : tx'[s2] = IF s2 = s THEN t ELSE tx[s2]
  BY <1>1
<1>3. RecordsHeld'
  <2>1. \A s2 \in Slot : tx'[s2].reserved
                           => tx[s2].reserved /\ Used(s2)' = Used(s2)
    BY <1>2 DEF Used
  <2> QED
    BY <2>1 DEF DataInv, RecordsHeld
<1>4. \A s2 \in Slot, v \in BudgetVersion :
        \/ tx'[s2].held[v] = tx[s2].held[v] /\ Visible(s2, v)' = Visible(s2, v)
        \/ tx'[s2].held[v] = NoRow /\ Visible(s2, v)' = rows[v]
  BY <1>2 DEF Visible, NoneHeld
<1>5. \A s2 \in Slot :
        \/ \A v \in BudgetVersion : /\ tx'[s2].held[v] = tx[s2].held[v]
                                     /\ Visible(s2, v)' = Visible(s2, v)
        \/ \A v \in BudgetVersion : tx'[s2].held[v] = NoRow
  BY <1>2 DEF Visible, NoneHeld
<1>6. Unclashed'
  <2>1. \A v, w \in BudgetVersion : v # w => ~Clash(v, rows[v], w, rows[w])'
    BY DEF DataInv, Unclashed, Clash, Active
  <2>2. ASSUME NEW s2 \in Slot, NEW v \in BudgetVersion,
               NEW w \in BudgetVersion, v # w
        PROVE  ~Clash(v, tx[s2].held[v], w, Visible(s2, w))'
    <3>1. CASE tx'[s2].held[v] = NoRow
      BY <3>1, ClashSymmetric DEF Clash, Active
    <3>2. CASE /\ tx'[s2].held[v] = tx[s2].held[v]
               /\ Visible(s2, w)' = Visible(s2, w)
      <4>1. ~Clash(v, tx[s2].held[v], w, Visible(s2, w))
        BY <2>2 DEF DataInv, Unclashed
      <4> QED
        BY <3>2, <4>1 DEF Clash, Active
    <3> QED
      BY <1>5, <3>1, <3>2
  <2>3. ASSUME NEW s1 \in Slot, NEW s2 \in Slot, s1 # s2,
               NEW v \in BudgetVersion, NEW w \in BudgetVersion
        PROVE  /\ v # w => ~Clash(v, tx[s1].held[v], w, tx[s2].held[w])'
               /\ tx'[s1].held[v] # NoRow => tx'[s2].held[v] = NoRow
    <3>1. v # w => ~Clash(v, tx'[s1].held[v], w, tx'[s2].held[w])
      BY <1>4, <2>3, ClashSymmetric DEF DataInv, Unclashed
    <3>2. tx'[s1].held[v] # NoRow => tx'[s2].held[v] = NoRow
      BY <1>4, <2>3 DEF DataInv, Unclashed
    <3> QED
      BY <3>1, <3>2 DEF Clash, Active
  <2> QED
    BY <2>1, <2>2, <2>3 DEF Unclashed, NoRow, Clash, Active
<1> QED
  BY <1>3, <1>6 DEF DataInv

(* A request starts with nothing written.                                  *)
LEMMA BeginData ==
  ASSUME TypeInv, DataInv, NEW s \in Slot, Begin(s), TypeInv'
  PROVE  DataInv'
<1> DEFINE t == tx'[s]
<1>1. tx \in [Slot -> Tx] /\ t \in Tx
  BY DEF TypeInv, TypeOK
<1>2. PICK v \in BudgetVersion :
        \/ \E name \in Name : Create(s, v, name) \/ Update(s, v, name)
        \/ \E op \in TransitionOp, key \in IdemKey : Transition(s, op, v, key)
  BY DEF Begin
<1> DEFINE Starts == /\ UNCHANGED <<rows, idem>>
                     /\ tx' = [tx EXCEPT ![s] = t]
                     /\ t.held = NoneHeld
                     /\ ~t.reserved
<1>3. ASSUME NEW name \in Name, Create(s, v, name) PROVE Starts
  BY <1>1, <1>3 DEF Create, Idle, NoneHeld
<1>4. ASSUME NEW name \in Name, Update(s, v, name) PROVE Starts
  BY <1>1, <1>4 DEF Update, Idle, NoneHeld
<1>5. ASSUME NEW op \in TransitionOp, NEW key \in IdemKey,
             Transition(s, op, v, key)
      PROVE  Starts
  BY <1>1, <1>5 DEF Transition, Idle, NoneHeld
<1>6. Starts
  BY <1>2, <1>3, <1>4, <1>5
<1> QED
  BY <1>1, <1>6, SlotStep

(* The rows a transaction sees after its flush do not clash with those it  *)
(* or another one holds: Admits has looked at all of them.                 *)
LEMMA FlushData ==
  ASSUME TypeInv, DataInv, NEW s \in Slot, Flush(s)
  PROVE  DataInv'
<1> DEFINE at == tx[s].at
<1>1. /\ tx \in [Slot -> Tx]
      /\ tx[s] \in Tx
      /\ at \in BudgetVersion
      /\ tx[s].pc = "flush"
      /\ UNCHANGED <<rows, idem>>
      /\ Inserts(s) => Unused(s)
      /\ tx[s].cols # {} => Admits(s, at, Saved(s))
  BY DEF TypeInv, TypeOK, RequestShape, Flush, Flushable
<1> DEFINE t == tx'[s]
<1>2. /\ t.held = HeldAfter(s)
      /\ t.op = tx[s].op
      /\ t.key = tx[s].key
      /\ t.reserved <=> tx[s].op \in TransitionOp
  BY <1>1 DEF Flush, Tx
<1>3. \A s2 \in Slot : tx'[s2] = IF s2 = s THEN t ELSE tx[s2]
  BY <1>1 DEF Flush
<1> HIDE DEF t
<1>4. RecordsHeld'
  <2>1. \A s2 \in Slot : /\ Used(s2)' = Used(s2)
                         /\ s2 # s => tx'[s2].reserved = tx[s2].reserved
    BY <1>2, <1>3 DEF Used
  <2>2. tx'[s].reserved => /\ idem[Used(s)] = None
                           /\ \A s2 \in Slot \ {s} :
                                tx[s2].reserved => Used(s2) # Used(s)
    BY <1>1, <1>2, <1>3 DEF Inserts, Unused, DataInv, RecordsHeld
  <2> QED
    BY <1>1, <2>1, <2>2 DEF DataInv, RecordsHeld
<1>5. CASE tx[s].cols = {}
  <2>1. \A s2 \in Slot : tx'[s2].held = tx[s2].held
    BY <1>2, <1>3, <1>5 DEF HeldAfter
  <2>2. \A s2 \in Slot, v \in BudgetVersion : Visible(s2, v)' = Visible(s2, v)
    BY <1>1, <2>1 DEF Visible
  <2>3. Unclashed'
    <3>1. ASSUME NEW v \in BudgetVersion, NEW w \in BudgetVersion, v # w
          PROVE  ~Clash(v, rows[v], w, rows[w])'
      BY <1>1, <3>1 DEF DataInv, Unclashed, Clash, Active
    <3>2. ASSUME NEW s2 \in Slot, NEW v \in BudgetVersion,
                 NEW w \in BudgetVersion, v # w
          PROVE  ~Clash(v, tx'[s2].held[v], w, Visible(s2, w)')
      BY <2>1, <2>2, <3>2 DEF DataInv, Unclashed
    <3>3. ASSUME NEW s1 \in Slot, NEW s2 \in Slot, s1 # s2,
                 NEW v \in BudgetVersion, NEW w \in BudgetVersion
          PROVE  /\ v # w => ~Clash(v, tx'[s1].held[v], w, tx'[s2].held[w])
                 /\ tx'[s1].held[v] # NoRow => tx'[s2].held[v] = NoRow
      BY <2>1, <3>3 DEF DataInv, Unclashed
    <3> QED
      BY <3>1, <3>2, <3>3 DEF Unclashed, Clash, Active, NoRow
  <2> QED
    BY <1>4, <2>3 DEF DataInv
<1>6. CASE tx[s].cols # {}
  <2> DEFINE row == Saved(s)
  <2>1. /\ \A w \in BudgetVersion \ {at} : ~Clash(at, row, w, Visible(s, w))
        /\ \A s2 \in Slot \ {s} :
             /\ tx[s2].held[at] = NoRow
             /\ \A w \in BudgetVersion \ {at} :
                  tx[s2].held[w] # NoRow => ~Clash(at, row, w, tx[s2].held[w])
    BY <1>1, <1>6 DEF Admits
  <2>0. row # NoRow
    BY <1>1, <1>6 DEF Admits, NoRow
  <2> HIDE DEF row
  <2>2. \A v \in BudgetVersion :
          tx'[s].held[v] = IF v = at THEN row ELSE tx[s].held[v]
    BY <1>1, <1>2, <1>3, <1>6 DEF HeldAfter, Tx, row, t
  <2>3. \A s2 \in Slot \ {s} : tx'[s2].held = tx[s2].held
    BY <1>3
  <2>4. \A s2 \in Slot \ {s}, v \in BudgetVersion : Visible(s2, v)' = Visible(s2, v)
    BY <1>1, <2>3 DEF Visible
  <2>5. \A v \in BudgetVersion \ {at} : Visible(s, v)' = Visible(s, v)
    BY <1>1, <2>2 DEF Visible
  <2>6. ASSUME NEW v \in BudgetVersion, NEW w \in BudgetVersion, v # w
        PROVE  ~Clash(v, tx'[s].held[v], w, Visible(s, w)')
    <3>1. CASE v = at
      BY <2>1, <2>2, <2>5, <2>6, <3>1
    <3>2. CASE v # at /\ w = at /\ tx[s].held[v] = NoRow
      BY <2>2, <3>2, ClashSymmetric
    <3>3. CASE v # at /\ w = at /\ tx[s].held[v] # NoRow
      <4>1. ~Clash(at, row, v, tx[s].held[v])
        BY <2>1, <3>3 DEF Visible
      <4>2. Visible(s, w)' = row
        BY <2>0, <2>2, <3>3 DEF Visible
      <4> QED
        BY <2>2, <3>3, <4>1, <4>2, ClashSymmetric
    <3>4. CASE v # at /\ w # at
      BY <2>2, <2>5, <2>6, <3>4 DEF DataInv, Unclashed
    <3> QED
      BY <3>1, <3>2, <3>3, <3>4
  <2>7. ASSUME NEW s2 \in Slot \ {s}, NEW v \in BudgetVersion,
               NEW w \in BudgetVersion, v # w
        PROVE  ~Clash(v, tx'[s].held[v], w, tx'[s2].held[w])
    <3>1. CASE v = at /\ tx[s2].held[w] # NoRow
      BY <2>1, <2>2, <2>3, <2>7, <3>1
    <3>2. CASE tx[s2].held[w] = NoRow
      BY <2>3, <3>2, ClashSymmetric
    <3>3. CASE v # at
      BY <2>2, <2>3, <2>7, <3>3 DEF DataInv, Unclashed
    <3> QED
      BY <3>1, <3>2, <3>3
  <2>8. ASSUME NEW s2 \in Slot \ {s}, NEW v \in BudgetVersion
        PROVE  tx'[s].held[v] = NoRow \/ tx'[s2].held[v] = NoRow
    BY <2>1, <2>2, <2>3 DEF DataInv, Unclashed
  <2>9. Unclashed'
    <3>1. ASSUME NEW v \in BudgetVersion, NEW w \in BudgetVersion, v # w
          PROVE  ~Clash(v, rows[v], w, rows[w])'
      BY <1>1, <3>1 DEF DataInv, Unclashed, Clash, Active
    <3>2. ASSUME NEW s2 \in Slot, NEW v \in BudgetVersion,
                 NEW w \in BudgetVersion, v # w
          PROVE  ~Clash(v, tx'[s2].held[v], w, Visible(s2, w)')
      BY <2>3, <2>4, <2>6, <3>2 DEF DataInv, Unclashed
    <3>3. ASSUME NEW s1 \in Slot, NEW s2 \in Slot, s1 # s2,
                 NEW v \in BudgetVersion, NEW w \in BudgetVersion
          PROVE  /\ v # w => ~Clash(v, tx'[s1].held[v], w, tx'[s2].held[w])
                 /\ tx'[s1].held[v] # NoRow => tx'[s2].held[v] = NoRow
      BY <2>3, <2>7, <2>8, <3>3, ClashSymmetric DEF DataInv, Unclashed
    <3> QED
      BY <3>1, <3>2, <3>3 DEF Unclashed, Clash, Active, NoRow
  <2> QED
    BY <1>4, <2>9 DEF DataInv
<1> QED
  BY <1>5, <1>6

(* The steps of a request that only read.                                  *)
LEMMA ReadData ==
  ASSUME TypeInv, DataInv, NEW s \in Slot, Continue(s), ~Flush(s), ~CommitTx(s),
         TypeInv'
  PROVE  DataInv'
<1> DEFINE t == tx'[s]
           Reads == /\ UNCHANGED <<rows, idem>>
                    /\ tx' = [tx EXCEPT ![s] = t]
                    /\ t.held = tx[s].held \/ t.held = NoneHeld
                    /\ t.reserved => /\ tx[s].reserved
                                     /\ t.op = tx[s].op
                                     /\ t.key = tx[s].key
<1>1. tx \in [Slot -> Tx] /\ t \in Tx /\ tx[s] \in Tx
  BY DEF TypeInv, TypeOK
<1>2. CASE Reserve(s)
  <2>1. Reads
    BY <1>1, <1>2 DEF Reserve, Tx
  <2> QED
    BY <1>1, <2>1, SlotStep
<1>3. CASE Replay(s)
  <2>1. Reads
    BY <1>1, <1>3 DEF Replay, Idle, NoneHeld
  <2> QED
    BY <1>1, <2>1, SlotStep
<1>4. ASSUME NEW v, NEW pc, SaveWork(s, v, pc) PROVE DataInv'
  <2>1. Reads
    BY <1>1, <1>4 DEF SaveWork, Tx
  <2> QED
    BY <1>1, <2>1, SlotStep
<1>5. CASE Rename(s) \/ Publish(s) \/ Archive(s) \/ Activate(s)
  BY <1>4, <1>5 DEF Rename, Publish, Archive, Activate
<1>6. CASE GetActive(s)
  <2>1. Reads
    <3>1. CASE tx' = [tx EXCEPT ![s].pc = "activate"]
      BY <1>1, <1>6, <3>1 DEF GetActive, Tx
    <3>2. CASE \E w \in ActiveOthers(tx[s].id) :
                 tx' = [tx EXCEPT ![s] =
                          [@ EXCEPT !.pc = "deactivate", !.at = w,
                                    !.other = deactivate(rows[w]),
                                    !.seen = Having(tx[s], w)]]
      <4>1. PICK w \in ActiveOthers(tx[s].id) :
                 tx' = [tx EXCEPT ![s] =
                          [@ EXCEPT !.pc = "deactivate", !.at = w,
                                    !.other = deactivate(rows[w]),
                                    !.seen = Having(tx[s], w)]]
        BY <3>2
      <4> QED
        BY <1>1, <1>6, <4>1 DEF GetActive, Tx
    <3> QED
      BY <1>6, <3>1, <3>2 DEF GetActive
  <2> QED
    BY <1>1, <2>1, SlotStep
<1>7. CASE Deactivate(s)
  <2>1. Reads
    BY <1>1, <1>7 DEF Deactivate, Tx
  <2> QED
    BY <1>1, <2>1, SlotStep
<1> QED
  BY <1>2, <1>3, <1>5, <1>6, <1>7 DEF Continue

(* The scope a COMMIT records was unused and is held by nobody else.       *)
LEMMA CommitRecords ==
  ASSUME TypeInv, DataInv, NEW s \in Slot, CommitTx(s),
         tx[s].op \in TransitionOp
  PROVE  /\ Used(s) \in Scope
         /\ idem[Used(s)] = None
         /\ \A s2 \in Slot \ {s} : tx[s2].reserved => Used(s2) # Used(s)
<1>1. Used(s) \in Scope
  BY DEF TypeInv, RequestShape, Used, Scope
<1>2. CASE tx[s].reserved
  BY <1>1, <1>2 DEF DataInv, RecordsHeld
<1>3. CASE ~tx[s].reserved
  BY <1>1, <1>3 DEF CommitTx, Flushable, Inserts, Unused
<1> QED
  BY <1>2, <1>3

(* COMMIT makes visible what the transaction saw, which does not clash.    *)
LEMMA CommitTxData ==
  ASSUME TypeInv, DataInv, NEW s \in Slot, CommitTx(s)
  PROVE  DataInv'
<1> DEFINE at == tx[s].at
           row == Saved(s)
<1>1. /\ tx \in [Slot -> Tx]
      /\ at \in BudgetVersion
      /\ tx[s].cols # {} => Admits(s, at, row)
      /\ tx' = [tx EXCEPT ![s] = Idle]
  BY DEF TypeInv, TypeOK, RequestShape, CommitTx, Flushable
<1>2. \A v \in BudgetVersion : rows'[v] = IF v = at /\ tx[s].cols # {} THEN row
                                          ELSE Visible(s, v)
  BY DEF CommitTx
<1>3. /\ \A s2 \in Slot \ {s} : tx'[s2] = tx[s2]
      /\ ~tx'[s].reserved
      /\ \A v \in BudgetVersion : tx'[s].held[v] = NoRow
  BY <1>1 DEF Idle
<1>4. /\ tx[s].cols # {} =>
           /\ \A w \in BudgetVersion \ {at} : ~Clash(at, row, w, Visible(s, w))
           /\ \A s2 \in Slot \ {s} :
                /\ tx[s2].held[at] = NoRow
                /\ \A w \in BudgetVersion \ {at} :
                     tx[s2].held[w] # NoRow => ~Clash(at, row, w, tx[s2].held[w])
  BY <1>1 DEF Admits
<1> HIDE DEF row
<1>5. ASSUME NEW v \in BudgetVersion, NEW w \in BudgetVersion, v # w
      PROVE  ~Clash(v, Visible(s, v), w, Visible(s, w))
  BY <1>5, ClashSymmetric DEF DataInv, Unclashed, Visible
<1>6. ASSUME NEW v \in BudgetVersion, NEW w \in BudgetVersion, v # w
      PROVE  ~Clash(v, rows'[v], w, rows'[w])
  BY <1>2, <1>4, <1>5, <1>6, ClashSymmetric
<1>7. ASSUME NEW s2 \in Slot \ {s}, NEW v \in BudgetVersion,
             NEW w \in BudgetVersion, v # w, tx[s2].held[w] = NoRow
      PROVE  ~Clash(v, tx[s2].held[v], w, rows'[w])
  <2>1. CASE tx[s2].held[v] = NoRow
    BY <2>1, ClashSymmetric
  <2>2. CASE tx[s2].held[v] # NoRow /\ w = at /\ tx[s].cols # {}
    BY <1>2, <1>4, <1>7, <2>2, ClashSymmetric
  <2>3. CASE /\ tx[s2].held[v] # NoRow
             /\ ~(w = at /\ tx[s].cols # {})
             /\ tx[s].held[w] # NoRow
    BY <1>2, <1>7, <2>3 DEF Visible, DataInv, Unclashed
  <2>4. CASE /\ tx[s2].held[v] # NoRow
             /\ ~(w = at /\ tx[s].cols # {})
             /\ tx[s].held[w] = NoRow
    <3>1. rows'[w] = rows[w]
      BY <1>2, <2>4 DEF Visible
    <3> QED
      BY <1>7, <3>1 DEF Visible, DataInv, Unclashed
  <2> QED
    BY <2>1, <2>2, <2>3, <2>4
<1>8. RecordsHeld'
  <2>1. ASSUME NEW s2 \in Slot, tx'[s2].reserved
        PROVE  /\ s2 # s /\ tx[s2].reserved
               /\ Used(s2)' = Used(s2)
               /\ idem[Used(s2)] = None
    BY <1>3, <2>1 DEF Used, DataInv, RecordsHeld
  <2>2. ASSUME NEW s2 \in Slot, tx'[s2].reserved
        PROVE  idem'[Used(s2)] = None
    <3>1. CASE tx[s].op \in TransitionOp
      <4>1. idem' = [idem EXCEPT ![Used(s)] = tx[s].id]
        BY <3>1 DEF CommitTx
      <4>2. Used(s2) # Used(s)
        BY <2>1, <2>2, <3>1, CommitRecords
      <4>3. Used(s2) \in Scope
        BY <2>1, <2>2 DEF TypeInv, RequestShape, Used, Scope
      <4> QED
        BY <2>1, <2>2, <4>1, <4>2, <4>3 DEF TypeInv, TypeOK
    <3>2. CASE tx[s].op \notin TransitionOp
      BY <2>1, <2>2, <3>2 DEF CommitTx
    <3> QED
      BY <3>1, <3>2
  <2> QED
    BY <2>1, <2>2 DEF DataInv, RecordsHeld
<1>9. \A s2 \in Slot \ {s}, w \in BudgetVersion :
        Visible(s2, w)' = IF tx[s2].held[w] # NoRow THEN tx[s2].held[w]
                                                  ELSE rows'[w]
  BY <1>3 DEF Visible
<1>10. Unclashed'
  <2>1. ASSUME NEW s2 \in Slot, NEW v \in BudgetVersion,
               NEW w \in BudgetVersion, v # w
        PROVE  ~Clash(v, tx'[s2].held[v], w, Visible(s2, w)')
    <3>1. CASE s2 = s
      BY <1>3, <3>1, ClashSymmetric
    <3>2. CASE s2 # s /\ tx[s2].held[w] = NoRow
      BY <1>3, <1>7, <1>9, <2>1, <3>2
    <3>3. CASE s2 # s /\ tx[s2].held[w] # NoRow
      <4>1. Visible(s2, w)' = Visible(s2, w)
        BY <1>9, <3>3 DEF Visible
      <4>2. ~Clash(v, tx[s2].held[v], w, Visible(s2, w))
        BY <2>1 DEF DataInv, Unclashed
      <4> QED
        BY <1>3, <3>3, <4>1, <4>2
    <3> QED
      BY <3>1, <3>2, <3>3
  <2>2. ASSUME NEW s1 \in Slot, NEW s2 \in Slot, s1 # s2,
               NEW v \in BudgetVersion, NEW w \in BudgetVersion
        PROVE  /\ v # w => ~Clash(v, tx'[s1].held[v], w, tx'[s2].held[w])
               /\ tx'[s1].held[v] # NoRow => tx'[s2].held[v] = NoRow
    BY <1>3, <2>2, ClashSymmetric DEF DataInv, Unclashed
  <2> QED
    BY <1>6, <2>1, <2>2 DEF Unclashed, Clash, Active, NoRow
<1> QED
  BY <1>8, <1>10 DEF DataInv

(* The data invariant is inductive, given the types.                       *)
LEMMA InitDataInv == Init => DataInv
<1> SUFFICES ASSUME Init PROVE DataInv
  OBVIOUS
<1>1. /\ \A v \in BudgetVersion : rows[v] = NoRow
      /\ \A s \in Slot : /\ ~tx[s].reserved
                         /\ \A v \in BudgetVersion : tx[s].held[v] = NoRow
  BY DEF Init, Idle
<1>2. RecordsHeld
  BY <1>1 DEF RecordsHeld
<1>3. Unclashed
  BY <1>1, ClashSymmetric DEF Unclashed
<1> QED
  BY <1>2, <1>3 DEF DataInv

LEMMA NextDataInv == TypeInv /\ DataInv /\ [Next]_vars => DataInv'
<1> SUFFICES ASSUME TypeInv, DataInv, [Next]_vars PROVE DataInv'
  OBVIOUS
<1>1. TypeInv'
  BY NextTypeInv
<1>2. ASSUME NEW s \in Slot, Begin(s) PROVE DataInv'
  BY <1>1, <1>2, BeginData
<1>3. ASSUME NEW s \in Slot, Continue(s) PROVE DataInv'
  BY <1>1, <1>3, ReadData, FlushData, CommitTxData
<1>4. ASSUME NEW s \in Slot, Rollback(s) PROVE DataInv'
  <2>1. /\ tx' = [tx EXCEPT ![s] = Idle]
        /\ UNCHANGED <<rows, idem>>
        /\ Idle.held = NoneHeld
        /\ ~Idle.reserved
    BY <1>4 DEF Rollback, Idle, NoneHeld
  <2> QED
    BY <2>1, IdleType, SlotStep
<1>5. ASSUME UNCHANGED vars PROVE DataInv'
  BY <1>5 DEF vars, DataInv, RecordsHeld, Unclashed, Used, Visible, Clash,
              Active
<1> QED
  BY <1>2, <1>3, <1>4, <1>5 DEF Next

-----------------------------------------------------------------------------
(* The inductive invariant holds in every state.                           *)
THEOREM Invariance == Spec => []IInv
<1>1. Init => TypeInv /\ DataInv
  BY InitTypeInv, InitDataInv
<1>2. TypeInv /\ DataInv /\ [Next]_vars => (TypeInv /\ DataInv)'
  BY NextTypeInv, NextDataInv
<1>3. TypeInv /\ DataInv => IInv
  BY DEF TypeInv, DataInv, IInv
<1> QED
  BY <1>1, <1>2, <1>3, PTL DEF Spec

(* A fiscal year has at most one active version.                           *)
THEOREM OneActive == Spec => []OneActivePerYear
<1>1. IInv => OneActivePerYear
  BY DEF IInv, Unclashed, Clash, OneActivePerYear
<1> QED
  BY <1>1, Invariance, PTL

(* Two versions of a fiscal year never have the same name.                 *)
THEOREM UniqueNames == Spec => []NamesUnique
<1>1. IInv => NamesUnique
  BY DEF IInv, Unclashed, Clash, NamesUnique
<1> QED
  BY <1>1, Invariance, PTL

(* An idempotency record, once committed, is never overwritten.            *)
THEOREM FinalRecords == Spec => RecordsAreFinal
<1> DEFINE Final == \A u \in Scope : idem[u] # None => idem'[u] = idem[u]
<1>1. IInv /\ [Next]_vars => [Final]_vars
  <2> SUFFICES ASSUME IInv, [Next]_vars PROVE UNCHANGED vars \/ Final
    OBVIOUS
  <2>1. TypeInv /\ DataInv
    BY DEF IInv, TypeInv, DataInv
  <2>2. ASSUME NEW s \in Slot, CommitTx(s) PROVE Final
    <3>1. CASE tx[s].op \in TransitionOp
      <4>1. idem' = [idem EXCEPT ![Used(s)] = tx[s].id]
        BY <2>2, <3>1 DEF CommitTx
      <4> QED
        BY <2>1, <2>2, <3>1, <4>1, CommitRecords DEF TypeInv, TypeOK
    <3>2. CASE tx[s].op \notin TransitionOp
      BY <2>2, <3>2 DEF CommitTx
    <3> QED
      BY <3>1, <3>2
  <2>3. ASSUME NEW s \in Slot, Continue(s), ~CommitTx(s) PROVE idem' = idem
    BY <2>3 DEF Continue, Reserve, Replay, Rename, Publish, Archive, Activate,
                SaveWork, GetActive, Deactivate, Flush
  <2>4. ASSUME NEW s \in Slot, Begin(s) \/ Rollback(s) PROVE idem' = idem
    BY <2>4 DEF Begin, Create, Update, Transition, Rollback
  <2> QED
    BY <2>2, <2>3, <2>4 DEF Next
<1>2. IInv /\ IInv' /\ [Next]_vars => [Final]_vars
  BY <1>1
<1> QED
  BY <1>2, Invariance, PTL DEF Spec, RecordsAreFinal
-----------------------------------------------------------------------------
(* Overlapping requests                                                    *)

(* `save' followed by a flush leaves the object that was saved, if the row *)
(* is still the one `save' compared it with.                               *)
LEMMA UpdatedFacts ==
  ASSUME NEW row \in Row, NEW v \in Row
  PROVE  /\ \A cols : Changed(row, v) \subseteq cols => Updated(row, v, cols) = v
         /\ Changed(row, v) = {} => row = v
<1>1. /\ row = [status |-> row.status, is_active |-> row.is_active,
                published_at |-> row.published_at, name |-> row.name,
                version |-> row.version]
      /\ v = [status |-> v.status, is_active |-> v.is_active,
              published_at |-> v.published_at, name |-> v.name, version |-> v.version]
  BY DEF Row
<1>2. /\ "status" \in Changed(row, v) <=> row.status # v.status
      /\ "is_active" \in Changed(row, v) <=> row.is_active # v.is_active
      /\ "published_at" \in Changed(row, v) <=> row.published_at # v.published_at
      /\ "name" \in Changed(row, v) <=> row.name # v.name
      /\ "version" \in Changed(row, v) <=> row.version # v.version
  BY DEF Changed, Column
<1>3. ASSUME NEW cols, Changed(row, v) \subseteq cols PROVE Updated(row, v, cols) = v
  BY <1>1, <1>2, <1>3 DEF Updated
<1> QED
  BY <1>1, <1>2, <1>3

(* The domain methods advance the counter with every change, keep what is  *)
(* published closed and only active what is published.                     *)
LEMMA MethodsFollow ==
  ASSUME NEW old \in Row
  PROVE  /\ \A now \in Scope : old.status # "archived" =>
              /\ Follows(old, publish(old, now))
              /\ Active(old) => Active(publish(old, now))
         /\ \A now \in Scope :
              /\ Follows(old, archive(old, now))
              /\ archive(old, now).status = "archived"
         /\ \A name \in Name : old.status = "draft" =>
              Follows(old, with_draft_metadata(old, name))
         /\ old.status = "published" =>
              Follows(old, activate(old)) /\ Active(activate(old))
         /\ Active(old) => Follows(old, deactivate(old)) /\ deactivate(old) # NoRow
         /\ \A name \in Name : Follows(NoRow, Draft(name)) /\ Draft(name).status = "draft"
<1>1. \A now \in Scope : old.status # "archived" =>
        /\ Follows(old, publish(old, now))
        /\ Active(old) => Active(publish(old, now))
  BY DEF publish, Follows, Active, Row
<1>2. \A now \in Scope : /\ Follows(old, archive(old, now))
                         /\ archive(old, now).status = "archived"
  BY DEF archive, Follows, Row
<1>3. \A name \in Name : old.status = "draft" =>
        Follows(old, with_draft_metadata(old, name))
  BY DEF with_draft_metadata, Follows, Row
<1>4. old.status = "published" => Follows(old, activate(old)) /\ Active(activate(old))
  BY DEF activate, Follows, Active, Row
<1>5. Active(old) => Follows(old, deactivate(old)) /\ deactivate(old) # NoRow
  BY DEF deactivate, Follows, Active, Row, NoRow
<1>6. \A name \in Name : Follows(NoRow, Draft(name)) /\ Draft(name).status = "draft"
  BY DEF Draft, NoRow, Follows
<1> QED
  BY <1>1, <1>2, <1>3, <1>4, <1>5, <1>6

(* A step that writes no row leaves a record of the right shape.           *)
LEMMA SeenMoves ==
  ASSUME TypeInv, SeenInv, NEW s \in Slot, NEW t,
         FromSeen(t), WritingOrder(t), Written(t),
         tx' = [tx EXCEPT ![s] = t], UNCHANGED rows
  PROVE  SeenInv'
<1>1. \A s2 \in Slot : tx'[s2] = IF s2 = s THEN t ELSE tx[s2]
  BY DEF TypeInv, TypeOK
<1>2. \A s2 \in Slot : FromSeen(tx'[s2]) /\ WritingOrder(tx'[s2]) /\ Written(tx'[s2])
  BY <1>1 DEF SeenInv
<1>3. \A s2 \in Slot : Written(tx[s2])'
  BY <1>2 DEF Written, Fresh
<1>4. \A s2 \in Slot : FromSeen(tx[s2])' /\ WritingOrder(tx[s2])'
  BY <1>2 DEF FromSeen, WritingOrder
<1> QED
  BY <1>3, <1>4 DEF SeenInv

LEMMA IdleSeen == FromSeen(Idle) /\ WritingOrder(Idle) /\ Written(Idle)
<1>1. /\ Idle.pc = "idle"
      /\ \A v \in BudgetVersion : Idle.held[v] = NoRow /\ Idle.seen[v] = {}
  BY DEF Idle
<1> QED
  BY <1>1 DEF FromSeen, WritingOrder, Written, Unwritten, Reading, Prepared, Previous

(* What is known of a request.                                             *)
LEMMA SeenRequest ==
  ASSUME TypeInv, SeenInv, NEW s \in Slot
  PROVE  /\ tx[s] \in Tx /\ rows \in [BudgetVersion -> Row]
         /\ FromSeen(tx[s]) /\ WritingOrder(tx[s]) /\ Written(tx[s])
         /\ tx[s].pc # "idle" => tx[s].id \in BudgetVersion /\ tx[s].at \in BudgetVersion
         /\ tx[s].op \in TransitionOp => Used(s) \in Scope
         /\ \A v \in BudgetVersion : tx[s].held[v] \in Row /\ tx[s].seen[v] \subseteq Row
BY DEF TypeInv, TypeOK, RequestShape, SeenInv, Used, Scope, Tx

(* Having read v, a request has a copy of it and of nothing more.          *)
LEMMA HavingFacts ==
  ASSUME NEW r \in Tx, NEW v \in BudgetVersion
  PROVE  /\ Having(r, v)[v] = r.seen[v] \cup {rows[v]}
         /\ \A w \in BudgetVersion \ {v} : Having(r, v)[w] = r.seen[w]
BY DEF Having, Tx

LEMMA BeginSeen ==
  ASSUME TypeInv, SeenInv, NEW s \in Slot, Begin(s)
  PROVE  SeenInv'
<1>1. PICK v \in BudgetVersion :
        \/ \E name \in Name : Create(s, v, name) \/ Update(s, v, name)
        \/ \E op \in TransitionOp, key \in IdemKey : Transition(s, op, v, key)
  BY DEF Begin
<1> DEFINE seen == Having(Idle, v)
<1>2. rows[v] \in Row /\ NoRow \in Row /\ seen[v] = {rows[v]}
  <2>1. Idle \in Tx /\ Idle.seen[v] = {}
    BY IdleType DEF Idle
  <2> QED
    BY <2>1, HavingFacts, IdleType, SeenRequest
<1> HIDE DEF seen
<1>3. ASSUME NEW name \in Name, Create(s, v, name) PROVE SeenInv'
  <2> DEFINE t == [Idle EXCEPT !.op = "create", !.pc = "flush", !.id = v,
                               !.at = v, !.cols = Column, !.work = Draft(name),
                               !.seen = seen]
  <2>1. tx' = [tx EXCEPT ![s] = t] /\ UNCHANGED rows /\ rows[v] = NoRow
    BY <1>3 DEF Create, seen
  <2>2. /\ t.pc = "flush" /\ t.op = "create" /\ t.id = v /\ t.at = v
        /\ t.work = Draft(name) /\ t.seen = seen /\ t.cols = Column
        /\ \A w \in BudgetVersion : t.held[w] = NoRow
    BY DEF Idle
  <2>3. Follows(NoRow, Draft(name)) /\ ~Active(NoRow)
    BY <1>2, MethodsFollow DEF NoRow, Active
  <2>4. Changed(NoRow, Draft(name)) \subseteq Column
    BY DEF Changed
  <2> HIDE DEF t
  <2>5. FromSeen(t) /\ WritingOrder(t) /\ Written(t)
    BY <1>2, <2>1, <2>2, <2>3, <2>4
       DEF FromSeen, WritingOrder, Written, Unwritten, Reading, Prepared, Previous
  <2> QED
    BY <2>1, <2>5, SeenMoves
<1>4. ASSUME NEW name \in Name, Update(s, v, name) PROVE SeenInv'
  <2> DEFINE w == with_draft_metadata(rows[v], name)
             t == [Idle EXCEPT !.op = "update", !.pc = "save", !.id = v,
                               !.at = v, !.work = w, !.seen = seen]
  <2>1. /\ tx' = [tx EXCEPT ![s] = t] /\ UNCHANGED rows /\ rows[v].status = "draft"
    BY <1>4 DEF Update, seen
  <2>2. Follows(rows[v], w)
    BY <1>2, <2>1, MethodsFollow
  <2> HIDE DEF w
  <2>3. /\ t.pc = "save" /\ t.op = "update" /\ t.id = v /\ t.work = w
        /\ t.seen = seen /\ \A u \in BudgetVersion : t.held[u] = NoRow
    BY DEF Idle
  <2> HIDE DEF t
  <2>4. FromSeen(t) /\ WritingOrder(t) /\ Written(t)
    BY <1>2, <2>1, <2>2, <2>3
       DEF FromSeen, WritingOrder, Written, Unwritten, Reading, Prepared, Previous
  <2> QED
    BY <2>1, <2>4, SeenMoves
<1>5. ASSUME NEW op \in TransitionOp, NEW key \in IdemKey, Transition(s, op, v, key)
      PROVE  SeenInv'
  <2> DEFINE t == [Idle EXCEPT !.op = op, !.pc = "reserve", !.id = v, !.at = v,
                               !.key = key, !.work = rows[v], !.seen = seen]
  <2>1. tx' = [tx EXCEPT ![s] = t] /\ UNCHANGED rows /\ rows[v] # NoRow
    BY <1>5 DEF Transition, seen
  <2>2. /\ t.pc = "reserve" /\ t.id = v /\ t.work = rows[v] /\ t.seen = seen
        /\ \A u \in BudgetVersion : t.held[u] = NoRow
    BY DEF Idle
  <2> HIDE DEF t
  <2>3. FromSeen(t) /\ WritingOrder(t) /\ Written(t)
    BY <1>2, <2>1, <2>2
       DEF FromSeen, WritingOrder, Written, Unwritten, Reading, Prepared, Previous
  <2> QED
    BY <2>1, <2>3, SeenMoves
<1> QED
  BY <1>1, <1>3, <1>4, <1>5

(* Saving an object that follows from a copy the request has seen.         *)
LEMMA SaveWorkSeen ==
  ASSUME TypeInv, SeenInv, NEW s \in Slot,
         tx[s].pc \notin {"idle", "done"}, NEW v \in Row,
         NEW pc \in {"flush", "done"}, SaveWork(s, v, pc),
         NEW row \in tx[s].seen[tx[s].id], Follows(row, v),
         tx[s].op = "activate" \/ (Active(row) /\ v.status = "published")
           => Active(v)
  PROVE  SeenInv'
<1> DEFINE r == tx[s]
           cols == Changed(Visible(s, r.id), v)
           seen == Having(r, r.id)
           t == [r EXCEPT !.work = v, !.at = r.id, !.pc = pc, !.cols = cols,
                          !.seen = seen]
<1>1. /\ r \in Tx /\ WritingOrder(r) /\ Written(r)
      /\ r.id \in BudgetVersion /\ rows[r.id] \in Row
  BY SeenRequest
<1>2. r.held[r.id] = NoRow
  BY <1>1 DEF WritingOrder
<1>3. cols = Changed(rows[r.id], v)
  BY <1>2 DEF Visible
<1>4. tx' = [tx EXCEPT ![s] = t] /\ UNCHANGED rows
  BY DEF SaveWork
<1>5. /\ seen[r.id] = r.seen[r.id] \cup {rows[r.id]}
      /\ \A w \in BudgetVersion \ {r.id} : seen[w] = r.seen[w]
  BY <1>1, HavingFacts
<1> HIDE DEF cols, seen
<1>6. /\ t.work = v /\ t.at = r.id /\ t.pc = pc /\ t.cols = cols /\ t.id = r.id
      /\ t.held = r.held /\ t.op = r.op /\ t.seen = seen
  BY <1>1 DEF Tx
<1> HIDE DEF t
<1>7. FromSeen(t)
  BY <1>3, <1>5, <1>6 DEF FromSeen, Unwritten, Reading, Prepared, Previous
<1>8. WritingOrder(t)
  BY <1>1, <1>2, <1>6 DEF WritingOrder, Unwritten, Prepared, Previous
<1>9. Written(t)
  BY <1>1, <1>2, <1>5, <1>6 DEF Written, Fresh
<1> QED
  BY <1>4, <1>7, <1>8, <1>9, SeenMoves

(* A request goes on to its next read.                                     *)
LEMMA ReadSeen ==
  ASSUME TypeInv, SeenInv, NEW s \in Slot,
         Reserve(s) \/ Replay(s) \/ GetActive(s) \/ Deactivate(s) \/ Rollback(s)
  PROVE  SeenInv'
<1> DEFINE r == tx[s]
<1>1. /\ r \in Tx /\ FromSeen(r) /\ WritingOrder(r) /\ Written(r)
      /\ rows \in [BudgetVersion -> Row]
      /\ r.pc # "idle" => r.id \in BudgetVersion /\ r.at \in BudgetVersion
  BY SeenRequest
<1>2. CASE Reserve(s)
  <2> DEFINE pc == IF r.op = "activate" THEN "active" ELSE "apply"
             t == [r EXCEPT !.pc = pc]
  <2>1. tx' = [tx EXCEPT ![s] = t] /\ UNCHANGED rows /\ r.pc = "reserve"
    BY <1>2 DEF Reserve
  <2>2. pc \in {"active", "apply"} /\ (pc = "active" => r.op = "activate")
    OBVIOUS
  <2> HIDE DEF pc
  <2>3. /\ t.pc = pc /\ t.op = r.op /\ t.id = r.id /\ t.work = r.work
        /\ t.held = r.held /\ t.seen = r.seen
    BY <1>1 DEF Tx
  <2> HIDE DEF t
  <2>4. FromSeen(t) /\ WritingOrder(t) /\ Written(t)
    BY <1>1, <2>1, <2>2, <2>3
       DEF FromSeen, WritingOrder, Written, Fresh, Unwritten, Reading, Prepared, Previous
  <2> QED
    BY <2>1, <2>4, SeenMoves
<1>3. CASE Replay(s) \/ Rollback(s)
  BY <1>3, IdleSeen, SeenMoves DEF Replay, Rollback
<1>4. CASE GetActive(s)
  <2>1. r.pc = "active" /\ UNCHANGED rows
    BY <1>4 DEF GetActive
  <2>2. CASE tx' = [tx EXCEPT ![s].pc = "activate"]
    <3> DEFINE t == [r EXCEPT !.pc = "activate"]
    <3>1. /\ t.pc = "activate" /\ t.op = r.op /\ t.id = r.id /\ t.work = r.work
          /\ t.held = r.held /\ t.seen = r.seen
      BY <1>1 DEF Tx
    <3>2. tx' = [tx EXCEPT ![s] = t]
      BY <2>2
    <3> HIDE DEF t
    <3>3. FromSeen(t) /\ WritingOrder(t) /\ Written(t)
      BY <1>1, <2>1, <3>1
         DEF FromSeen, WritingOrder, Written, Fresh, Unwritten, Reading, Prepared, Previous
    <3> QED
      BY <2>1, <3>2, <3>3, SeenMoves
  <2>3. ASSUME NEW w \in ActiveOthers(r.id),
               tx' = [tx EXCEPT ![s] = [@ EXCEPT !.pc = "deactivate", !.at = w,
                                                 !.other = deactivate(rows[w]),
                                                 !.seen = Having(tx[s], w)]]
        PROVE  SeenInv'
    <3> DEFINE old == deactivate(rows[w])
               seen == Having(r, w)
               t == [r EXCEPT !.pc = "deactivate", !.at = w, !.other = old, !.seen = seen]
    <3>1. /\ t.pc = "deactivate" /\ t.op = r.op /\ t.id = r.id /\ t.work = r.work
          /\ t.held = r.held /\ t.at = w /\ t.other = deactivate(rows[w])
          /\ t.seen = seen
      BY <1>1 DEF Tx
    <3>2. tx' = [tx EXCEPT ![s] = t]
      BY <2>3
    <3>3. /\ w \in BudgetVersion /\ w # r.id /\ YearOf[w] = YearOf[r.id]
          /\ Active(rows[w]) /\ r.id \in BudgetVersion
      BY <1>1, <2>1 DEF ActiveOthers
    <3>4. rows[w] \in seen[w] /\ seen[r.id] = r.seen[r.id]
      BY <1>1, <3>3, HavingFacts
    <3>5. \A v \in BudgetVersion : r.held[v] = NoRow
      BY <1>1, <2>1 DEF WritingOrder, Unwritten
    <3> HIDE DEF t, seen
    <3>6. FromSeen(t)
      BY <1>1, <2>1, <3>1, <3>3, <3>4
         DEF FromSeen, Unwritten, Reading, Prepared, Previous
    <3>7. WritingOrder(t) /\ Written(t)
      BY <1>1, <2>1, <3>1, <3>3, <3>5
         DEF WritingOrder, Written, Unwritten, Prepared, Previous
    <3> QED
      BY <2>1, <3>2, <3>6, <3>7, SeenMoves
  <2> QED
    BY <1>4, <2>2, <2>3 DEF GetActive
<1>5. CASE Deactivate(s)
  <2> DEFINE cols == Changed(rows[r.at], r.other)
             seen == Having(r, r.at)
             t == [r EXCEPT !.cols = cols, !.seen = seen, !.pc = "flush"]
  <2>1. tx' = [tx EXCEPT ![s] = t] /\ UNCHANGED rows /\ r.pc = "deactivate"
    BY <1>5 DEF Deactivate
  <2>2. /\ t.pc = "flush" /\ t.op = r.op /\ t.id = r.id /\ t.work = r.work
        /\ t.held = r.held /\ t.at = r.at /\ t.other = r.other
        /\ t.cols = Changed(rows[r.at], r.other) /\ t.seen = seen
    BY <1>1 DEF Tx
  <2>3. /\ r.at \in BudgetVersion /\ r.id \in BudgetVersion /\ r.at # r.id
        /\ YearOf[r.at] = YearOf[r.id] /\ r.op = "activate"
        /\ \A v \in BudgetVersion : r.held[v] = NoRow
    BY <1>1, <2>1 DEF WritingOrder, Unwritten, Previous
  <2>4. seen[r.at] = r.seen[r.at] \cup {rows[r.at]} /\ seen[r.id] = r.seen[r.id]
    BY <1>1, <2>3, HavingFacts
  <2> HIDE DEF t, seen
  <2>5. FromSeen(t)
    BY <1>1, <2>1, <2>2, <2>3, <2>4
       DEF FromSeen, Unwritten, Reading, Prepared, Previous
  <2>6. WritingOrder(t) /\ Written(t)
    BY <1>1, <2>1, <2>2, <2>3
       DEF WritingOrder, Written, Unwritten, Prepared, Previous
  <2> QED
    BY <2>1, <2>5, <2>6, SeenMoves
<1> QED
  BY <1>2, <1>3, <1>4, <1>5

(* The three domain methods of the transitions, and the rename.            *)
LEMMA SaveSeen ==
  ASSUME TypeInv, SeenInv, NEW s \in Slot,
         Rename(s) \/ Publish(s) \/ Archive(s) \/ Activate(s)
  PROVE  SeenInv'
<1> DEFINE r == tx[s]
<1>1. /\ r \in Tx /\ FromSeen(r) /\ WritingOrder(r) /\ r.work \in Row
      /\ r.op \in TransitionOp => Used(s) \in Scope
  BY SeenRequest DEF Tx
<1>2. CASE Rename(s)
  <2>1. r.pc = "save" /\ SaveWork(s, r.work, "flush") /\ r.op = "update"
    BY <1>1, <1>2 DEF Rename, WritingOrder
  <2>2. PICK row \in r.seen[r.id] : row.status = "draft" /\ Follows(row, r.work)
    BY <1>1, <2>1 DEF FromSeen
  <2> QED
    BY <1>1, <2>1, <2>2, SaveWorkSeen DEF Active
<1>3. CASE Publish(s)
  <2> DEFINE v == publish(r.work, Used(s))
  <2>1. /\ r.pc = "apply" /\ r.op = "publish" /\ r.work.status # "archived"
        /\ SaveWork(s, v, "done") /\ r.work \in r.seen[r.id] /\ Used(s) \in Scope
    BY <1>1, <1>3 DEF Publish, FromSeen, Reading, TransitionOp
  <2>2. v \in Row /\ Follows(r.work, v) /\ (Active(r.work) => Active(v))
    BY <1>1, <2>1, TransitionTypes, MethodsFollow
  <2> HIDE DEF v
  <2> QED
    BY <2>1, <2>2, SaveWorkSeen
<1>4. CASE Archive(s)
  <2> DEFINE v == archive(r.work, Used(s))
  <2>1. /\ r.pc = "apply" /\ r.op = "archive"
        /\ SaveWork(s, v, "done") /\ r.work \in r.seen[r.id] /\ Used(s) \in Scope
    BY <1>1, <1>4 DEF Archive, FromSeen, Reading, TransitionOp
  <2>2. v \in Row /\ Follows(r.work, v) /\ v.status = "archived"
    BY <1>1, <2>1, TransitionTypes, MethodsFollow
  <2> HIDE DEF v
  <2> QED
    BY <2>1, <2>2, SaveWorkSeen
<1>5. CASE Activate(s)
  <2> DEFINE v == activate(r.work)
  <2>1. /\ r.pc = "activate" /\ r.work.status = "published"
        /\ SaveWork(s, v, "flush") /\ r.work \in r.seen[r.id]
    BY <1>1, <1>5 DEF Activate, FromSeen, Reading
  <2>2. v \in Row /\ Follows(r.work, v) /\ Active(v)
    BY <1>1, <2>1, TransitionTypes, MethodsFollow
  <2> HIDE DEF v
  <2> QED
    BY <2>1, <2>2, SaveWorkSeen
<1> QED
  BY <1>2, <1>3, <1>4, <1>5

(* What the pending UPDATE of the request's own version leaves, if nobody  *)
(* has changed the version since it was read: the object that was saved.   *)
LEMMA OwnSaved ==
  ASSUME TypeInv, SeenInv, NEW s \in Slot, Prepared(tx[s]),
         tx[s].held[tx[s].id] = NoRow, Fresh(tx[s], tx[s].id)
  PROVE  /\ tx[s].id \in BudgetVersion /\ tx[s].at = tx[s].id
         /\ Saved(s) = tx[s].work
         /\ tx[s].cols = {} => rows[tx[s].id] = tx[s].work
<1> DEFINE r == tx[s]
<1>1. /\ r \in Tx /\ FromSeen(r) /\ WritingOrder(r) /\ r.id \in BudgetVersion
      /\ rows[r.id] \in Row /\ r.work \in Row
  BY SeenRequest DEF Prepared, Tx
<1>2. r.at = r.id
  BY <1>1 DEF Prepared, WritingOrder
<1>3. Changed(rows[r.id], r.work) \subseteq r.cols
  BY <1>1 DEF FromSeen, Fresh
<1>4. Saved(s) = Updated(rows[r.id], r.work, r.cols)
  BY <1>2 DEF Saved, Saving, Visible
<1>5. Saved(s) = r.work
  BY <1>1, <1>3, <1>4, UpdatedFacts
<1>6. r.cols = {} => rows[r.id] = r.work
  BY <1>1, <1>3, UpdatedFacts
<1> QED
  BY <1>1, <1>2, <1>5, <1>6

(* A flush writes what rests on the copies seen.                           *)
LEMMA FlushSeen ==
  ASSUME TypeInv, SeenInv, NEW s \in Slot, Flush(s)
  PROVE  SeenInv'
<1> DEFINE r == tx[s]
           held == HeldAfter(s)
           reserved == r.op \in TransitionOp
           pc == IF r.at = r.id THEN "done" ELSE "activate"
           t == [r EXCEPT !.held = held, !.cols = {}, !.reserved = reserved, !.pc = pc]
<1>1. /\ r \in Tx /\ FromSeen(r) /\ WritingOrder(r) /\ Written(r)
      /\ rows \in [BudgetVersion -> Row]
      /\ r.pc = "flush" /\ r.id \in BudgetVersion /\ r.at \in BudgetVersion
      /\ r.cols # {} => Admits(s, r.at, Saved(s))
      /\ tx' = [tx EXCEPT ![s] = t] /\ UNCHANGED rows
  BY SeenRequest DEF Flush, Flushable
<1>2. \A v \in BudgetVersion : held[v] = IF v = r.at /\ r.cols # {} THEN Saved(s)
                                                                   ELSE r.held[v]
  BY <1>1 DEF HeldAfter, Tx
<1>3. r.held[r.id] = NoRow
  BY <1>1 DEF WritingOrder
<1> HIDE DEF held
<1>4. /\ t.pc = pc /\ t.op = r.op /\ t.id = r.id /\ t.at = r.at /\ t.work = r.work
      /\ t.held = held /\ t.cols = {} /\ t.seen = r.seen
  BY <1>1 DEF Tx
<1>5. r.cols # {} => Saved(s) # NoRow
  BY <1>1 DEF Admits, NoRow
<1>6. CASE r.at = r.id
  <2>1. Prepared(r) /\ pc = "done"
    BY <1>1, <1>6 DEF Prepared
  <2>2. \A v \in BudgetVersion \ {r.id} : held[v] = r.held[v]
    BY <1>2, <1>6
  <2>3. held[r.id] = IF r.cols # {} THEN Saved(s) ELSE NoRow
    BY <1>1, <1>2, <1>3, <1>6
  <2> HIDE DEF t, pc
  <2>4. FromSeen(t)
    BY <1>1, <1>3, <1>4, <1>5, <1>6, <2>1, <2>3
       DEF FromSeen, Unwritten, Reading, Prepared, Previous
  <2>5. WritingOrder(t)
    BY <1>1, <1>4, <1>6, <2>1, <2>2 DEF WritingOrder, Unwritten, Prepared, Previous
  <2>6. Fresh(r, r.id) => Saved(s) = r.work
    BY <1>3, <2>1, OwnSaved
  <2>7. Written(t)
    BY <1>1, <1>4, <2>2, <2>3, <2>6 DEF Written, Fresh
  <2> QED
    BY <1>1, <2>4, <2>5, <2>7, SeenMoves DEF t, pc
<1>7. CASE r.at # r.id
  <2>1. /\ Previous(r) /\ pc = "activate" /\ r.op = "activate"
        /\ YearOf[r.at] = YearOf[r.id]
        /\ r.seen[r.id] = {r.work} /\ r.work # NoRow
        /\ \A v \in BudgetVersion : r.held[v] = NoRow
    BY <1>1, <1>7 DEF FromSeen, WritingOrder, Unwritten, Previous, Reading
  <2>2. Fresh(r, r.at) => Active(rows[r.at]) /\ Saved(s) = deactivate(rows[r.at])
    <3> SUFFICES ASSUME Fresh(r, r.at)
                 PROVE  Active(rows[r.at]) /\ Saved(s) = deactivate(rows[r.at])
      OBVIOUS
    <3>1. /\ Active(rows[r.at]) /\ r.other = deactivate(rows[r.at])
          /\ r.cols = Changed(rows[r.at], r.other)
      BY <1>1, <1>7, <2>1 DEF FromSeen, Fresh
    <3>2. Saved(s) = Updated(rows[r.at], r.other, r.cols)
      BY <1>1, <1>7, <2>1 DEF Saved, Saving, Visible
    <3>3. r.other \in Row /\ rows[r.at] \in Row
      BY <1>1 DEF Tx
    <3> QED
      BY <3>1, <3>2, <3>3, UpdatedFacts
  <2> HIDE DEF t, pc
  <2>3. FromSeen(t)
    BY <1>1, <1>4, <2>1 DEF FromSeen, Unwritten, Reading, Prepared, Previous
  <2>4. WritingOrder(t)
    BY <1>1, <1>2, <1>3, <1>4, <1>7, <2>1
       DEF WritingOrder, Unwritten, Prepared, Previous
  <2>5. Written(t)
    BY <1>1, <1>2, <1>4, <1>7, <2>1, <2>2 DEF Written, Fresh
  <2> QED
    BY <1>1, <2>3, <2>4, <2>5, SeenMoves DEF t, pc
<1> QED
  BY <1>6, <1>7

(* A COMMIT leaves of a version nobody has changed since the request read  *)
(* it what the request saved, or the deactivated row.                      *)
LEMMA FreshCommit ==
  ASSUME TypeInv, SeenInv, NEW s \in Slot, CommitTx(s),
         NEW v \in BudgetVersion, Fresh(tx[s], v)
  PROVE  IF v = tx[s].id
         THEN /\ rows'[v] = tx[s].work
              /\ Follows(rows[v], rows'[v])
              /\ tx[s].op = "activate" \/ (Active(rows[v]) /\ rows'[v].status = "published")
                   => Active(rows'[v])
         ELSE \/ rows'[v] = rows[v]
              \/ /\ tx[s].op = "activate" /\ YearOf[v] = YearOf[tx[s].id]
                 /\ Active(rows[v]) /\ rows'[v] = deactivate(rows[v])
<1> DEFINE r == tx[s]
<1>1. /\ FromSeen(r) /\ WritingOrder(r) /\ Written(r) /\ r.pc = "done"
      /\ rows'[v] = IF v = r.at /\ r.cols # {} THEN Saved(s) ELSE Visible(s, v)
  BY SeenRequest DEF CommitTx
<1>2. r.at = r.id /\ Prepared(r)
  BY <1>1 DEF Prepared, WritingOrder
<1>3. CASE v = r.id
  <2>1. rows'[v] = r.work
    <3>1. CASE r.held[r.id] = NoRow
      <4>1. /\ Saved(s) = r.work
            /\ r.cols = {} => rows[r.id] = r.work
        BY <1>2, <1>3, <3>1, OwnSaved
      <4> QED
        BY <1>1, <1>2, <1>3, <3>1, <4>1 DEF Visible
    <3>2. CASE r.held[r.id] # NoRow
      BY <1>1, <1>3, <3>2 DEF WritingOrder, Written, Visible
    <3> QED
      BY <3>1, <3>2
  <2>2. /\ Follows(rows[v], r.work)
        /\ r.op = "activate" \/ (Active(rows[v]) /\ r.work.status = "published")
             => Active(r.work)
    BY <1>1, <1>2, <1>3 DEF FromSeen, Fresh
  <2> QED
    BY <1>3, <2>1, <2>2
<1>4. CASE v # r.id
  BY <1>1, <1>2, <1>4 DEF WritingOrder, Written, Visible
<1> QED
  BY <1>3, <1>4

(* So every such row follows from the one before it.                       *)
LEMMA FreshFollows ==
  ASSUME TypeInv, SeenInv, NEW s \in Slot, CommitTx(s),
         NEW v \in BudgetVersion, Fresh(tx[s], v)
  PROVE  Follows(rows[v], rows'[v])
<1>1. rows[v] \in Row
  BY SeenRequest
<1>2. rows'[v] = rows[v] => Follows(rows[v], rows'[v])
  BY DEF Follows
<1>3. Active(rows[v]) /\ rows'[v] = deactivate(rows[v]) => Follows(rows[v], rows'[v])
  BY <1>1, MethodsFollow
<1> QED
  BY <1>2, <1>3, FreshCommit

(* A COMMIT leaves alone the rows another transaction holds.               *)
LEMMA HeldStays ==
  ASSUME TypeInv, DataInv, NEW s \in Slot, CommitTx(s), NEW s2 \in Slot \ {s},
         NEW v \in BudgetVersion, tx[s2].held[v] # NoRow
  PROVE  rows'[v] = rows[v]
<1>1. tx[s].held[v] = NoRow
  BY DEF DataInv, Unclashed
<1>2. rows'[v] = IF v = tx[s].at /\ tx[s].cols # {} THEN Saved(s) ELSE Visible(s, v)
  BY DEF CommitTx
<1>3. ~(v = tx[s].at /\ tx[s].cols # {})
  BY DEF CommitTx, Flushable, Admits
<1> QED
  BY <1>1, <1>2, <1>3 DEF Visible

LEMMA NextSeenInv ==
  ASSUME TypeInv, DataInv, SeenInv, [Next]_vars
  PROVE  SeenInv'
<1>1. ASSUME NEW s \in Slot, CommitTx(s) PROVE SeenInv'
  <2>1. \A s2 \in Slot : tx'[s2] = IF s2 = s THEN Idle ELSE tx[s2]
    BY <1>1 DEF CommitTx, TypeInv, TypeOK
  <2>2. \A s2 \in Slot : FromSeen(tx'[s2]) /\ WritingOrder(tx'[s2])
    BY <2>1, IdleSeen DEF SeenInv
  <2>3. \A s2 \in Slot : FromSeen(tx[s2])' /\ WritingOrder(tx[s2])'
    BY <2>2 DEF FromSeen, WritingOrder
  <2>4. ASSUME NEW s2 \in Slot PROVE Written(tx[s2])'
    <3>1. CASE s2 = s
      <4>1. \A v \in BudgetVersion : tx'[s2].held[v] = NoRow
        BY <2>1, <3>1 DEF Idle
      <4> QED
        BY <4>1 DEF Written
    <3>2. CASE s2 # s
      <4>1. tx'[s2] = tx[s2]
        BY <2>1, <3>2
      <4>2. \A v \in BudgetVersion : tx[s2].held[v] # NoRow => rows'[v] = rows[v]
        BY <1>1, <3>2, HeldStays
      <4>3. Written(tx[s2])
        BY DEF SeenInv
      <4> QED
        BY <4>1, <4>2, <4>3 DEF Written, Fresh
    <3> QED
      BY <3>1, <3>2
  <2> QED
    BY <2>3, <2>4 DEF SeenInv
<1>2. ASSUME UNCHANGED vars PROVE SeenInv'
  BY <1>2 DEF vars, SeenInv, FromSeen, WritingOrder, Written, Fresh
<1> QED
  BY <1>1, <1>2, BeginSeen, ReadSeen, SaveSeen, FlushSeen DEF Next, Continue

LEMMA InitSeenInv == Init => SeenInv
<1> SUFFICES ASSUME Init PROVE SeenInv
  OBVIOUS
<1>1. \A s \in Slot : tx[s] = Idle
  BY DEF Init
<1> QED
  BY <1>1, IdleSeen DEF SeenInv

(* What a request is about to write is one legal step from copies it has   *)
(* seen, and what it has written is that step from the committed row,      *)
(* unless another request has outdated the copy.                           *)
THEOREM SeenInvariance == Spec => [](TypeInv /\ DataInv /\ SeenInv)
<1>1. TypeInv /\ DataInv /\ SeenInv /\ [Next]_vars => (TypeInv /\ DataInv /\ SeenInv)'
  BY NextTypeInv, NextDataInv, NextSeenInv
<1>2. Init => TypeInv /\ DataInv /\ SeenInv
  BY InitTypeInv, InitDataInv, InitSeenInv
<1> QED
  BY <1>1, <1>2, PTL DEF Spec

(* A row changes by a COMMIT alone, and one whose request is not outdated  *)
(* on it follows from the row before.                                      *)
LEMMA CommitChanges ==
  ASSUME TypeInv, SeenInv, [Next]_vars, NEW v \in BudgetVersion
  PROVE  rows' # rows =>
           \E s \in Slot :
             /\ CommitTx(s)
             /\ \A w \in BudgetVersion : ~CommitsOutdated(s, w) => Fresh(tx[s], w)
<1> SUFFICES ASSUME rows' # rows
             PROVE  \E s \in Slot :
                      /\ CommitTx(s)
                      /\ \A w \in BudgetVersion : ~CommitsOutdated(s, w) => Fresh(tx[s], w)
  OBVIOUS
<1>1. PICK s \in Slot : CommitTx(s)
  BY DEF Next, vars, Begin, Continue, Create, Update, Transition, Reserve, Replay, Rename,
         Publish, Archive, GetActive, Deactivate, Activate, Flush, SaveWork, Rollback
<1>2. tx[s].pc = "done" /\ tx'[s].pc = "idle"
  <2>1. tx'[s] = Idle
    BY <1>1 DEF CommitTx, TypeInv, TypeOK
  <2> QED
    BY <1>1, <2>1 DEF CommitTx, Idle
<1>3. \A w \in BudgetVersion : ~CommitsOutdated(s, w) => Fresh(tx[s], w)
  BY <1>2 DEF CommitsOutdated, Fresh
<1> QED
  BY <1>1, <1>3

LEMMA RowsFollow ==
  ASSUME TypeInv, SeenInv, [Next]_vars, NEW v \in BudgetVersion
  PROVE  Follows(rows[v], rows'[v]) \/ \E s \in Slot : CommitsOutdated(s, v)
<1>1. rows' = rows => Follows(rows[v], rows'[v])
  BY DEF Follows
<1> QED
  BY <1>1, CommitChanges, FreshFollows

(* However requests overlap and fail, a version that is active though not  *)
(* published is the work of a request with an outdated copy: activate      *)
(* looks at the status several steps before it writes is_active, and       *)
(* archive clears it.                                                      *)
THEOREM StrayActivations == Spec => StrayActivationNeedsStaleCopy
<1> DEFINE Stray == \A v \in BudgetVersion :
                      /\ rows[v].is_active => rows[v].status = "published"
                      /\ rows'[v].is_active /\ rows'[v].status # "published"
                      => \E s \in Slot : CommitsOutdated(s, v)
<1>1. TypeInv /\ DataInv /\ SeenInv /\ [Next]_vars => Stray
  BY RowsFollow DEF Follows
<1> HIDE DEF Stray
<1>2. Spec => [][Stray]_vars
  BY <1>1, SeenInvariance, PTL DEF Spec
<1> QED
  BY <1>2, PTL DEF Stray, StrayActivationNeedsStaleCopy

(* However requests overlap and fail, a version once published returns to  *)
(* draft or changes its name only under a request with an outdated copy.   *)
THEOREM Reopenings == Spec => ReopeningNeedsStaleCopy
<1> DEFINE Reopens == \A v \in BudgetVersion :
                        /\ rows[v].status \in {"published", "archived"}
                        /\ rows'[v].status = "draft" \/ rows'[v].name # rows[v].name
                        => \E s \in Slot : CommitsOutdated(s, v)
<1>1. TypeInv /\ DataInv /\ SeenInv /\ [Next]_vars => Reopens
  BY RowsFollow DEF Follows
<1> HIDE DEF Reopens
<1>2. Spec => [][Reopens]_vars
  BY <1>1, SeenInvariance, PTL DEF Spec
<1> QED
  BY <1>2, PTL DEF Reopens, ReopeningNeedsStaleCopy

(* However requests overlap and fail, a change that does not advance the   *)
(* counter by one is that of a request with an outdated copy; the          *)
(* deactivation by another version's activation counts too.                *)
THEOREM Miscounts == Spec => MiscountNeedsStaleCopy
<1> DEFINE Repeats == \A v \in BudgetVersion :
                           /\ rows[v] # NoRow /\ rows'[v] # rows[v]
                           /\ rows'[v].version # rows[v].version + 1
                           => \E s \in Slot : CommitsOutdated(s, v)
<1>1. TypeInv /\ DataInv /\ SeenInv /\ [Next]_vars => Repeats
  BY RowsFollow DEF Follows
<1> HIDE DEF Repeats
<1>2. Spec => [][Repeats]_vars
  BY <1>1, SeenInvariance, PTL DEF Spec
<1> QED
  BY <1>2, PTL DEF Repeats, MiscountNeedsStaleCopy

(* However requests overlap and fail, a year whose active version stays    *)
(* published is left without an active version only by a request with an   *)
(* outdated copy of one of its versions: an activation that fails half way *)
(* leaves the old one in place.                                            *)
THEOREM ActiveLosses == Spec => ActiveLossNeedsStaleCopy
<1> DEFINE Loses == \A v \in BudgetVersion :
                      /\ Active(rows[v]) /\ rows'[v].status = "published"
                      /\ \A w \in BudgetVersion : YearOf[w] = YearOf[v] => ~Active(rows'[w])
                      => \E s \in Slot, w \in BudgetVersion :
                           YearOf[w] = YearOf[v] /\ CommitsOutdated(s, w)
<1>1. ASSUME TypeInv, SeenInv, [Next]_vars, NEW v \in BudgetVersion,
             Active(rows[v]), rows'[v].status = "published",
             \A w \in BudgetVersion : YearOf[w] = YearOf[v] => ~Active(rows'[w])
      PROVE  \E s \in Slot, w \in BudgetVersion :
               YearOf[w] = YearOf[v] /\ CommitsOutdated(s, w)
  <2>1. ~Active(rows'[v]) /\ rows' # rows
    BY <1>1
  <2>2. PICK s \in Slot :
          /\ CommitTx(s)
          /\ \A w \in BudgetVersion : ~CommitsOutdated(s, w) => Fresh(tx[s], w)
    BY <1>1, <2>1, CommitChanges
  <2> SUFFICES ASSUME \A w \in BudgetVersion :
                        YearOf[w] = YearOf[v] => ~CommitsOutdated(s, w)
               PROVE  FALSE
    BY <2>2
  <2>3. \A w \in BudgetVersion : YearOf[w] = YearOf[v] => Fresh(tx[s], w)
    BY <2>2
  <2>4. v # tx[s].id
    BY <1>1, <2>1, <2>2, <2>3, FreshCommit
  <2>5. tx[s].op = "activate" /\ YearOf[tx[s].id] = YearOf[v]
    BY <1>1, <2>1, <2>2, <2>3, <2>4, FreshCommit
  <2>6. tx[s].id \in BudgetVersion
    BY <1>1, <2>2, SeenRequest DEF CommitTx
  <2>7. Active(rows'[tx[s].id])
    BY <1>1, <2>2, <2>3, <2>5, <2>6, FreshCommit
  <2> QED
    BY <1>1, <2>5, <2>6, <2>7
<1>2. TypeInv /\ DataInv /\ SeenInv /\ [Next]_vars => Loses
  BY <1>1
<1> HIDE DEF Loses
<1>3. Spec => [][Loses]_vars
  BY <1>2, SeenInvariance, PTL DEF Spec
<1> QED
  BY <1>3, PTL DEF Loses, ActiveLossNeedsStaleCopy

-----------------------------------------------------------------------------
(* One thread                                                              *)

(* Nobody commits between a request's reads and its own COMMIT.            *)
LEMMA NextAllFresh ==
  ASSUME OneThread, TypeInv, AllFresh, [Next]_vars
  PROVE  AllFresh'
<1>1. ASSUME NEW s \in Slot, CommitTx(s) \/ Rollback(s) \/ Replay(s) PROVE AllFresh'
  <2>1. \A s2 \in Slot : tx'[s2] = Idle
    BY <1>1 DEF CommitTx, Rollback, Replay, TypeInv, TypeOK, OneThread
  <2>2. \A v \in BudgetVersion : Idle.seen[v] = {}
    BY DEF Idle
  <2> QED
    BY <2>1, <2>2 DEF AllFresh, Fresh
<1>2. ASSUME NEW s \in Slot, NEW r \in {tx[s], Idle}, UNCHANGED rows,
             \/ tx'[s].seen = r.seen
             \/ \E v \in BudgetVersion : tx'[s].seen = Having(r, v)
      PROVE  AllFresh'
  <2>1. r \in Tx /\ \A v \in BudgetVersion : Fresh(r, v)
    <3>1. \A v \in BudgetVersion : Idle.seen[v] = {}
      BY DEF Idle
    <3> QED
      BY <3>1, IdleType DEF AllFresh, Fresh, TypeInv, TypeOK
  <2>2. \A v \in BudgetVersion : tx'[s].seen[v] \subseteq {rows[v]}
    BY <1>2, <2>1, HavingFacts DEF Fresh
  <2>3. \A s2 \in Slot : s2 = s
    BY DEF OneThread
  <2> QED
    BY <1>2, <2>2, <2>3 DEF AllFresh, Fresh
<1>3. ASSUME NEW s \in Slot, Begin(s) PROVE AllFresh'
  <2>1. PICK v \in BudgetVersion :
          \/ \E name \in Name : Create(s, v, name) \/ Update(s, v, name)
          \/ \E op \in TransitionOp, key \in IdemKey : Transition(s, op, v, key)
    BY <1>3 DEF Begin
  <2>2. tx'[s].seen = Having(Idle, v) /\ UNCHANGED rows
    BY <2>1 DEF Create, Update, Transition, TypeInv, TypeOK, Idle
  <2> QED
    BY <1>2, <2>2
<1>4. ASSUME NEW s \in Slot, Reserve(s) \/ Flush(s) PROVE AllFresh'
  <2>1. tx'[s].seen = tx[s].seen /\ UNCHANGED rows
    BY <1>4 DEF Reserve, Flush, TypeInv, TypeOK, Tx
  <2> QED
    BY <1>2, <2>1
<1>5. ASSUME NEW s \in Slot, Rename(s) \/ Publish(s) \/ Archive(s) \/ Activate(s)
      PROVE  AllFresh'
  <2>1. /\ tx'[s].seen = Having(tx[s], tx[s].id) /\ UNCHANGED rows
        /\ tx[s].id \in BudgetVersion
    BY <1>5 DEF Rename, Publish, Archive, Activate, SaveWork, TypeInv, TypeOK,
                RequestShape, Tx
  <2> QED
    BY <1>2, <2>1
<1>6. ASSUME NEW s \in Slot, Deactivate(s) PROVE AllFresh'
  <2>1. /\ tx'[s].seen = Having(tx[s], tx[s].at) /\ UNCHANGED rows
        /\ tx[s].at \in BudgetVersion
    BY <1>6 DEF Deactivate, TypeInv, TypeOK, RequestShape, Tx
  <2> QED
    BY <1>2, <2>1
<1>7. ASSUME NEW s \in Slot, GetActive(s) PROVE AllFresh'
  <2>1. UNCHANGED rows /\ tx[s] \in Tx
    BY <1>7 DEF GetActive, TypeInv, TypeOK
  <2>2. \/ tx'[s].seen = tx[s].seen
        \/ \E w \in BudgetVersion : tx'[s].seen = Having(tx[s], w)
    <3>1. CASE tx' = [tx EXCEPT ![s].pc = "activate"]
      BY <2>1, <3>1 DEF TypeInv, TypeOK, Tx
    <3>2. ASSUME NEW w \in ActiveOthers(tx[s].id),
                 tx' = [tx EXCEPT ![s] = [@ EXCEPT !.pc = "deactivate", !.at = w,
                                                   !.other = deactivate(rows[w]),
                                                   !.seen = Having(tx[s], w)]]
          PROVE  \E u \in BudgetVersion : tx'[s].seen = Having(tx[s], u)
      <4>1. w \in BudgetVersion
        BY DEF ActiveOthers
      <4>2. tx'[s].seen = Having(tx[s], w)
        BY <2>1, <3>2 DEF TypeInv, TypeOK, Tx
      <4> QED
        BY <4>1, <4>2
    <3> QED
      BY <1>7, <3>1, <3>2 DEF GetActive
  <2> QED
    BY <1>2, <2>1, <2>2
<1>8. ASSUME UNCHANGED vars PROVE AllFresh'
  BY <1>8 DEF vars, AllFresh, Fresh
<1> QED
  BY <1>1, <1>3, <1>4, <1>5, <1>6, <1>7, <1>8 DEF Next, Continue

(* While one thread serves, the promises hold outright: only published     *)
(* versions are active, what is published stays closed, every change       *)
(* counts.                                                                 *)
THEOREM AloneLifeCycle ==
  ASSUME OneThread
  PROVE  Spec => []ActiveIsPublished /\ PublishedStaysClosed /\ VersionCounts
<1> DEFINE Inv == TypeInv /\ DataInv /\ SeenInv /\ AllFresh /\ ActiveIsPublished
           Closed == \A v \in BudgetVersion :
                       rows[v].status \in {"published", "archived"}
                         => /\ rows'[v].status # "draft"
                            /\ rows'[v].name = rows[v].name
           Counts == \A v \in BudgetVersion :
                       rows[v] # NoRow /\ rows'[v] # rows[v]
                         => rows'[v].version = rows[v].version + 1
<1>1. ASSUME TypeInv, SeenInv, AllFresh, [Next]_vars, NEW v \in BudgetVersion
      PROVE  Follows(rows[v], rows'[v])
  BY <1>1, RowsFollow DEF CommitsOutdated, AllFresh, Fresh
<1>2. Inv /\ [Next]_vars => Inv' /\ Closed /\ Counts
  <2> SUFFICES ASSUME Inv, [Next]_vars PROVE Inv' /\ Closed /\ Counts
    OBVIOUS
  <2>1. (TypeInv /\ DataInv /\ SeenInv /\ AllFresh)'
    BY NextTypeInv, NextDataInv, NextSeenInv, NextAllFresh
  <2>2. ActiveIsPublished' /\ Closed /\ Counts
    BY <1>1 DEF ActiveIsPublished, Follows
  <2> QED
    BY <2>1, <2>2
<1>3. Init => Inv
  <2>1. Init => AllFresh
    <3>1. \A v \in BudgetVersion : Idle.seen[v] = {}
      BY DEF Idle
    <3> QED
      BY <3>1 DEF Init, AllFresh, Fresh
  <2>2. Init => ActiveIsPublished
    BY DEF Init, ActiveIsPublished, NoRow
  <2> QED
    BY <2>1, <2>2, InitTypeInv, InitDataInv, InitSeenInv
<1>4. Inv => ActiveIsPublished
  OBVIOUS
<1> HIDE DEF Inv, Closed, Counts
<1>5. Spec => []ActiveIsPublished /\ [][Closed]_vars /\ [][Counts]_vars
  BY <1>2, <1>3, <1>4, PTL DEF Spec
<1> QED
  BY <1>5, PTL DEF Closed, Counts, PublishedStaysClosed, VersionCounts
=============================================================================

--------------------------- MODULE ImportJobsProofs ---------------------------
(***************************************************************************)
(* Proofs about ImportJobs for every set of jobs, slots, keys, object      *)
(* keys, contents, mappings and versions. The invariant IInv is proved in  *)
(* two parts: TypeInv (the type of the variables and the shape of a        *)
(* request at each of its steps) and DataInv (the rest of IInv, which      *)
(* assumes the first). TxStep and SlotStep reduce a step of one slot to    *)
(* facts about the record it leaves in tx; CommitTx and SweepCommit, the   *)
(* only steps that write committed rows, have lemmas of their own.         *)
(***************************************************************************)
EXTENDS ImportJobsInvariant, TLAPS

(* What an UPDATE leaves is a row.                                         *)
LEMMA UpdatedType ==
  ASSUME NEW row \in Row, NEW job \in Row, NEW cols
  PROVE  Updated(row, job, cols) \in Row
BY DEF Row, Updated

(* The methods of the domain object return rows.                           *)
LEMMA RowTypes ==
  ASSUME NEW job \in Row
  PROVE  /\ NoRow \in Row
         /\ mark_processing(job) \in Row
         /\ mark_applied(job) \in Row
         /\ mark_timed_out(job) \in Row
         /\ clear_object_key(job) \in Row
         /\ cancelled(job) \in Row
         /\ \A key \in ObjectKey : mark_uploaded(job, key) \in Row
         /\ \A fp \in Fingerprint, outcome \in {"ready", "invalid"} :
              mark_validated(job, outcome, fp) \in Row
BY DEF Row, NoRow, ImportJobStatus, mark_processing, mark_applied,
       mark_timed_out, clear_object_key, cancelled, mark_uploaded,
       mark_validated

(* `save' marks columns of the row only.                                   *)
LEMMA ChangedType ==
  ASSUME NEW row, NEW job
  PROVE  Changed(row, job) \in SUBSET Column
BY DEF Changed

(* A slot without a request has a record of the right shape.               *)
LEMMA IdleType == Idle \in Tx
BY DEF Idle, Tx, Op, Pc, NoRow, Row, ImportJobStatus

(* So has a sweep that is not running.                                     *)
LEMMA NoSweepType == NoSweep \in SweepState
BY DEF NoSweep, SweepState, NoRow, Row, ImportJobStatus

TypeInv == TypeOK /\ RequestShape

(* The initial state is well typed.                                        *)
LEMMA InitTypeInv == Init => TypeInv
<1> SUFFICES ASSUME Init PROVE TypeInv
  OBVIOUS
<1>1. TypeOK
  BY IdleType, NoSweepType DEF Init, TypeOK, NoRow, Row, ImportJobStatus
<1>2. RequestShape
  BY DEF Init, RequestShape, Idle
<1> QED
  BY <1>1, <1>2 DEF TypeInv

(* A step of slot s that replaces its record keeps the others.             *)
LEMMA TxStep ==
  ASSUME TypeOK, RequestShape, NEW s \in Slot, NEW t \in Tx,
         tx' = [tx EXCEPT ![s] = t],
         t.pc = "idle" => t = Idle,
         t.pc # "idle" => t.job \in Job,
         t.op = "commit" => t.key \in IdemKey,
         t.reserved <=> t.op = "commit" /\ t.pc # "reserve",
         t.adds => t.op = "commit" /\ t.pc = "done",
         t.pc = "reserve" => t.op = "commit",
         t.pc \in {"flush", "load"} => t.op \in {"validate", "commit"},
         t.pc = "apply" => t.op = "commit",
         t.pc = "write" => t.op = "validate",
         t.pc = "put" => t.work.object_key # None
  PROVE  tx' \in [Slot -> Tx] /\ RequestShape'
BY DEF TypeOK, RequestShape

(* Starting a request keeps types and shapes.                              *)
LEMMA BeginType ==
  ASSUME TypeInv, NEW s \in Slot, Begin(s)
  PROVE  TypeInv'
<1> USE DEF TypeInv
<1>1. PICK j \in Job : \/ Create(s, j) \/ Upload(s, j) \/ Validate(s, j)
                       \/ Cancel(s, j) \/ \E k \in IdemKey : Commit(s, j, k)
  BY DEF Begin
<1>2. jobs[j] \in Row
  BY DEF TypeOK
<1>3. CASE Create(s, j)
  <2> DEFINE t == [Idle EXCEPT !.op = "create", !.pc = "done", !.job = j,
                               !.cols = Column, !.work.status = "created"]
  <2>1. /\ [Idle.work EXCEPT !.status = "created"] \in Row
        /\ Idle \in Tx
    BY IdleType DEF Idle, NoRow, Row, ImportJobStatus
  <2>2. t \in Tx
    BY <2>1 DEF Tx, Op, Pc
  <2>3. tx' = [tx EXCEPT ![s] = t]
    BY <1>3 DEF Create
  <2>4. tx' \in [Slot -> Tx] /\ RequestShape'
    BY <2>2, <2>3, TxStep DEF Idle
  <2> QED
    BY <2>4, <1>3 DEF Create, TypeOK
<1>4. CASE Upload(s, j)
  <2> PICK key \in ObjectKey :
        tx' = [tx EXCEPT ![s] =
                 [Idle EXCEPT !.op = "upload", !.pc = "put", !.job = j,
                              !.work = mark_uploaded(jobs[j], key)]]
    BY <1>4 DEF Upload
  <2> DEFINE t == [Idle EXCEPT !.op = "upload", !.pc = "put", !.job = j,
                               !.work = mark_uploaded(jobs[j], key)]
  <2>1. t \in Tx
    BY <1>2, RowTypes, IdleType DEF Tx, Op, Pc, Idle
  <2>2. mark_uploaded(jobs[j], key).object_key # None
    BY <1>2, ConstantsAssumption DEF mark_uploaded, Row
  <2>3. tx' \in [Slot -> Tx] /\ RequestShape'
    BY <2>1, <2>2, TxStep DEF Idle
  <2> QED
    BY <2>3, <1>4 DEF Upload, TypeOK
<1>5. CASE Validate(s, j)
  <2> DEFINE t == [Idle EXCEPT !.op = "validate", !.pc = "save", !.job = j,
                               !.seen = jobs[j],
                               !.work = mark_processing(jobs[j])]
  <2>1. t \in Tx
    BY <1>2, RowTypes, IdleType DEF Tx, Op, Pc, Idle
  <2>3. tx' \in [Slot -> Tx] /\ RequestShape'
    BY <2>1, <1>5, TxStep DEF Idle, Validate
  <2> QED
    BY <2>3, <1>5 DEF Validate, TypeOK
<1>6. CASE Cancel(s, j)
  <2> DEFINE t == [Idle EXCEPT !.op = "cancel", !.pc = "save", !.job = j,
                               !.work = cancelled(jobs[j])]
  <2>1. t \in Tx
    BY <1>2, RowTypes, IdleType DEF Tx, Op, Pc, Idle
  <2>3. tx' \in [Slot -> Tx] /\ RequestShape'
    BY <2>1, <1>6, TxStep DEF Idle, Cancel
  <2> QED
    BY <2>3, <1>6 DEF Cancel, TypeOK
<1>7. CASE \E k \in IdemKey : Commit(s, j, k)
  <2> PICK k \in IdemKey : Commit(s, j, k)
    BY <1>7
  <2> DEFINE t == [Idle EXCEPT !.op = "commit", !.pc = "reserve", !.job = j,
                               !.key = k, !.seen = jobs[j]]
  <2>1. t \in Tx
    BY <1>2, IdleType DEF Tx, Op, Pc, Idle
  <2>3. tx' \in [Slot -> Tx] /\ RequestShape'
    BY <2>1, TxStep DEF Idle, Commit
  <2> QED
    BY <2>3 DEF Commit, TypeOK
<1> QED
  BY <1>1, <1>3, <1>4, <1>5, <1>6, <1>7

(* So does each further step of it.                                        *)
LEMMA ContinueType ==
  ASSUME TypeInv, NEW s \in Slot, Continue(s)
  PROVE  TypeInv'
<1> USE DEF TypeInv
<1>1. tx[s] \in Tx /\ tx[s].seen \in Row /\ tx[s].work \in Row
      /\ tx[s].held \in Row
  BY DEF TypeOK, Tx
<1>2. tx[s].pc # "idle" => tx[s].job \in Job /\ jobs[tx[s].job] \in Row
  BY DEF TypeOK, RequestShape
<1>3. CASE PutObject(s)
  <2> DEFINE t == [tx[s] EXCEPT !.pc = "save"]
  <2>1. t \in Tx
    BY <1>1 DEF Tx, Pc
  <2>2. tx' = [tx EXCEPT ![s] = t] /\ tx[s].pc = "put"
    BY <1>3 DEF PutObject, Goto
  <2>3. tx' \in [Slot -> Tx] /\ RequestShape'
    BY <2>1, <2>2, <1>1, <1>2, TxStep DEF RequestShape, Tx
  <2>4. tx[s].work.object_key \in ObjectKey
    BY <2>2, <1>1 DEF Row, RequestShape
  <2> QED
    BY <2>3, <2>4, <1>3 DEF PutObject, TypeOK
<1>4. CASE Reserve(s)
  <2> DEFINE t == [tx[s] EXCEPT !.pc = "save", !.reserved = TRUE,
                                !.work = mark_processing(tx[s].seen),
                                !.seen = NoRow]
  <2>1. t \in Tx
    BY <1>1, RowTypes DEF Tx, Pc
  <2>2. tx' = [tx EXCEPT ![s] = t] /\ tx[s].pc = "reserve"
    BY <1>4 DEF Reserve, Reserved
  <2>3. tx' \in [Slot -> Tx] /\ RequestShape'
    BY <2>1, <2>2, <1>1, <1>2, TxStep DEF RequestShape, Tx
  <2> QED
    BY <2>3, <1>4 DEF Reserve, TypeOK
<1>5. CASE Replay(s)
  <2>1. tx' = [tx EXCEPT ![s] = Idle]
    BY <1>5 DEF Replay
  <2>2. tx' \in [Slot -> Tx] /\ RequestShape'
    BY <2>1, IdleType, TxStep DEF Idle
  <2> QED
    BY <2>2, <1>5 DEF Replay, TypeOK
<1>6. CASE Save(s)
  <2> DEFINE c == Changed(Visible(s), tx[s].work)
             t == [tx[s] EXCEPT !.cols = c,
                    !.pc = IF tx[s].op \in {"validate", "commit"}
                           THEN "flush" ELSE "done"]
  <2>1. c \in SUBSET Column
    BY ChangedType
  <2>2. t \in Tx
    BY <1>1, <2>1 DEF Tx, Pc
  <2>3. tx' = [tx EXCEPT ![s] = t] /\ tx[s].pc = "save"
    BY <1>6 DEF Save
  <2>4. tx' \in [Slot -> Tx] /\ RequestShape'
    BY <2>2, <2>3, <1>1, <1>2, TxStep DEF RequestShape, Tx
  <2> QED
    BY <2>4, <1>6 DEF Save, TypeOK
<1>7. CASE Flush(s)
  <2> DEFINE r == Updated(jobs[tx[s].job], tx[s].work, tx[s].cols)
             t == [tx[s] EXCEPT !.held = r, !.cols = {},
                    !.pc = IF tx[s].op = "validate" THEN "load" ELSE "match"]
  <2>1. tx[s].pc = "flush" /\ tx' = [tx EXCEPT ![s] = t]
    BY <1>7 DEF Flush
  <2>2. r \in Row
    BY <1>1, <1>2, <2>1, UpdatedType
  <2>3. t \in Tx
    BY <1>1, <2>2 DEF Tx, Pc
  <2>4. tx' \in [Slot -> Tx] /\ RequestShape'
    BY <2>1, <2>3, <1>1, <1>2, TxStep DEF RequestShape, Tx
  <2> QED
    BY <2>4, <1>7 DEF Flush, TypeOK
<1>8. CASE LoadTable(s)
  <2> DEFINE t == [tx[s] EXCEPT
                    !.pc = IF tx[s].op = "validate" THEN "match" ELSE "apply"]
  <2>1. t \in Tx
    BY <1>1 DEF Tx, Pc
  <2>2. tx' = [tx EXCEPT ![s] = t] /\ tx[s].pc = "load"
    BY <1>8 DEF LoadTable, Goto
  <2>3. tx' \in [Slot -> Tx] /\ RequestShape'
    BY <2>1, <2>2, <1>1, <1>2, TxStep DEF RequestShape, Tx
  <2> QED
    BY <2>3, <1>8 DEF LoadTable, TypeOK
<1>9. CASE ReturnExisting(s)
  <2> DEFINE c == Changed(tx[s].held, tx[s].seen)
             t == [tx[s] EXCEPT !.work = tx[s].seen, !.pc = "done",
                                !.seen = NoRow, !.cols = c]
  <2>1. c \in SUBSET Column
    BY ChangedType
  <2>2. t \in Tx
    BY <1>1, <2>1, RowTypes DEF Tx, Pc
  <2>3. tx' = [tx EXCEPT ![s] = t] /\ tx[s].pc = "match" /\ tx[s].op = "validate"
    BY <1>9 DEF ReturnExisting
  <2>4. tx' \in [Slot -> Tx] /\ RequestShape'
    BY <2>2, <2>3, <1>1, <1>2, TxStep DEF RequestShape, Tx
  <2> QED
    BY <2>4, <1>9 DEF ReturnExisting, TypeOK
<1>10. CASE CheckRows(s)
  <2>1. PICK m \in Mapping, outcome \in {"ready", "invalid"} :
          tx' = [tx EXCEPT ![s] =
                  [@ EXCEPT !.pc = "write", !.seen = NoRow,
                     !.work = mark_validated(tx[s].work, outcome,
                                <<ContentOf[tx[s].job], m>>)]]
    BY <1>10 DEF CheckRows
  <2> DEFINE fp == <<ContentOf[tx[s].job], m>>
             w == mark_validated(tx[s].work, outcome, fp)
             t == [tx[s] EXCEPT !.pc = "write", !.seen = NoRow, !.work = w]
  <2>2. tx[s].pc = "match" /\ tx[s].op = "validate"
    BY <1>10 DEF CheckRows
  <2>3. fp \in Fingerprint
    BY <1>2, <2>2, ConstantsAssumption DEF Fingerprint
  <2>4. w \in Row
    BY <1>1, <2>3, RowTypes
  <2>5. t \in Tx
    BY <1>1, <2>4, RowTypes DEF Tx, Pc
  <2>6. tx' = [tx EXCEPT ![s] = t]
    BY <2>1
  <2>7. tx' \in [Slot -> Tx] /\ RequestShape'
    BY <2>2, <2>5, <2>6, <1>1, <1>2, TxStep DEF RequestShape, Tx
  <2> QED
    BY <2>7, <1>10 DEF CheckRows, TypeOK
<1>11. CASE WriteValidated(s)
  <2> DEFINE t == [tx[s] EXCEPT !.held = tx[s].work, !.pc = "done"]
  <2>1. t \in Tx
    BY <1>1 DEF Tx, Pc
  <2>2. tx' = [tx EXCEPT ![s] = t] /\ tx[s].pc = "write"
    BY <1>11 DEF WriteValidated
  <2>3. tx' \in [Slot -> Tx] /\ RequestShape'
    BY <2>1, <2>2, <1>1, <1>2, TxStep DEF RequestShape, Tx
  <2> QED
    BY <2>3, <1>11 DEF WriteValidated, TypeOK
<1>12. CASE MatchNone(s)
  <2> DEFINE t == [tx[s] EXCEPT !.pc = "load"]
  <2>1. t \in Tx
    BY <1>1 DEF Tx, Pc
  <2>2. tx' = [tx EXCEPT ![s] = t] /\ tx[s].pc = "match" /\ tx[s].op = "commit"
    BY <1>12 DEF MatchNone, Goto
  <2>3. tx' \in [Slot -> Tx] /\ RequestShape'
    BY <2>1, <2>2, <1>1, <1>2, TxStep DEF RequestShape, Tx
  <2> QED
    BY <2>3, <1>12 DEF MatchNone, TypeOK
<1>13. CASE MatchApplied(s)
  <2> DEFINE t == [tx[s] EXCEPT !.pc = "done"]
  <2>1. t \in Tx
    BY <1>1 DEF Tx, Pc
  <2>2. tx' = [tx EXCEPT ![s] = t] /\ tx[s].pc = "match"
    BY <1>13 DEF MatchApplied, Goto
  <2>3. tx' \in [Slot -> Tx] /\ RequestShape'
    BY <2>1, <2>2, <1>1, <1>2, TxStep DEF RequestShape, Tx
  <2> QED
    BY <2>3, <1>13 DEF MatchApplied, TypeOK
<1>14. CASE Apply(s)
  <2> DEFINE w == mark_applied(tx[s].work)
             c == Changed(tx[s].held, w)
             t == [tx[s] EXCEPT !.work = w, !.adds = TRUE, !.cols = c,
                                !.pc = "done"]
  <2>1. c \in SUBSET Column /\ w \in Row
    BY <1>1, ChangedType, RowTypes
  <2>2. t \in Tx
    BY <1>1, <2>1 DEF Tx, Pc
  <2>3. tx' = [tx EXCEPT ![s] = t] /\ tx[s].pc = "apply"
    BY <1>14 DEF Apply
  <2>4. tx' \in [Slot -> Tx] /\ RequestShape'
    BY <2>2, <2>3, <1>1, <1>2, TxStep DEF RequestShape, Tx
  <2> QED
    BY <2>4, <1>14 DEF Apply, TypeOK
<1>15. CASE CommitTx(s)
  <2> DEFINE row == Updated(Visible(s), tx[s].work, tx[s].cols)
  <2>1. tx' = [tx EXCEPT ![s] = Idle] /\ tx[s].pc = "done"
    BY <1>15 DEF CommitTx
  <2>2. tx' \in [Slot -> Tx] /\ RequestShape'
    BY <2>1, IdleType, TxStep DEF Idle
  <2>3. tx[s].job \in Job /\ jobs[tx[s].job] \in Row
    BY <1>2, <2>1
  <2>4. row \in Row
    BY <1>1, <2>3, UpdatedType DEF Visible
  <2>5. jobs' = jobs \/ jobs' = [jobs EXCEPT ![tx[s].job] = row]
    BY <1>15 DEF CommitTx
  <2>6. jobs' \in [Job -> Row]
    BY <2>3, <2>4, <2>5 DEF TypeOK
  <2>7. idem' \in [IdemKey -> Job \cup {None}]
    BY <1>15, <2>3 DEF CommitTx, TypeOK
  <2>8. entries' \in [Job -> [IdemKey -> Nat]]
    <3> DEFINE j == tx[s].job
               k == tx[s].key
    <3>1. \/ entries[j] \in [IdemKey -> Nat] /\ entries[j][k] + 1 \in Nat
          \/ entries' = entries
      BY <1>15, <2>3 DEF CommitTx, TypeOK, RequestShape
    <3>2. \/ entries' = entries
          \/ entries' = [entries EXCEPT ![j] = [entries[j] EXCEPT ![k] = @ + 1]]
      BY <1>15 DEF CommitTx
    <3> QED
      BY <2>3, <3>1, <3>2 DEF TypeOK
  <2> QED
    BY <2>2, <2>6, <2>7, <2>8, <1>15 DEF CommitTx, TypeOK
<1> QED
  BY <1>3, <1>4, <1>5, <1>6, <1>7, <1>8, <1>9, <1>10, <1>11, <1>12, <1>13,
     <1>14, <1>15 DEF Continue

(* So does each step of a sweep.                                           *)
LEMMA SweepType ==
  ASSUME TypeInv, Sweep
  PROVE  TypeInv'
<1> USE DEF TypeInv
<1>1. sweep \in SweepState /\ jobs \in [Job -> Row]
  BY DEF TypeOK
<1>2. \A j \in Job : Swept(j) \in Row
  <2> SUFFICES ASSUME NEW j \in Job PROVE Swept(j) \in Row
    OBVIOUS
  <2>1. sweep.seen[j] \in Row
    BY <1>1 DEF SweepState
  <2> QED
    BY <2>1, RowTypes DEF Swept
<1>3. ASSUME NEW kind \in {"purge", "timeout"}, NEW S \in SUBSET Job,
             StartSweep(kind, S)
      PROVE  TypeInv'
  <2> DEFINE seen == [j \in Job |-> IF j \in S THEN jobs[j] ELSE NoRow]
  <2>1. seen \in [Job -> Row]
    BY <1>1, NoRow \in Row, RowTypes DEF NoRow, Row, ImportJobStatus
  <2>2. sweep' = [NoSweep EXCEPT !.kind = kind, !.todo = S, !.seen = seen]
    BY <1>3 DEF StartSweep
  <2>3. sweep' \in SweepState
    BY <2>1, <2>2, NoSweepType DEF SweepState, NoSweep
  <2> QED
    BY <2>3, <1>3 DEF StartSweep, TypeOK, RequestShape
<1>4. CASE ListStale
  BY <1>3, <1>4 DEF ListStale, StaleProcessing
<1>5. CASE ListExpired
  BY <1>3, <1>5 DEF ListExpired, ExpiredOriginals
<1>6. ASSUME NEW j \in Job, SweepJob(j)
      PROVE  TypeInv'
  <2> DEFINE c == Changed(jobs[j], Swept(j))
  <2>1. c \in SUBSET Column
    BY ChangedType
  <2>2. sweep' = [sweep EXCEPT !.todo = @ \ {j}, !.saved = @ \cup {j},
                               !.cols[j] = c]
    BY <1>6 DEF SweepJob
  <2>3. sweep' \in SweepState
    BY <1>1, <2>1, <2>2 DEF SweepState
  <2>4. objects' \in SUBSET ObjectKey
    BY <1>6 DEF SweepJob, TypeOK
  <2> QED
    BY <2>3, <2>4, <1>6 DEF SweepJob, TypeOK, RequestShape
<1>7. CASE SweepCommit
  <2> DEFINE swept == [j \in Job |->
                        IF j \in sweep.saved
                        THEN Updated(jobs[j], Swept(j), sweep.cols[j])
                        ELSE jobs[j]]
  <2>1. swept \in [Job -> Row]
    BY <1>1, <1>2, UpdatedType
  <2>2. jobs' = swept /\ sweep' = NoSweep
    BY <1>7 DEF SweepCommit
  <2> QED
    BY <2>1, <2>2, <1>7, NoSweepType DEF SweepCommit, TypeOK, RequestShape
<1>8. CASE SweepAbort
  BY <1>8, NoSweepType DEF SweepAbort, TypeOK, RequestShape
<1> QED
  BY <1>4, <1>5, <1>6, <1>7, <1>8 DEF Sweep, TimeoutSweep

(* TypeInv is inductive.                                                   *)
LEMMA NextTypeInv == TypeInv /\ [Next]_vars => TypeInv'
<1> SUFFICES ASSUME TypeInv, [Next]_vars PROVE TypeInv'
  OBVIOUS
<1>1. ASSUME NEW s \in Slot, Begin(s) PROVE TypeInv'
  BY <1>1, BeginType
<1>2. ASSUME NEW s \in Slot, Continue(s) PROVE TypeInv'
  BY <1>2, ContinueType
<1>3. ASSUME NEW s \in Slot, Rollback(s) PROVE TypeInv'
  <2>1. tx' = [tx EXCEPT ![s] = Idle]
    BY <1>3 DEF Rollback
  <2>2. tx' \in [Slot -> Tx] /\ RequestShape'
    BY <2>1, IdleType, TxStep DEF Idle, TypeInv
  <2> QED
    BY <2>2, <1>3 DEF Rollback, TypeInv, TypeOK
<1>4. CASE Sweep
  BY <1>4, SweepType
<1>5. ASSUME NEW v \in Version, CloseVersion(v) PROVE TypeInv'
  BY <1>5 DEF CloseVersion, TypeInv, TypeOK, RequestShape
<1>6. CASE UNCHANGED vars
  BY <1>6 DEF vars, TypeInv, TypeOK, RequestShape
<1> QED
  BY <1>1, <1>2, <1>3, <1>4, <1>5, <1>6 DEF Next

(* Every variable keeps its type in every behaviour.                       *)
THEOREM TypeCorrect == Spec => []TypeOK
<1>1. Spec => []TypeInv
  BY InitTypeInv, NextTypeInv, PTL DEF Spec
<1> QED
  BY <1>1, PTL DEF TypeInv

-----------------------------------------------------------------------------
(* What the invariant says of the record t of slot s.                      *)
SlotInv(s, t) ==
  /\ t.seen.status = "applied" => HasEntries(t.job)
  /\ t.held.status = "applied" => HasEntries(t.job)
  /\ t.work.status = "applied" => t.adds \/ HasEntries(t.job)
  /\ t.reserved => idem[t.key] = None
  /\ \A s2 \in Slot \ {s} : t.reserved /\ tx[s2].reserved
                            => t.key # tx[s2].key
  /\ Hashes(t.job, t.seen) /\ Hashes(t.job, t.work) /\ Hashes(t.job, t.held)
  /\ t.reserved /\ t.pc = "done" => t.adds \/ ContentApplied(t.job)
  /\ \A j \in Job \ {t.job} : ~Clash(t.held, jobs[j])
  /\ \A s2 \in Slot \ {s} : ~Clash(t.held, tx[s2].held)

DataInv ==
  AppliedCopies /\ Reservations /\ FingerprintsDeclared /\ Answers /\ IndexUnique

(* Clashing in the fingerprint index is symmetric.                         *)
LEMMA ClashSymmetric ==
  ASSUME NEW r1, NEW r2
  PROVE  Clash(r1, r2) <=> Clash(r2, r1)
BY DEF Clash

(* An absent row is neither applied nor fingerprinted nor indexed.         *)
LEMMA NoRowIsClear ==
  /\ \A row : ~Clash(NoRow, row) /\ ~Clash(row, NoRow)
  /\ \A j : Hashes(j, NoRow)
  /\ NoRow.status # "applied"
BY DEF Clash, Indexed, NoRow, Hashes

(* DataInv, read off for one slot.                                         *)
LEMMA SlotInvHolds ==
  ASSUME DataInv, NEW s \in Slot
  PROVE  SlotInv(s, tx[s])
BY DEF DataInv, AppliedCopies, Reservations, FingerprintsDeclared, Answers,
       IndexUnique, SlotInv

(* Nothing is asked of an idle slot.                                       *)
LEMMA IdleSlotInv ==
  ASSUME NEW s
  PROVE  SlotInv(s, Idle)
BY NoRowIsClear DEF SlotInv, Idle

(* A step that only gives slot s a record that fits keeps the invariant.   *)
LEMMA SlotStep ==
  ASSUME TypeOK, DataInv, NEW s \in Slot, NEW t,
         tx' = [tx EXCEPT ![s] = t], UNCHANGED <<jobs, idem, entries, sweep>>,
         SlotInv(s, t)
  PROVE  DataInv'
<1>1. tx'[s] = t /\ \A s2 \in Slot \ {s} : tx'[s2] = tx[s2]
  BY DEF TypeOK
<1>2. /\ \A j : HasEntries(j)' <=> HasEntries(j)
      /\ \A j : ContentApplied(j)' <=> ContentApplied(j)
  BY DEF HasEntries, ContentApplied
<1>3. AppliedCopies'
  BY <1>1, <1>2 DEF DataInv, AppliedCopies, AppliedHasEntries, SlotInv
<1>4. Reservations'
  BY <1>1, <1>2 DEF DataInv, Reservations, KeyInsertsOnce, SlotInv
<1>5. FingerprintsDeclared'
  BY <1>1 DEF DataInv, FingerprintsDeclared, SlotInv, Hashes
<1>6. Answers'
  <2>1. KeyRecordsApply'
    BY DEF DataInv, Answers, KeyRecordsApply, HasEntries
  <2> QED
    BY <1>1, <1>2, <2>1 DEF DataInv, Answers, SlotInv
<1>7. IndexUnique'
  <2>1. LiveFingerprintUnique'
    BY DEF DataInv, IndexUnique, LiveFingerprintUnique
  <2>2. \A s1 \in Slot : \A j \in Job \ {tx'[s1].job} :
          ~Clash(tx'[s1].held, jobs'[j])
    BY <1>1 DEF DataInv, IndexUnique, SlotInv
  <2>3. \A s1, s2 \in Slot : s1 # s2 => ~Clash(tx'[s1].held, tx'[s2].held)
    BY <1>1, ClashSymmetric DEF DataInv, IndexUnique, SlotInv
  <2> QED
    BY <2>1, <2>2, <2>3 DEF IndexUnique, Clash, Indexed
<1> QED
  BY <1>3, <1>4, <1>5, <1>6, <1>7 DEF DataInv

(* Starting a request keeps the data invariant.                            *)
LEMMA BeginData ==
  ASSUME TypeInv, DataInv, NEW s \in Slot, Begin(s)
  PROVE  DataInv'
<1> USE DEF TypeInv
<1>1. PICK j \in Job : \/ Create(s, j) \/ Upload(s, j) \/ Validate(s, j)
                       \/ Cancel(s, j) \/ \E k \in IdemKey : Commit(s, j, k)
  BY DEF Begin
<1>2. /\ jobs[j] \in Row
      /\ Hashes(j, jobs[j])
      /\ jobs[j].status = "applied" => HasEntries(j)
  BY DEF TypeOK, DataInv, AppliedCopies, AppliedHasEntries, FingerprintsDeclared
<1>3. CASE Create(s, j)
  <2> DEFINE t == [Idle EXCEPT !.op = "create", !.pc = "done", !.job = j,
                               !.cols = Column, !.work.status = "created"]
  <2>1. SlotInv(s, t)
    BY NoRowIsClear DEF SlotInv, Idle, NoRow, Hashes
  <2> QED
    BY <2>1, <1>3, SlotStep DEF Create
<1>4. CASE Upload(s, j)
  <2>1. PICK key \in ObjectKey :
          tx' = [tx EXCEPT ![s] =
                   [Idle EXCEPT !.op = "upload", !.pc = "put", !.job = j,
                                !.work = mark_uploaded(jobs[j], key)]]
    BY <1>4 DEF Upload
  <2> DEFINE w == mark_uploaded(jobs[j], key)
             t == [Idle EXCEPT !.op = "upload", !.pc = "put", !.job = j,
                               !.work = w]
  <2>2. w.status = "uploaded" /\ Hashes(j, w)
    BY <1>2 DEF mark_uploaded, Hashes, Row
  <2>3. SlotInv(s, t)
    BY <2>2, NoRowIsClear DEF SlotInv, Idle
  <2> QED
    BY <2>1, <2>3, <1>4, SlotStep DEF Upload
<1>5. CASE Validate(s, j)
  <2> DEFINE w == mark_processing(jobs[j])
             t == [Idle EXCEPT !.op = "validate", !.pc = "save", !.job = j,
                               !.seen = jobs[j], !.work = w]
  <2>1. w.status = "processing" /\ Hashes(j, w)
    BY <1>2 DEF mark_processing, Hashes, Row
  <2>2. SlotInv(s, t)
    BY <1>2, <2>1, NoRowIsClear DEF SlotInv, Idle
  <2> QED
    BY <2>2, <1>5, SlotStep DEF Validate
<1>6. CASE Cancel(s, j)
  <2> DEFINE w == cancelled(jobs[j])
             t == [Idle EXCEPT !.op = "cancel", !.pc = "save", !.job = j,
                               !.work = w]
  <2>1. w.status = "cancelled" /\ Hashes(j, w)
    BY <1>2 DEF cancelled, Hashes, Row
  <2>2. SlotInv(s, t)
    BY <2>1, NoRowIsClear DEF SlotInv, Idle
  <2> QED
    BY <2>2, <1>6, SlotStep DEF Cancel
<1>7. CASE \E k \in IdemKey : Commit(s, j, k)
  <2>1. PICK k \in IdemKey : Commit(s, j, k)
    BY <1>7
  <2> DEFINE t == [Idle EXCEPT !.op = "commit", !.pc = "reserve", !.job = j,
                               !.key = k, !.seen = jobs[j]]
  <2>2. SlotInv(s, t)
    BY <1>2, NoRowIsClear DEF SlotInv, Idle
  <2> QED
    BY <2>1, <2>2, SlotStep DEF Commit
<1> QED
  BY <1>1, <1>3, <1>4, <1>5, <1>6, <1>7

(* Each column of an updated row comes from the row or from the object.    *)
LEMMA UpdatedColumns ==
  ASSUME NEW row \in Row, NEW job \in Row, NEW cols
  PROVE  /\ Updated(row, job, cols).status \in {row.status, job.status}
         /\ Updated(row, job, cols).fingerprint
              \in {row.fingerprint, job.fingerprint}
BY DEF Updated

(* Updating a row with a copy of the same job keeps the fingerprint        *)
(* honest.                                                                 *)
LEMMA UpdatedHashes ==
  ASSUME NEW row \in Row, NEW job \in Row, NEW cols, NEW j,
         Hashes(j, row), Hashes(j, job)
  PROVE  Hashes(j, Updated(row, job, cols))
BY UpdatedColumns DEF Hashes

(* The steps of a request other than the commit of its transaction.        *)
LEMMA ContinueData ==
  ASSUME TypeInv, DataInv, NEW s \in Slot, Continue(s), ~CommitTx(s)
  PROVE  DataInv'
<1> USE DEF TypeInv
<1>1. /\ tx[s] \in Tx
      /\ tx[s].seen \in Row
      /\ tx[s].work \in Row
      /\ tx[s].held \in Row
  BY DEF TypeOK, Tx
<1>2. SlotInv(s, tx[s])
  BY SlotInvHolds
<1>3. tx[s].pc # "idle" => tx[s].job \in Job /\ jobs[tx[s].job] \in Row
  BY DEF TypeOK, RequestShape
<1>4. CASE PutObject(s)
  <2> DEFINE t == [tx[s] EXCEPT !.pc = "save"]
  <2>1. SlotInv(s, t)
    BY <1>1, <1>2 DEF SlotInv, Tx
  <2> QED
    BY <2>1, <1>4, SlotStep DEF PutObject, Goto
<1>5. CASE Reserve(s)
  <2> DEFINE w == mark_processing(tx[s].seen)
             t == [tx[s] EXCEPT !.pc = "save", !.reserved = TRUE, !.work = w,
                                !.seen = NoRow]
  <2>1. w.status = "processing" /\ Hashes(tx[s].job, w)
    BY <1>1, <1>2 DEF mark_processing, Hashes, Row, SlotInv
  <2>2. SlotInv(s, t)
    BY <1>1, <1>2, <1>5, <2>1, NoRowIsClear
       DEF SlotInv, Tx, Reserve, KeyReserved
  <2> QED
    BY <2>2, <1>5, SlotStep DEF Reserve, Reserved
<1>6. CASE Replay(s)
  BY <1>6, IdleSlotInv, SlotStep DEF Replay
<1>7. CASE Save(s)
  <2> DEFINE t == [tx[s] EXCEPT !.cols = Changed(Visible(s), tx[s].work),
                     !.pc = IF tx[s].op \in {"validate", "commit"}
                            THEN "flush" ELSE "done"]
  <2>1. SlotInv(s, t)
    <3>1. tx[s].reserved => tx[s].op = "commit"
      BY DEF RequestShape
    <3> QED
      BY <1>1, <1>2, <3>1 DEF SlotInv, Tx
  <2> QED
    BY <2>1, <1>7, SlotStep DEF Save
<1>8. CASE Flush(s)
  <2> DEFINE r == Updated(jobs[tx[s].job], tx[s].work, tx[s].cols)
             t == [tx[s] EXCEPT !.held = r, !.cols = {},
                    !.pc = IF tx[s].op = "validate" THEN "load" ELSE "match"]
  <2>1. tx[s].pc = "flush" /\ tx' = [tx EXCEPT ![s] = t]
    BY <1>8 DEF Flush
  <2>2. tx[s].job \in Job /\ jobs[tx[s].job] \in Row
    BY <1>3, <2>1
  <2>3. Hashes(tx[s].job, r)
    BY <1>1, <1>2, <2>2, UpdatedHashes
       DEF SlotInv, DataInv, FingerprintsDeclared
  <2>4. r.status = "applied" => HasEntries(tx[s].job)
    <3>1. ~tx[s].adds \/ HasEntries(tx[s].job)
      BY <2>1 DEF RequestShape
    <3> QED
      BY <1>1, <1>2, <2>2, <3>1, UpdatedColumns
         DEF SlotInv, DataInv, AppliedCopies, AppliedHasEntries
  <2>5. /\ \A j \in Job \ {tx[s].job} : ~Clash(r, jobs[j])
        /\ \A s2 \in Slot \ {s} : ~Clash(r, tx[s2].held)
    BY <1>8 DEF Flush, IndexAdmits
  <2>6. SlotInv(s, t)
    BY <1>1, <1>2, <2>3, <2>4, <2>5 DEF SlotInv, Tx
  <2> QED
    BY <2>1, <2>6, <1>8, SlotStep DEF Flush
<1>9. CASE LoadTable(s)
  <2> DEFINE t == [tx[s] EXCEPT
                    !.pc = IF tx[s].op = "validate" THEN "match" ELSE "apply"]
  <2>1. SlotInv(s, t)
    BY <1>1, <1>2 DEF SlotInv, Tx
  <2> QED
    BY <2>1, <1>9, SlotStep DEF LoadTable, Goto
<1>10. CASE ReturnExisting(s)
  <2> DEFINE t == [tx[s] EXCEPT !.work = tx[s].seen, !.pc = "done",
                     !.seen = NoRow, !.cols = Changed(tx[s].held, tx[s].seen)]
  <2>1. ~tx[s].reserved
    BY <1>10 DEF ReturnExisting, RequestShape
  <2>2. SlotInv(s, t)
    BY <1>1, <1>2, <2>1, NoRowIsClear DEF SlotInv, Tx
  <2> QED
    BY <2>2, <1>10, SlotStep DEF ReturnExisting
<1>11. CASE CheckRows(s)
  <2>1. PICK m \in Mapping, outcome \in {"ready", "invalid"} :
          tx' = [tx EXCEPT ![s] =
                  [@ EXCEPT !.pc = "write", !.seen = NoRow,
                     !.work = mark_validated(tx[s].work, outcome,
                                <<ContentOf[tx[s].job], m>>)]]
    BY <1>11 DEF CheckRows
  <2> DEFINE w == mark_validated(tx[s].work, outcome,
                                 <<ContentOf[tx[s].job], m>>)
             t == [tx[s] EXCEPT !.pc = "write", !.seen = NoRow, !.work = w]
  <2>2. w.status # "applied" /\ Hashes(tx[s].job, w)
    BY <1>1 DEF mark_validated, Hashes, Row
  <2>3. SlotInv(s, t)
    BY <1>1, <1>2, <2>2, NoRowIsClear DEF SlotInv, Tx
  <2> QED
    BY <2>1, <2>3, <1>11, SlotStep DEF CheckRows
<1>12. CASE WriteValidated(s)
  <2> DEFINE t == [tx[s] EXCEPT !.held = tx[s].work, !.pc = "done"]
  <2>1. ~tx[s].reserved /\ ~tx[s].adds
    BY <1>12 DEF WriteValidated, RequestShape
  <2>2. SlotInv(s, t)
    BY <1>1, <1>2, <1>12, <2>1 DEF SlotInv, Tx, WriteValidated, IndexAdmits
  <2> QED
    BY <2>2, <1>12, SlotStep DEF WriteValidated
<1>13. CASE MatchNone(s)
  <2> DEFINE t == [tx[s] EXCEPT !.pc = "load"]
  <2>1. SlotInv(s, t)
    BY <1>1, <1>2 DEF SlotInv, Tx
  <2> QED
    BY <2>1, <1>13, SlotStep DEF MatchNone, Goto
<1>14. CASE MatchApplied(s)
  <2> DEFINE t == [tx[s] EXCEPT !.pc = "done"]
  <2>1. ContentApplied(tx[s].job)
    <3>1. PICK i \in SameFingerprint(tx[s].job, tx[s].work.fingerprint) :
            jobs[i].status = "applied"
      BY <1>14 DEF MatchApplied
    <3>2. /\ i \in Job
          /\ jobs[i].fingerprint = tx[s].work.fingerprint
          /\ tx[s].work.fingerprint # None
      BY <1>14 DEF MatchApplied, SameFingerprint
    <3>3. HasEntries(i)
      BY <3>1, <3>2 DEF DataInv, AppliedCopies, AppliedHasEntries
    <3>4. ContentOf[i] = ContentOf[tx[s].job]
      BY <1>2, <3>2 DEF SlotInv, DataInv, FingerprintsDeclared, Hashes
    <3> QED
      BY <3>2, <3>3, <3>4 DEF ContentApplied
  <2>2. SlotInv(s, t)
    BY <1>1, <1>2, <2>1 DEF SlotInv, Tx
  <2> QED
    BY <2>2, <1>14, SlotStep DEF MatchApplied, Goto
<1>15. CASE Apply(s)
  <2> DEFINE w == mark_applied(tx[s].work)
             t == [tx[s] EXCEPT !.work = w, !.adds = TRUE,
                                !.cols = Changed(tx[s].held, w),
                                !.pc = "done"]
  <2>1. Hashes(tx[s].job, w)
    BY <1>1, <1>2 DEF mark_applied, Hashes, Row, SlotInv
  <2>2. SlotInv(s, t)
    BY <1>1, <1>2, <2>1 DEF SlotInv, Tx
  <2> QED
    BY <2>2, <1>15, SlotStep DEF Apply
<1> QED
  BY <1>4, <1>5, <1>6, <1>7, <1>8, <1>9, <1>10, <1>11, <1>12, <1>13, <1>14,
     <1>15 DEF Continue

(* What the commit of a transaction does to the tables, and the facts its  *)
(* effects on the invariant follow from.                                   *)
LEMMA CommitTxFacts ==
  ASSUME TypeInv, DataInv, NEW s \in Slot, CommitTx(s),
         NEW row, row = Updated(Visible(s), tx[s].work, tx[s].cols)
  PROVE  /\ tx[s].job \in Job
         /\ jobs' = jobs \/ /\ jobs' = [jobs EXCEPT ![tx[s].job] = row]
                            /\ IndexAdmits(s, tx[s].job, row)
         /\ Hashes(tx[s].job, row)
         /\ row.status = "applied" => tx[s].adds \/ HasEntries(tx[s].job)
         /\ tx[s].adds => /\ tx[s].reserved
                          /\ entries' = [entries EXCEPT ![tx[s].job] =
                               [entries[tx[s].job] EXCEPT ![tx[s].key] = @ + 1]]
         /\ ~tx[s].adds => entries' = entries
         /\ tx[s].reserved => /\ tx[s].key \in IdemKey
                              /\ idem' = [idem EXCEPT ![tx[s].key] = tx[s].job]
         /\ ~tx[s].reserved => idem' = idem
         /\ tx' = [tx EXCEPT ![s] = Idle]
         /\ sweep' = sweep
<1> USE DEF TypeInv
<1>1. /\ tx[s] \in Tx
      /\ tx[s].work \in Row
      /\ tx[s].held \in Row
      /\ SlotInv(s, tx[s])
  BY SlotInvHolds DEF TypeOK, Tx
<1>2. tx[s].job \in Job /\ jobs[tx[s].job] \in Row
  BY DEF TypeOK, RequestShape, CommitTx
<1>3. /\ Visible(s) \in Row
      /\ Hashes(tx[s].job, Visible(s))
      /\ Visible(s).status = "applied" => HasEntries(tx[s].job)
  BY <1>1, <1>2 DEF Visible, SlotInv, DataInv, AppliedCopies,
                    AppliedHasEntries, FingerprintsDeclared
<1>4. Hashes(tx[s].job, row)
  BY <1>1, <1>3, UpdatedHashes DEF SlotInv
<1>5. row.status = "applied" => tx[s].adds \/ HasEntries(tx[s].job)
  BY <1>1, <1>3, UpdatedColumns DEF SlotInv
<1>6. /\ tx[s].adds => tx[s].reserved
      /\ tx[s].reserved => tx[s].key \in IdemKey
  BY DEF RequestShape
<1> QED
  BY <1>2, <1>4, <1>5, <1>6 DEF CommitTx

(* COMMIT of a request keeps the data invariant: what becomes visible is   *)
(* what the request's own copy satisfied.                                  *)
LEMMA CommitTxData ==
  ASSUME TypeInv, DataInv, NEW s \in Slot, CommitTx(s)
  PROVE  DataInv'
<1> USE DEF TypeInv
<1> DEFINE j == tx[s].job
           k == tx[s].key
           row == Updated(Visible(s), tx[s].work, tx[s].cols)
           HasAfter(i) == \E k2 \in IdemKey : entries'[i][k2] > 0
           ContentAfter(i) == \E i2 \in Job : /\ HasAfter(i2)
                                             /\ ContentOf[i2] = ContentOf[i]
<1>1. /\ j \in Job
      /\ jobs' = jobs \/ /\ jobs' = [jobs EXCEPT ![j] = row]
                         /\ IndexAdmits(s, j, row)
      /\ Hashes(j, row)
      /\ row.status = "applied" => tx[s].adds \/ HasEntries(j)
      /\ tx[s].adds => /\ tx[s].reserved
                       /\ entries' = [entries EXCEPT ![j] =
                                       [entries[j] EXCEPT ![k] = @ + 1]]
      /\ ~tx[s].adds => entries' = entries
      /\ tx[s].reserved => /\ k \in IdemKey
                           /\ idem' = [idem EXCEPT ![k] = j]
      /\ ~tx[s].reserved => idem' = idem
      /\ tx' = [tx EXCEPT ![s] = Idle]
      /\ sweep' = sweep
  BY CommitTxFacts
<1>2. /\ jobs \in [Job -> Row]
      /\ idem \in [IdemKey -> Job \cup {None}]
      /\ entries \in [Job -> [IdemKey -> Nat]]
      /\ tx \in [Slot -> Tx]
  BY DEF TypeOK
<1>3. SlotInv(s, tx[s])
  BY SlotInvHolds
<1>4. tx'[s] = Idle /\ \A s2 \in Slot \ {s} : tx'[s2] = tx[s2]
  BY <1>1, <1>2
<1>5. \A i \in Job : \/ jobs'[i] = jobs[i]
                     \/ i = j /\ jobs'[i] = row /\ IndexAdmits(s, j, row)
  BY <1>1, <1>2
<1>6. \A i \in Job, k2 \in IdemKey :
        \/ entries'[i][k2] = entries[i][k2] /\ ~(tx[s].adds /\ i = j /\ k2 = k)
        \/ /\ tx[s].adds /\ i = j /\ k2 = k
           /\ entries'[i][k2] = entries[i][k2] + 1
  BY <1>1, <1>2
<1>7. \A i \in Job, k2 \in IdemKey : entries[i][k2] \in Nat
  BY <1>2
<1>8. \A i \in Job : HasEntries(i) => HasAfter(i)
  BY <1>6, <1>7 DEF HasEntries
<1>9. tx[s].adds => HasAfter(j)
  BY <1>1, <1>6, <1>7
<1>10. \A i : ContentApplied(i) => ContentAfter(i)
  BY <1>8 DEF ContentApplied
<1>11. AppliedCopies'
  <2>1. \A i \in Job : jobs'[i].status = "applied" => HasAfter(i)
    BY <1>1, <1>5, <1>8, <1>9 DEF AppliedHasEntries, DataInv, AppliedCopies
  <2>2. ASSUME NEW s2 \in Slot
        PROVE  /\ tx'[s2].seen.status = "applied" => HasAfter(tx'[s2].job)
               /\ tx'[s2].held.status = "applied" => HasAfter(tx'[s2].job)
               /\ tx'[s2].work.status = "applied"
                    => tx'[s2].adds \/ HasAfter(tx'[s2].job)
    <3>1. CASE s2 = s
      BY <1>4, <3>1 DEF Idle, NoRow
    <3>2. CASE s2 # s /\ tx[s2].pc # "idle"
      BY <1>4, <1>8, <3>2 DEF DataInv, AppliedCopies, RequestShape
    <3>3. CASE s2 # s /\ tx[s2].pc = "idle"
      BY <1>4, <3>3 DEF RequestShape, Idle, NoRow
    <3> QED
      BY <3>1, <3>2, <3>3
  <2>3. \A i \in Job : sweep'.seen[i].status = "applied" => HasAfter(i)
    BY <1>1, <1>8 DEF DataInv, AppliedCopies
  <2> QED
    BY <2>1, <2>2, <2>3 DEF AppliedCopies, AppliedHasEntries, HasEntries
<1>12. tx[s].reserved => idem[k] = None /\ \A i \in Job : entries[i][k] = 0
  <2> SUFFICES ASSUME tx[s].reserved
               PROVE  idem[k] = None /\ \A i \in Job : entries[i][k] = 0
    OBVIOUS
  <2>1. idem[k] = None /\ k \in IdemKey
    BY <1>1, <1>3 DEF SlotInv
  <2>2. ASSUME NEW i \in Job PROVE entries[i][k] = 0
    <3>1. /\ entries[i][k] <= 1
          /\ entries[i][k] = 1 => idem[k] = i
      BY <2>1 DEF DataInv, Reservations, KeyInsertsOnce
    <3>2. i # None
      BY ConstantsAssumption
    <3> QED
      BY <2>1, <3>1, <3>2, <1>7
  <2> QED
    BY <2>1, <2>2
<1>13. Reservations'
  <2>1. KeyInsertsOnce'
    <3> SUFFICES ASSUME NEW i \in Job, NEW k2 \in IdemKey
                 PROVE  /\ entries'[i][k2] <= 1
                        /\ entries'[i][k2] = 1 => idem'[k2] = i
      BY DEF KeyInsertsOnce
    <3>1. /\ entries[i][k2] <= 1
          /\ entries[i][k2] = 1 => idem[k2] = i
      BY DEF DataInv, Reservations, KeyInsertsOnce
    <3>2. CASE tx[s].adds /\ i = j /\ k2 = k
      <4>1. entries'[i][k2] = 1
        BY <1>1, <1>6, <1>12, <3>2
      <4>2. idem'[k2] = i
        BY <1>1, <1>2, <3>2
      <4> QED
        BY <4>1, <4>2
    <3>3. CASE ~(tx[s].adds /\ i = j /\ k2 = k)
      <4>1. entries'[i][k2] = entries[i][k2]
        BY <1>6, <3>3
      <4>2. entries[i][k2] = 1 => idem'[k2] = i
        BY <1>1, <1>2, <1>12, <3>1
      <4> QED
        BY <4>1, <4>2, <3>1
    <3> QED
      BY <3>2, <3>3
  <2>2. \A s2 \in Slot : tx'[s2].reserved => idem'[tx'[s2].key] = None
    <3> SUFFICES ASSUME NEW s2 \in Slot \ {s}, tx[s2].reserved
                 PROVE  idem'[tx[s2].key] = None
      BY <1>4 DEF Idle
    <3>1. idem[tx[s2].key] = None /\ (tx[s].reserved => tx[s2].key # k)
      BY DEF DataInv, Reservations
    <3>2. tx[s2].key \in IdemKey
      BY DEF RequestShape
    <3> QED
      BY <1>1, <1>2, <3>1, <3>2
  <2>3. \A s1, s2 \in Slot :
          s1 # s2 /\ tx'[s1].reserved /\ tx'[s2].reserved
            => tx'[s1].key # tx'[s2].key
    BY <1>4 DEF Idle, DataInv, Reservations
  <2> QED
    BY <2>1, <2>2, <2>3 DEF Reservations
<1>14. FingerprintsDeclared'
  BY <1>1, <1>4, <1>5, NoRowIsClear
     DEF DataInv, FingerprintsDeclared, Hashes, Idle
<1>15. Answers'
  <2>1. KeyRecordsApply'
    <3> SUFFICES ASSUME NEW i \in Job, NEW k2 \in IdemKey, idem'[k2] = i
                 PROVE  entries'[i][k2] = 1 \/ ContentAfter(i)
      BY DEF KeyRecordsApply, HasEntries
    <3>1. CASE tx[s].reserved /\ k2 = k
      <4>1. i = j
        BY <1>1, <1>2, <3>1
      <4>2. tx[s].adds \/ ContentApplied(j)
        BY <1>3, <3>1 DEF SlotInv, CommitTx
      <4>3. CASE tx[s].adds
        BY <4>1, <4>3, <1>6, <1>12, <3>1
      <4>4. CASE ContentApplied(j)
        BY <4>1, <4>4, <1>10
      <4> QED
        BY <4>2, <4>3, <4>4
    <3>2. CASE ~(tx[s].reserved /\ k2 = k)
      <4>1. idem[k2] = i
        BY <1>1, <1>2, <3>2
      <4>2. entries[i][k2] = 1 \/ ContentApplied(i)
        BY <4>1 DEF DataInv, Answers, KeyRecordsApply, ContentApplied
      <4>3. entries'[i][k2] = entries[i][k2]
        BY <1>1, <1>6, <3>2
      <4> QED
        BY <4>2, <4>3, <1>10
    <3> QED
      BY <3>1, <3>2
  <2>2. \A s2 \in Slot : tx'[s2].reserved /\ tx'[s2].pc = "done"
                           => tx'[s2].adds \/ ContentAfter(tx'[s2].job)
    BY <1>4, <1>10 DEF Idle, DataInv, Answers
  <2> QED
    BY <2>1, <2>2 DEF Answers, ContentApplied, HasEntries
<1>16. IndexUnique'
  <2>1. LiveFingerprintUnique'
    BY <1>5, ClashSymmetric
       DEF DataInv, IndexUnique, LiveFingerprintUnique, IndexAdmits
  <2>2. \A s1 \in Slot : \A i \in Job \ {tx'[s1].job} :
          ~Clash(tx'[s1].held, jobs'[i])
    <3>1. ASSUME NEW s1 \in Slot \ {s}, NEW i \in Job \ {tx[s1].job}
          PROVE  ~Clash(tx[s1].held, jobs'[i])
      BY <1>5, ClashSymmetric DEF DataInv, IndexUnique, IndexAdmits
    <3> QED
      BY <1>4, <3>1, NoRowIsClear DEF Idle
  <2>3. \A s1, s2 \in Slot : s1 # s2 => ~Clash(tx'[s1].held, tx'[s2].held)
    BY <1>4, NoRowIsClear DEF Idle, DataInv, IndexUnique
  <2> QED
    BY <2>1, <2>2, <2>3 DEF IndexUnique, Clash, Indexed
<1> QED
  BY <1>11, <1>13, <1>14, <1>15, <1>16 DEF DataInv

(* A sweep may list, write and drop its own copies of the jobs.            *)
LEMMA SweepCopies ==
  ASSUME DataInv, UNCHANGED <<jobs, idem, entries, tx>>,
         \A j \in Job : \/ sweep'.seen[j] = sweep.seen[j]
                        \/ sweep'.seen[j] \in {jobs[j], NoRow}
  PROVE  DataInv'
<1>1. AppliedCopies'
  BY NoRowIsClear DEF DataInv, AppliedCopies, AppliedHasEntries, HasEntries
<1>2. Reservations'
  BY DEF DataInv, Reservations, KeyInsertsOnce
<1>3. FingerprintsDeclared'
  BY NoRowIsClear DEF DataInv, FingerprintsDeclared, Hashes
<1>4. Answers'
  BY DEF DataInv, Answers, KeyRecordsApply, ContentApplied, HasEntries
<1>5. IndexUnique'
  BY DEF DataInv, IndexUnique, LiveFingerprintUnique, Clash, Indexed
<1> QED
  BY <1>1, <1>2, <1>3, <1>4, <1>5 DEF DataInv

(* COMMIT of a sweep keeps it too: stale copies of applied jobs still have *)
(* entries, and the index check covers the rest.                           *)
LEMMA SweepCommitData ==
  ASSUME TypeInv, DataInv, SweepCommit
  PROVE  DataInv'
<1> USE DEF TypeInv
<1> DEFINE swept == [j \in Job |->
                      IF j \in sweep.saved
                      THEN Updated(jobs[j], Swept(j), sweep.cols[j])
                      ELSE jobs[j]]
<1>1. /\ jobs' = swept
      /\ sweep' = NoSweep
      /\ UNCHANGED <<idem, entries, tx>>
      /\ \A j \in sweep.saved, s \in Slot :
           /\ tx[s].held # NoRow => tx[s].job # j
           /\ ~Clash(swept[j], tx[s].held)
      /\ \A i, j \in Job : i # j => ~Clash(swept[i], swept[j])
  BY DEF SweepCommit
<1>2. ASSUME NEW j \in Job
      PROVE  /\ Hashes(j, swept[j])
             /\ swept[j].status = "applied" => HasEntries(j)
             /\ sweep'.seen[j] = NoRow
  <2>1. jobs[j] \in Row /\ sweep.seen[j] \in Row
    BY DEF TypeOK, SweepState
  <2>2. /\ Hashes(j, jobs[j]) /\ Hashes(j, sweep.seen[j])
        /\ jobs[j].status = "applied" => HasEntries(j)
        /\ sweep.seen[j].status = "applied" => HasEntries(j)
    BY DEF DataInv, AppliedCopies, AppliedHasEntries, FingerprintsDeclared
  <2>3. Swept(j) \in Row
    BY <2>1, RowTypes DEF Swept
  <2>4. /\ Hashes(j, Swept(j))
        /\ Swept(j).status = "applied" => HasEntries(j)
    BY <2>1, <2>2 DEF Swept, clear_object_key, mark_timed_out, Hashes, Row
  <2>5. CASE j \in sweep.saved
    BY <1>1, <2>1, <2>2, <2>3, <2>4, <2>5, UpdatedColumns, UpdatedHashes
       DEF NoSweep
  <2>6. CASE j \notin sweep.saved
    BY <1>1, <2>2, <2>6 DEF NoSweep
  <2> QED
    BY <2>5, <2>6
<1>3. AppliedCopies'
  BY <1>1, <1>2, NoRowIsClear
     DEF DataInv, AppliedCopies, AppliedHasEntries, HasEntries
<1>4. Reservations'
  BY <1>1 DEF DataInv, Reservations, KeyInsertsOnce
<1>5. FingerprintsDeclared'
  BY <1>1, <1>2, NoRowIsClear DEF DataInv, FingerprintsDeclared, Hashes
<1>6. Answers'
  BY <1>1 DEF DataInv, Answers, KeyRecordsApply, ContentApplied, HasEntries
<1>7. IndexUnique'
  <2>1. \A i, j \in Job : i # j => ~Clash(jobs'[i], jobs'[j])
    BY <1>1
  <2>2. ASSUME NEW s \in Slot, NEW j \in Job \ {tx[s].job}
        PROVE  ~Clash(tx[s].held, jobs'[j])
    <3>1. CASE j \in sweep.saved
      BY <1>1, <3>1, ClashSymmetric
    <3>2. CASE j \notin sweep.saved
      BY <1>1, <3>2 DEF DataInv, IndexUnique
    <3> QED
      BY <3>1, <3>2
  <2>3. \A s1, s2 \in Slot : s1 # s2 => ~Clash(tx[s1].held, tx[s2].held)
    BY DEF DataInv, IndexUnique
  <2> QED
    BY <1>1, <2>1, <2>2, <2>3
       DEF IndexUnique, LiveFingerprintUnique, Clash, Indexed
<1> QED
  BY <1>3, <1>4, <1>5, <1>6, <1>7 DEF DataInv

(* Every step of a sweep keeps the data invariant.                         *)
LEMMA SweepData ==
  ASSUME TypeInv, DataInv, Sweep
  PROVE  DataInv'
<1>1. sweep \in SweepState
  BY DEF TypeInv, TypeOK
<1>2. ASSUME NEW kind, NEW S \in SUBSET Job, StartSweep(kind, S)
      PROVE  DataInv'
  <2>1. \A j \in Job : sweep'.seen[j] \in {jobs[j], NoRow}
    BY <1>2 DEF StartSweep, NoSweep
  <2> QED
    BY <1>2, <2>1, SweepCopies DEF StartSweep
<1>3. CASE ListStale
  BY <1>2, <1>3 DEF ListStale, StaleProcessing
<1>4. CASE ListExpired
  BY <1>2, <1>4 DEF ListExpired, ExpiredOriginals
<1>5. ASSUME NEW j \in Job, SweepJob(j) PROVE DataInv'
  BY <1>1, <1>5, SweepCopies DEF SweepJob, SweepState
<1>6. CASE SweepCommit
  BY <1>6, SweepCommitData
<1>7. CASE SweepAbort
  BY <1>7, SweepCopies DEF SweepAbort, NoSweep
<1> QED
  BY <1>3, <1>4, <1>5, <1>6, <1>7 DEF Sweep, TimeoutSweep

(* The invariant holds initially.                                          *)
LEMMA InitIInv == Init => IInv
<1> SUFFICES ASSUME Init PROVE IInv
  OBVIOUS
<1>1. TypeInv
  BY InitTypeInv
<1>2. \A s \in Slot : tx[s] = Idle
  BY DEF Init
<1>3. \A j \in Job : jobs[j] = NoRow /\ sweep.seen[j] = NoRow
  BY DEF Init, NoSweep
<1>4. AppliedCopies
  BY <1>2, <1>3, NoRowIsClear DEF AppliedCopies, AppliedHasEntries, Idle
<1>5. Reservations
  BY <1>2 DEF Init, Reservations, KeyInsertsOnce, Idle
<1>6. FingerprintsDeclared
  BY <1>2, <1>3, NoRowIsClear DEF FingerprintsDeclared, Idle
<1>7. Answers
  BY <1>2, ConstantsAssumption DEF Init, Answers, KeyRecordsApply, Idle
<1>8. IndexUnique
  BY <1>2, <1>3, NoRowIsClear DEF IndexUnique, LiveFingerprintUnique, Idle
<1> QED
  BY <1>1, <1>4, <1>5, <1>6, <1>7, <1>8 DEF IInv, TypeInv

(* The invariant is inductive.                                             *)
LEMMA NextIInv == IInv /\ [Next]_vars => IInv'
<1> SUFFICES ASSUME IInv, [Next]_vars PROVE IInv'
  OBVIOUS
<1>1. TypeInv /\ DataInv /\ TypeInv'
  <2>1. TypeInv /\ DataInv
    BY DEF IInv, TypeInv, DataInv
  <2> QED
    BY <2>1, NextTypeInv
<1>2. ASSUME NEW s \in Slot, Begin(s) PROVE DataInv'
  BY <1>1, <1>2, BeginData
<1>3. ASSUME NEW s \in Slot, Continue(s) PROVE DataInv'
  BY <1>1, <1>3, ContinueData, CommitTxData
<1>4. ASSUME NEW s \in Slot, Rollback(s) PROVE DataInv'
  BY <1>1, <1>4, IdleSlotInv, SlotStep DEF Rollback, TypeInv
<1>5. ASSUME Sweep PROVE DataInv'
  BY <1>1, <1>5, SweepData
<1>6. ASSUME NEW v \in Version, CloseVersion(v) PROVE DataInv'
  BY <1>1, <1>6, SweepCopies DEF CloseVersion
<1>7. ASSUME UNCHANGED vars PROVE DataInv'
  BY <1>1, <1>7, SweepCopies DEF vars
<1>8. DataInv'
  BY <1>2, <1>3, <1>4, <1>5, <1>6, <1>7 DEF Next
<1>9. TypeInv' /\ DataInv' => IInv'
  BY DEF IInv, TypeInv, DataInv
<1> QED
  BY <1>1, <1>8, <1>9

(* The inductive invariant holds in every reachable state.                 *)
THEOREM Invariance == Spec => []IInv
BY InitIInv, NextIInv, PTL DEF Spec

(* Whatever copies of a job requests and sweeps write back, a job that     *)
(* reads APPLIED has its entries in the ledger.                            *)
THEOREM AppliedJobsHaveEntries == Spec => []AppliedHasEntries
<1>1. IInv => AppliedHasEntries
  BY DEF IInv, AppliedCopies
<1> QED
  BY <1>1, Invariance, PTL

(* A key inserts the entries of one job, once, together with its record.   *)
THEOREM KeysInsertOnce == Spec => []KeyInsertsOnce
<1>1. IInv => KeyInsertsOnce
  BY DEF IInv, Reservations
<1> QED
  BY <1>1, Invariance, PTL

(* A stored key stands for entries in the ledger: a retry that is answered *)
(* from it is answered truly.                                              *)
THEOREM KeysRecordApplies == Spec => []KeyRecordsApply
<1>1. IInv => KeyRecordsApply
  BY DEF IInv, Answers
<1> QED
  BY <1>1, Invariance, PTL

(* No two live jobs share a fingerprint, however many slots and sweeps     *)
(* write.                                                                  *)
THEOREM LiveFingerprintsUnique == Spec => []LiveFingerprintUnique
<1>1. IInv => LiveFingerprintUnique
  BY DEF IInv, IndexUnique
<1> QED
  BY <1>1, Invariance, PTL

-----------------------------------------------------------------------------
(* The commit of a transaction answers a key or leaves the ledger alone.   *)
LEMMA CommitTxAnswers ==
  ASSUME TypeInv, DataInv, NEW s \in Slot, CommitTx(s)
  PROVE  Ledger!Next \/ UNCHANGED <<idem, entries>>
<1> DEFINE j == tx[s].job
           k == tx[s].key
<1>1. /\ j \in Job
      /\ tx[s].adds => /\ tx[s].reserved
                       /\ entries' = [entries EXCEPT ![j] =
                                       [entries[j] EXCEPT ![k] = @ + 1]]
      /\ ~tx[s].adds => entries' = entries
      /\ tx[s].reserved => /\ k \in IdemKey
                           /\ idem' = [idem EXCEPT ![k] = j]
      /\ ~tx[s].reserved => idem' = idem
  BY CommitTxFacts
<1>2. SlotInv(s, tx[s]) /\ tx[s].pc = "done"
  BY SlotInvHolds DEF CommitTx
<1>3. CASE tx[s].adds
  <2>1. idem[k] = None /\ k \in IdemKey
    BY <1>1, <1>2, <1>3 DEF SlotInv
  <2>2. Ledger!Apply(j, k)
    BY <1>1, <1>3, <2>1 DEF Ledger!Apply, Ledger!Answer
  <2> QED
    BY <1>1, <2>1, <2>2 DEF Ledger!Next
<1>4. CASE tx[s].reserved /\ ~tx[s].adds
  <2>1. idem[k] = None /\ k \in IdemKey /\ ContentApplied(j)
    BY <1>1, <1>2, <1>4 DEF SlotInv
  <2>2. Ledger!AlreadyApplied(j, k)
    BY <1>1, <1>4, <2>1
       DEF Ledger!AlreadyApplied, Ledger!Answer, ContentApplied, HasEntries
  <2> QED
    BY <1>1, <2>1, <2>2 DEF Ledger!Next
<1>5. CASE ~tx[s].reserved /\ ~tx[s].adds
  BY <1>1, <1>5
<1> QED
  BY <1>3, <1>4, <1>5

(* Every step of the service is a step of ImportLedger or leaves it alone. *)
LEMMA LedgerStep == IInv /\ [Next]_vars => [Ledger!Next]_<<idem, entries>>
<1> SUFFICES ASSUME IInv, [Next]_vars
             PROVE  Ledger!Next \/ UNCHANGED <<idem, entries>>
  OBVIOUS
<1>1. TypeInv /\ DataInv
  BY DEF IInv, TypeInv, DataInv
<1>2. ASSUME NEW s \in Slot, Begin(s) PROVE UNCHANGED <<idem, entries>>
  BY <1>2 DEF Begin, Create, Upload, Validate, Cancel, Commit
<1>3. ASSUME NEW s \in Slot, Continue(s)
      PROVE  Ledger!Next \/ UNCHANGED <<idem, entries>>
  <2>1. CASE CommitTx(s)
    BY <1>1, <2>1, CommitTxAnswers
  <2>2. CASE ~CommitTx(s)
    BY <1>3, <2>2 DEF Continue, PutObject, Reserve, Replay, Save, Flush,
         LoadTable, ReturnExisting, CheckRows, WriteValidated, MatchNone,
         MatchApplied, Apply
  <2> QED
    BY <2>1, <2>2
<1>4. ASSUME NEW s \in Slot, Rollback(s) PROVE UNCHANGED <<idem, entries>>
  BY <1>4 DEF Rollback
<1>5. ASSUME Sweep PROVE UNCHANGED <<idem, entries>>
  BY <1>5 DEF Sweep, TimeoutSweep, ListStale, ListExpired, StartSweep,
              SweepJob, SweepCommit, SweepAbort
<1>6. ASSUME NEW v \in Version, CloseVersion(v)
      PROVE  UNCHANGED <<idem, entries>>
  BY <1>6 DEF CloseVersion
<1>7. ASSUME UNCHANGED vars PROVE UNCHANGED <<idem, entries>>
  BY <1>7 DEF vars
<1> QED
  BY <1>2, <1>3, <1>4, <1>5, <1>6, <1>7 DEF Next

(* The import service implements ImportLedger: whatever fails, interleaves *)
(* or is retried, each key is answered once, together with its entries or  *)
(* because they are there, and no entry is taken back.                     *)
THEOREM LedgerImplemented == Spec => ImplementsLedger
<1>1. Init => Ledger!Init
  BY DEF Init, Ledger!Init
<1> QED
  BY <1>1, LedgerStep, Invariance, PTL DEF Spec, ImplementsLedger, Ledger!Spec

-----------------------------------------------------------------------------
(* A step that only gives slot s a record that fits keeps the locks.       *)
LEMMA LockStep ==
  ASSUME TypeOK, LockInv, NEW s \in Slot, NEW t,
         tx' = [tx EXCEPT ![s] = t], UNCHANGED <<jobs, sweep>>,
         SlotLocks(s, t)
  PROVE  LockInv'
<1>1. tx'[s] = t /\ \A s2 \in Slot \ {s} : tx'[s2] = tx[s2]
  BY DEF TypeOK
<1>2. SlotLocks(s, t)'
  BY <1>1 DEF SlotLocks, Clash, Indexed
<1>3. ASSUME NEW s2 \in Slot \ {s}
      PROVE  SlotLocks(s2, tx[s2])'
  <2>1. SlotLocks(s2, tx[s2])
    BY DEF LockInv
  <2> QED
    BY <1>1, <2>1 DEF SlotLocks, Clash, Indexed
<1>4. RowsExist'
  BY DEF LockInv, RowsExist
<1> QED
  BY <1>1, <1>2, <1>3, <1>4 DEF LockInv

(* Nothing is asked of an idle slot.                                       *)
LEMMA IdleLocks ==
  ASSUME NEW s
  PROVE  SlotLocks(s, Idle)
BY DEF SlotLocks, Idle, Unwritten, Written

(* Starting a request locks nothing.                                       *)
LEMMA BeginLocks ==
  ASSUME TypeInv, LockInv, NEW s \in Slot, Begin(s)
  PROVE  LockInv'
<1> USE DEF TypeInv
<1>1. PICK j \in Job : \/ Create(s, j) \/ Upload(s, j) \/ Validate(s, j)
                       \/ Cancel(s, j) \/ \E k \in IdemKey : Commit(s, j, k)
  BY DEF Begin
<1>2. jobs[j] \in Row
  BY DEF TypeOK
<1>3. CASE Create(s, j)
  <2> DEFINE t == [Idle EXCEPT !.op = "create", !.pc = "done", !.job = j,
                               !.cols = Column, !.work.status = "created"]
  <2>1. SlotLocks(s, t)
    BY DEF SlotLocks, Idle, NoRow, Unwritten, Written
  <2> QED
    BY <2>1, <1>3, LockStep DEF Create
<1>4. CASE Upload(s, j)
  <2>1. PICK key \in ObjectKey :
          tx' = [tx EXCEPT ![s] =
                   [Idle EXCEPT !.op = "upload", !.pc = "put", !.job = j,
                                !.work = mark_uploaded(jobs[j], key)]]
    BY <1>4 DEF Upload
  <2> DEFINE w == mark_uploaded(jobs[j], key)
             t == [Idle EXCEPT !.op = "upload", !.pc = "put", !.job = j,
                               !.work = w]
  <2>2. w.status = "uploaded" /\ jobs[j].status # "absent"
    BY <1>2, <1>4 DEF mark_uploaded, Row, Upload
  <2>3. SlotLocks(s, t)
    BY <2>2 DEF SlotLocks, Idle, Unwritten, Written
  <2> QED
    BY <2>1, <2>3, <1>4, LockStep DEF Upload
<1>5. CASE Validate(s, j)
  <2> DEFINE w == mark_processing(jobs[j])
             t == [Idle EXCEPT !.op = "validate", !.pc = "save", !.job = j,
                               !.seen = jobs[j], !.work = w]
  <2>1. w.status = "processing"
    BY <1>2 DEF mark_processing, Row
  <2>2. jobs[j].status # "absent"
    BY <1>2, <1>5 DEF Validate, MayMove, ALLOWED_TRANSITIONS
  <2>3. SlotLocks(s, t)
    BY <2>1, <2>2 DEF SlotLocks, Idle, Unwritten, Written
  <2> QED
    BY <2>3, <1>5, LockStep DEF Validate
<1>6. CASE Cancel(s, j)
  <2> DEFINE w == cancelled(jobs[j])
             t == [Idle EXCEPT !.op = "cancel", !.pc = "save", !.job = j,
                               !.work = w]
  <2>1. w.status = "cancelled" /\ jobs[j].status # "absent"
    BY <1>2, <1>6 DEF cancelled, Row, Cancel
  <2>2. SlotLocks(s, t)
    BY <2>1 DEF SlotLocks, Idle, Unwritten, Written
  <2> QED
    BY <2>2, <1>6, LockStep DEF Cancel
<1>7. CASE \E k \in IdemKey : Commit(s, j, k)
  <2>1. PICK k \in IdemKey : Commit(s, j, k)
    BY <1>7
  <2> DEFINE t == [Idle EXCEPT !.op = "commit", !.pc = "reserve", !.job = j,
                               !.key = k, !.seen = jobs[j]]
  <2>2. jobs[j].status # "absent"
    BY <2>1 DEF Commit, LockInv, RowsExist
  <2>3. SlotLocks(s, t)
    BY <2>2 DEF SlotLocks, Idle, Unwritten, Written
  <2> QED
    BY <2>1, <2>3, LockStep DEF Commit
<1> QED
  BY <1>1, <1>3, <1>4, <1>5, <1>6, <1>7

(* The further steps of a request, the commit of its transaction apart: a  *)
(* flush finds the row unlocked, and a request that has looked its         *)
(* fingerprint up saw every row that others have locked.                   *)
LEMMA ContinueLocks ==
  ASSUME TypeInv, LockInv, NEW s \in Slot, Continue(s), ~CommitTx(s)
  PROVE  LockInv'
<1> USE DEF TypeInv
<1>1. /\ tx[s] \in Tx
      /\ tx[s].seen \in Row
      /\ tx[s].work \in Row
      /\ tx[s].held \in Row
  BY DEF TypeOK, Tx
<1>2. SlotLocks(s, tx[s]) /\ RequestShape
  BY DEF LockInv
<1>3. tx[s].pc # "idle" => tx[s].job \in Job /\ jobs[tx[s].job] \in Row
  BY DEF TypeOK, RequestShape
<1>4. CASE PutObject(s)
  <2> DEFINE t == [tx[s] EXCEPT !.pc = "save"]
  <2>1. tx[s].pc = "put" /\ tx[s].op # "validate"
    BY <1>2, <1>4 DEF PutObject, SlotLocks
  <2>2. SlotLocks(s, t)
    BY <1>1, <1>2, <2>1 DEF SlotLocks, Tx, Unwritten, Written
  <2> QED
    BY <2>2, <1>4, LockStep DEF PutObject, Goto
<1>5. CASE Reserve(s)
  <2> DEFINE w == mark_processing(tx[s].seen)
             t == [tx[s] EXCEPT !.pc = "save", !.reserved = TRUE, !.work = w,
                                !.seen = NoRow]
  <2>1. w.status = "processing"
    BY <1>1 DEF mark_processing, Row
  <2>2. tx[s].pc = "reserve" /\ tx[s].op = "commit"
    BY <1>2, <1>5 DEF Reserve, RequestShape
  <2>3. SlotLocks(s, t)
    BY <1>1, <1>2, <2>1, <2>2 DEF SlotLocks, Tx, Unwritten, Written
  <2> QED
    BY <2>3, <1>5, LockStep DEF Reserve, Reserved
<1>6. CASE Replay(s)
  BY <1>6, IdleLocks, LockStep DEF Replay
<1>7. CASE Save(s)
  <2> DEFINE t == [tx[s] EXCEPT !.cols = Changed(Visible(s), tx[s].work),
                     !.pc = IF tx[s].op \in {"validate", "commit"}
                            THEN "flush" ELSE "done"]
  <2>1. tx[s].pc = "save"
    BY <1>7 DEF Save
  <2>2. SlotLocks(s, t)
    BY <1>1, <1>2, <2>1 DEF SlotLocks, Tx, Unwritten, Written
  <2> QED
    BY <2>2, <1>7, LockStep DEF Save
<1>8. CASE Flush(s)
  <2> DEFINE r == Updated(jobs[tx[s].job], tx[s].work, tx[s].cols)
             t == [tx[s] EXCEPT !.held = r, !.cols = {},
                    !.pc = IF tx[s].op = "validate" THEN "load" ELSE "match"]
  <2>1. /\ tx[s].pc = "flush" /\ tx' = [tx EXCEPT ![s] = t]
        /\ tx[s].op \in {"validate", "commit"}
    BY <1>2, <1>8 DEF Flush, RequestShape
  <2>2. tx[s].job \in Job /\ jobs[tx[s].job] \in Row
    BY <1>3, <2>1
  <2>3. r.status # "absent"
    BY <1>1, <1>2, <2>1, <2>2, UpdatedColumns DEF SlotLocks
  <2>4. r # NoRow
    BY <2>3 DEF NoRow
  <2>5. \A s2 \in Slot \ {s} : tx[s2].held # NoRow => tx[s].job # tx[s2].job
    BY <1>8 DEF Flush, RowLocked
  <2> HIDE DEF r
  <2>6. SlotLocks(s, t)
    BY <1>1, <1>2, <2>1, <2>3, <2>4, <2>5
       DEF SlotLocks, Tx, Unwritten, Written
  <2> QED
    BY <2>1, <2>6, <1>8, LockStep DEF Flush
<1>9. CASE LoadTable(s)
  <2> DEFINE t == [tx[s] EXCEPT
                    !.pc = IF tx[s].op = "validate" THEN "match" ELSE "apply"]
  <2>1. tx[s].pc = "load"
    BY <1>9 DEF LoadTable
  <2>2. SlotLocks(s, t)
    BY <1>1, <1>2, <2>1 DEF SlotLocks, Tx, Unwritten, Written
  <2> QED
    BY <2>2, <1>9, LockStep DEF LoadTable, Goto
<1>10. CASE ReturnExisting(s)
  <2> DEFINE t == [tx[s] EXCEPT !.work = tx[s].seen, !.pc = "done",
                     !.seen = NoRow, !.cols = Changed(tx[s].held, tx[s].seen)]
  <2>1. tx[s].pc = "match" /\ tx[s].op = "validate"
    BY <1>10 DEF ReturnExisting
  <2>2. SlotLocks(s, t)
    BY <1>1, <1>2, <2>1 DEF SlotLocks, Tx, Unwritten, Written
  <2> QED
    BY <2>2, <1>10, LockStep DEF ReturnExisting
<1>11. CASE CheckRows(s)
  <2>1. PICK m \in Mapping, outcome \in {"ready", "invalid"} :
          /\ SameFingerprint(tx[s].job, <<ContentOf[tx[s].job], m>>) = {}
          /\ tx' = [tx EXCEPT ![s] =
                     [@ EXCEPT !.pc = "write", !.seen = NoRow,
                        !.work = mark_validated(tx[s].work, outcome,
                                   <<ContentOf[tx[s].job], m>>)]]
    BY <1>11 DEF CheckRows
  <2> DEFINE fp == <<ContentOf[tx[s].job], m>>
             w == mark_validated(tx[s].work, outcome, fp)
             t == [tx[s] EXCEPT !.pc = "write", !.seen = NoRow, !.work = w]
  <2>2. w.status # "absent" /\ w.fingerprint = fp
    BY <1>1 DEF mark_validated, Row
  <2>3. tx[s].pc = "match" /\ tx[s].op = "validate" /\ tx[s].held # NoRow
    BY <1>2, <1>11 DEF CheckRows, SlotLocks, Written
  <2>4. \A i \in Job \ {tx[s].job} : ~Clash(w, jobs[i])
    BY <2>1, <2>2 DEF SameFingerprint, Clash
  <2>5. ASSUME NEW s2 \in Slot \ {s}, tx[s2].pc = "write"
        PROVE  ~Clash(w, jobs[tx[s2].job])
    <3>1. SlotLocks(s2, tx[s2]) /\ tx[s2].job \in Job
      BY <1>2, <2>5 DEF LockInv, RequestShape
    <3>2. tx[s2].held # NoRow /\ tx[s2].job # tx[s].job
      BY <1>2, <2>3, <2>5, <3>1 DEF SlotLocks, Written
    <3> QED
      BY <2>4, <3>1, <3>2
  <2> HIDE DEF w
  <2>6. SlotLocks(s, t)
    BY <1>1, <1>2, <2>2, <2>3, <2>5 DEF SlotLocks, Tx, Unwritten, Written
  <2> QED
    BY <2>1, <2>6, <1>11, LockStep DEF CheckRows, w
<1>12. CASE WriteValidated(s)
  <2> DEFINE t == [tx[s] EXCEPT !.held = tx[s].work, !.pc = "done"]
  <2>1. tx[s].pc = "write" /\ tx[s].held # NoRow
    BY <1>2, <1>12 DEF WriteValidated, SlotLocks, Written
  <2>2. SlotLocks(s, t)
    BY <1>1, <1>2, <2>1 DEF SlotLocks, Tx, Unwritten, Written
  <2> QED
    BY <2>2, <1>12, LockStep DEF WriteValidated
<1>13. CASE MatchNone(s)
  <2> DEFINE t == [tx[s] EXCEPT !.pc = "load"]
  <2>1. tx[s].pc = "match" /\ tx[s].op = "commit"
    BY <1>13 DEF MatchNone
  <2>2. SlotLocks(s, t)
    BY <1>1, <1>2, <2>1 DEF SlotLocks, Tx, Unwritten, Written
  <2> QED
    BY <2>2, <1>13, LockStep DEF MatchNone, Goto
<1>14. CASE MatchApplied(s)
  <2> DEFINE t == [tx[s] EXCEPT !.pc = "done"]
  <2>1. tx[s].pc = "match" /\ tx[s].op = "commit"
    BY <1>14 DEF MatchApplied
  <2>2. SlotLocks(s, t)
    BY <1>1, <1>2, <2>1 DEF SlotLocks, Tx, Unwritten, Written
  <2> QED
    BY <2>2, <1>14, LockStep DEF MatchApplied, Goto
<1>15. CASE Apply(s)
  <2> DEFINE w == mark_applied(tx[s].work)
             t == [tx[s] EXCEPT !.work = w, !.adds = TRUE,
                                !.cols = Changed(tx[s].held, w),
                                !.pc = "done"]
  <2>1. w.status = "applied"
    BY <1>1 DEF mark_applied, Row
  <2>2. tx[s].pc = "apply" /\ tx[s].op = "commit"
    BY <1>2, <1>15 DEF Apply, RequestShape
  <2>3. SlotLocks(s, t)
    BY <1>1, <1>2, <2>1, <2>2 DEF SlotLocks, Tx, Unwritten, Written
  <2> QED
    BY <2>3, <1>15, LockStep DEF Apply
<1> QED
  BY <1>4, <1>5, <1>6, <1>7, <1>8, <1>9, <1>10, <1>11, <1>12, <1>13, <1>14,
     <1>15 DEF Continue

(* COMMIT of a request unlocks its row; nobody else has one of that job.   *)
LEMMA CommitTxLocks ==
  ASSUME TypeInv, LockInv, NEW s \in Slot, CommitTx(s)
  PROVE  LockInv'
<1> USE DEF TypeInv
<1> DEFINE j == tx[s].job
           row == Updated(Visible(s), tx[s].work, tx[s].cols)
<1>1. /\ tx[s].pc = "done"
      /\ tx' = [tx EXCEPT ![s] = Idle]
      /\ sweep' = sweep
      /\ \/ jobs' = jobs
         \/ /\ jobs' = [jobs EXCEPT ![j] = row]
            /\ ~RowLocked(s, j)
  BY DEF CommitTx
<1>2. /\ tx'[s] = Idle /\ \A s2 \in Slot \ {s} : tx'[s2] = tx[s2]
      /\ tx[s].work \in Row /\ tx[s].held \in Row
      /\ j \in Job /\ jobs[j] \in Row
      /\ jobs \in [Job -> Row]
  BY <1>1 DEF TypeOK, Tx, RequestShape
<1>3. row.status # "absent"
  <2>1. SlotLocks(s, tx[s])
    BY DEF LockInv
  <2>2. tx[s].work.status # "absent"
    BY <1>1, <2>1 DEF SlotLocks
  <2>3. CASE tx[s].op = "create"
    BY <1>1, <2>1, <2>2, <2>3 DEF SlotLocks, Updated, Column
  <2>4. CASE tx[s].op # "create"
    <3>1. tx[s].op # "none"
      BY <1>1, <2>1, <2>4 DEF SlotLocks
    <3>2. Visible(s) \in Row /\ Visible(s).status # "absent"
      BY <1>2, <2>1, <2>4, <3>1 DEF Visible, SlotLocks
    <3> QED
      BY <1>2, <2>2, <3>2, UpdatedColumns
  <2> QED
    BY <2>3, <2>4
<1> HIDE DEF row
<1>4. \A i \in Job : \/ jobs'[i] = jobs[i]
                     \/ /\ jobs'[i].status # "absent"
                        /\ i = j /\ ~RowLocked(s, j)
  BY <1>1, <1>2, <1>3
<1>5. RowsExist'
  BY <1>1, <1>2, <1>4 DEF LockInv, RowsExist, TypeOK, SweepState
<1>6. ASSUME NEW s2 \in Slot \ {s}
      PROVE  SlotLocks(s2, tx[s2])'
  <2>1. SlotLocks(s2, tx[s2])
    BY DEF LockInv
  <2>2. tx[s2].op \notin {"none", "create"} => jobs'[tx[s2].job].status # "absent"
    <3>1. CASE tx[s2].pc = "idle"
      BY <3>1 DEF RequestShape, Idle
    <3>2. CASE tx[s2].pc # "idle"
      BY <1>4, <2>1, <3>2 DEF RequestShape, SlotLocks
    <3> QED
      BY <3>1, <3>2
  <2>3. ASSUME NEW s3 \in Slot \ {s2},
               tx[s2].pc = "write", tx'[s3].pc = "write"
        PROVE  ~(/\ Clash(tx[s2].work, jobs'[tx'[s3].job])
                 /\ Clash(tx'[s3].work, jobs'[tx[s2].job]))
    <3>1. s3 # s /\ tx'[s3] = tx[s3]
      BY <1>2, <2>3 DEF Idle
    <3>2. /\ tx[s2].held # NoRow /\ tx[s3].held # NoRow
          /\ tx[s2].job \in Job /\ tx[s3].job \in Job
      BY <2>3, <3>1 DEF LockInv, SlotLocks, Written, RequestShape
    <3>3. jobs'[tx[s2].job] = jobs[tx[s2].job] /\ jobs'[tx[s3].job] = jobs[tx[s3].job]
      BY <1>4, <3>1, <3>2 DEF RowLocked
    <3> QED
      BY <2>1, <2>3, <3>1, <3>3 DEF SlotLocks
  <2>4. \A s3 \in Slot \ {s2} :
          tx[s2].held # NoRow /\ tx'[s3].held # NoRow
            => tx[s2].job # tx'[s3].job
    BY <1>2, <2>1 DEF SlotLocks, Idle
  <2>5. tx'[s2] = tx[s2]
    BY <1>2
  <2> QED
    BY <2>1, <2>2, <2>3, <2>4, <2>5 DEF SlotLocks, Clash, Indexed
<1>7. SlotLocks(s, Idle)'
  BY DEF SlotLocks, Idle, Unwritten, Written
<1> QED
  BY <1>2, <1>5, <1>6, <1>7 DEF LockInv

(* So does COMMIT of a sweep, which waits for the rows that are locked.    *)
LEMMA SweepCommitLocks ==
  ASSUME TypeInv, LockInv, SweepCommit
  PROVE  LockInv'
<1> USE DEF TypeInv
<1>1. /\ sweep' = NoSweep
      /\ UNCHANGED tx
      /\ \A j \in Job :
           jobs'[j] = IF j \in sweep.saved
                      THEN Updated(jobs[j], Swept(j), sweep.cols[j])
                      ELSE jobs[j]
      /\ \A j \in sweep.saved, s \in Slot :
           tx[s].held # NoRow => tx[s].job # j
  BY DEF SweepCommit
<1>2. ASSUME NEW j \in sweep.saved
      PROVE  /\ j \in Job /\ jobs[j].status # "absent"
             /\ jobs'[j].status # "absent"
  <2>1. j \in Job /\ jobs[j] \in Row /\ sweep.seen[j] \in Row
    BY DEF TypeOK, SweepState
  <2>2. jobs[j].status # "absent" /\ sweep.seen[j].status # "absent"
    BY DEF LockInv, RowsExist
  <2>3. Swept(j) \in Row /\ Swept(j).status # "absent"
    BY <2>1, <2>2, RowTypes DEF Swept, clear_object_key, mark_timed_out, Row
  <2> QED
    BY <1>1, <2>1, <2>2, <2>3, UpdatedColumns
<1>3. \A j \in Job : \/ jobs'[j] = jobs[j]
                     \/ j \in sweep.saved /\ jobs'[j].status # "absent"
  BY <1>1, <1>2
<1>4. RowsExist'
  BY <1>1, <1>3 DEF LockInv, RowsExist, NoSweep
<1>5. ASSUME NEW s \in Slot
      PROVE  SlotLocks(s, tx[s])'
  <2>1. SlotLocks(s, tx[s])
    BY DEF LockInv
  <2>2. tx[s].op \notin {"none", "create"} => jobs'[tx[s].job].status # "absent"
    <3>1. CASE tx[s].pc = "idle"
      BY <3>1 DEF RequestShape, Idle
    <3>2. CASE tx[s].pc # "idle"
      BY <1>3, <2>1, <3>2 DEF RequestShape, SlotLocks
    <3> QED
      BY <3>1, <3>2
  <2>3. ASSUME NEW s3 \in Slot \ {s}, tx[s].pc = "write", tx[s3].pc = "write"
        PROVE  ~(/\ Clash(tx[s].work, jobs'[tx[s3].job])
                 /\ Clash(tx[s3].work, jobs'[tx[s].job]))
    <3>1. /\ tx[s].held # NoRow /\ tx[s3].held # NoRow
          /\ tx[s].job \in Job /\ tx[s3].job \in Job
      BY <2>3 DEF LockInv, SlotLocks, Written, RequestShape
    <3>2. jobs'[tx[s].job] = jobs[tx[s].job] /\ jobs'[tx[s3].job] = jobs[tx[s3].job]
      BY <1>1, <1>3, <3>1
    <3> QED
      BY <2>1, <2>3, <3>2 DEF SlotLocks
  <2> QED
    BY <1>1, <2>1, <2>2, <2>3 DEF SlotLocks, Clash, Indexed
<1> QED
  BY <1>1, <1>4, <1>5 DEF LockInv

(* A sweep may list, write and drop its own copies of existing jobs.       *)
LEMMA SweepCopiesLocks ==
  ASSUME LockInv, UNCHANGED <<jobs, tx>>, RowsExist'
  PROVE  LockInv'
BY DEF LockInv, SlotLocks, Clash, Indexed

(* Every step of a sweep keeps the locks.                                  *)
LEMMA SweepLocks ==
  ASSUME TypeInv, LockInv, Sweep
  PROVE  LockInv'
<1>1. sweep \in SweepState
  BY DEF TypeInv, TypeOK
<1>2. ASSUME NEW kind, NEW S \in SUBSET Job, StartSweep(kind, S),
             \A j \in S : jobs[j].status # "absent"
      PROVE  LockInv'
  <2>1. /\ sweep'.todo = S /\ sweep'.saved = {}
        /\ \A j \in S : sweep'.seen[j] = jobs[j]
    BY <1>2 DEF StartSweep, NoSweep
  <2>2. RowsExist'
    BY <1>2, <2>1 DEF LockInv, RowsExist, StartSweep
  <2> QED
    BY <1>2, <2>2, SweepCopiesLocks DEF StartSweep
<1>3. CASE ListStale
  BY <1>2, <1>3 DEF ListStale, StaleProcessing
<1>4. CASE ListExpired
  BY <1>2, <1>4 DEF ListExpired, ExpiredOriginals
<1>5. ASSUME NEW j \in Job, SweepJob(j) PROVE LockInv'
  <2>1. /\ sweep'.seen = sweep.seen
        /\ sweep'.todo \cup sweep'.saved = sweep.todo \cup sweep.saved
    BY <1>1, <1>5 DEF SweepJob, SweepState
  <2>2. RowsExist'
    BY <1>5, <2>1 DEF LockInv, RowsExist, SweepJob
  <2> QED
    BY <1>5, <2>2, SweepCopiesLocks DEF SweepJob
<1>6. CASE SweepCommit
  BY <1>6, SweepCommitLocks
<1>7. CASE SweepAbort
  <2>1. RowsExist'
    BY <1>7 DEF LockInv, RowsExist, SweepAbort, NoSweep
  <2> QED
    BY <1>7, <2>1, SweepCopiesLocks DEF SweepAbort
<1> QED
  BY <1>3, <1>4, <1>5, <1>6, <1>7 DEF Sweep, TimeoutSweep

(* The locks hold initially.                                               *)
LEMMA InitLocks == Init => LockInv
BY IdleLocks DEF Init, LockInv, RowsExist, NoSweep, NoRow

(* They are kept by every step.                                            *)
LEMMA NextLocks == TypeInv /\ LockInv /\ [Next]_vars => LockInv'
<1> SUFFICES ASSUME TypeInv, LockInv, [Next]_vars PROVE LockInv'
  OBVIOUS
<1>1. ASSUME NEW s \in Slot, Begin(s) PROVE LockInv'
  BY <1>1, BeginLocks
<1>2. ASSUME NEW s \in Slot, Continue(s) PROVE LockInv'
  BY <1>2, ContinueLocks, CommitTxLocks
<1>3. ASSUME NEW s \in Slot, Rollback(s) PROVE LockInv'
  BY <1>3, IdleLocks, LockStep DEF Rollback, TypeInv
<1>4. ASSUME Sweep PROVE LockInv'
  BY <1>4, SweepLocks
<1>5. ASSUME NEW v \in Version, CloseVersion(v) PROVE LockInv'
  BY <1>5, SweepCopiesLocks DEF CloseVersion, LockInv, RowsExist
<1>6. ASSUME UNCHANGED vars PROVE LockInv'
  BY <1>6, SweepCopiesLocks DEF vars, LockInv, RowsExist
<1> QED
  BY <1>1, <1>2, <1>3, <1>4, <1>5, <1>6 DEF Next

(* What slot s writes next clashes with nothing of the others once its     *)
(* index entry is the one of the committed row.                            *)
LEMMA CommittedEntryIsFree ==
  ASSUME DataInv, NEW s1 \in Slot, NEW s2 \in Slot, NEW row,
         tx[s1].job \in Job, tx[s2].job \in Job, tx[s1].job # tx[s2].job,
         Clash(row, jobs[tx[s1].job])
  PROVE  /\ ~Clash(row, tx[s2].held)
         /\ ~Clash(row, jobs[tx[s2].job])
<1>1. ~Clash(tx[s2].held, jobs[tx[s1].job])
  BY DEF DataInv, IndexUnique
<1>2. ~Clash(jobs[tx[s1].job], jobs[tx[s2].job])
  BY DEF DataInv, IndexUnique, LiveFingerprintUnique
<1> QED
  BY <1>1, <1>2 DEF Clash

(* A request that waits for a row it needs holds one itself when another   *)
(* waits for it: it is about to write its validation or to commit.         *)
LEMMA MutualWaitersHoldRows ==
  ASSUME TypeInv, LockInv, NEW s1 \in Slot, NEW s2 \in Slot,
         WaitsFor(s1, s2), WaitsFor(s2, s1)
  PROVE  /\ tx[s1].pc \in {"write", "done"}
         /\ tx[s1].held # NoRow
         /\ tx[s2].held # NoRow
         /\ tx[s1].job \in Job /\ tx[s2].job \in Job
         /\ tx[s1].job # tx[s2].job
<1>1. /\ SlotLocks(s1, tx[s1]) /\ SlotLocks(s2, tx[s2])
      /\ s1 # s2
  BY DEF LockInv, WaitsFor
<1>2. /\ tx[s1].reserved => tx[s1].pc # "reserve"
      /\ tx[s2].reserved => tx[s2].pc # "reserve"
  BY DEF TypeInv, RequestShape
<1>3. /\ tx[s1].pc = "reserve" => tx[s1].held = NoRow
      /\ tx[s2].pc = "reserve" => tx[s2].held = NoRow
      /\ tx[s1].pc = "flush" => tx[s1].held = NoRow
  BY <1>1 DEF SlotLocks, Unwritten
<1>4. tx[s1].pc # "reserve" /\ tx[s2].pc # "reserve"
  BY <1>2, <1>3 DEF WaitsFor
<1>5. tx[s1].held # NoRow /\ tx[s2].held # NoRow
  BY <1>4 DEF WaitsFor
<1>6. tx[s1].pc \in {"write", "done"}
  BY <1>3, <1>4, <1>5 DEF WaitsFor
<1>7. tx[s1].pc # "idle" /\ tx[s2].pc # "idle"
  BY <1>1, <1>5 DEF SlotLocks, Unwritten
<1> QED
  BY <1>1, <1>5, <1>6, <1>7 DEF SlotLocks, TypeInv, RequestShape

(* The invariants leave mutual waits to stale copies only.                 *)
LEMMA LocksOrderWaits ==
  TypeInv /\ DataInv /\ LockInv => MutualWaitNeedsStaleCopy
<1> DEFINE Back(s) == /\ Indexed(Pending(s))
                      /\ ~Clash(Pending(s), jobs[tx[s].job])
<1> SUFFICES ASSUME TypeInv, DataInv, LockInv,
                    NEW s1 \in Slot, NEW s2 \in Slot,
                    WaitsFor(s1, s2), WaitsFor(s2, s1),
                    ~Back(s1), ~Back(s2)
             PROVE  FALSE
  BY DEF MutualWaitNeedsStaleCopy
<1>1. /\ tx[s1].pc \in {"write", "done"} /\ tx[s2].pc \in {"write", "done"}
      /\ tx[s1].held # NoRow /\ tx[s2].held # NoRow
      /\ tx[s1].job \in Job /\ tx[s2].job \in Job
      /\ tx[s1].job # tx[s2].job
  BY MutualWaitersHoldRows
<1>2. ASSUME NEW sa \in Slot, NEW sb \in Slot, WaitsFor(sa, sb), ~Back(sa),
             tx[sa].pc = "done", tx[sa].held # NoRow,
             tx[sa].job \in Job, tx[sb].job \in Job, tx[sa].job # tx[sb].job
      PROVE  FALSE
  <2>1. \/ Clash(Pending(sa), tx[sb].held)
        \/ Clash(Pending(sa), jobs[tx[sb].job])
    BY <1>2 DEF WaitsFor, Pending
  <2>2. Clash(Pending(sa), jobs[tx[sa].job])
    BY <1>2, <2>1 DEF Clash
  <2> QED
    BY <1>2, <2>1, <2>2, CommittedEntryIsFree
<1>3. tx[s1].pc = "write" /\ tx[s2].pc = "write"
  BY <1>1, <1>2
<1>4. ASSUME NEW sa \in Slot, NEW sb \in Slot, WaitsFor(sa, sb), ~Back(sb),
             tx[sa].pc = "write", tx[sb].pc = "write",
             tx[sa].job # tx[sb].job
      PROVE  Clash(tx[sa].work, jobs[tx[sb].job])
  <2>1. \/ Clash(tx[sa].work, tx[sb].held)
        \/ Clash(tx[sa].work, jobs[tx[sb].job])
    BY <1>4 DEF WaitsFor
  <2>2. Indexed(tx[sb].held) => Clash(tx[sb].held, jobs[tx[sb].job])
    BY <1>4 DEF Pending
  <2> QED
    BY <2>1, <2>2 DEF Clash
<1>5. /\ Clash(tx[s1].work, jobs[tx[s2].job])
      /\ Clash(tx[s2].work, jobs[tx[s1].job])
  BY <1>1, <1>3, <1>4
<1>6. SlotLocks(s1, tx[s1]) /\ s1 # s2
  BY <1>1 DEF LockInv
<1> QED
  BY <1>3, <1>5, <1>6 DEF SlotLocks

(* However many requests and sweeps interleave, two requests wait for each *)
(* other only when one writes back an index entry from a stale copy.       *)
THEOREM MutualWaitsNeedStaleCopies == Spec => []MutualWaitNeedsStaleCopy
<1>1. Spec => [](TypeInv /\ LockInv)
  <2>1. Init => TypeInv /\ LockInv
    BY InitTypeInv, InitLocks
  <2>2. (TypeInv /\ LockInv) /\ [Next]_vars => (TypeInv /\ LockInv)'
    BY NextTypeInv, NextLocks
  <2> QED
    BY <2>1, <2>2, PTL DEF Spec
<1>2. IInv => DataInv
  BY DEF IInv, DataInv
<1> QED
  BY <1>1, <1>2, Invariance, LocksOrderWaits, PTL

-----------------------------------------------------------------------------
(* The object key of an updated row comes from the row or from the object. *)
LEMMA UpdatedKey ==
  ASSUME NEW row, NEW job, NEW cols
  PROVE  Updated(row, job, cols).object_key \in {row.object_key, job.object_key}
BY DEF Updated

(* The domain object's methods keep the key, unless given or clearing one. *)
LEMMA CopiesKeepKey ==
  ASSUME NEW job \in Row
  PROVE  /\ mark_processing(job).object_key = job.object_key
         /\ mark_applied(job).object_key = job.object_key
         /\ mark_timed_out(job).object_key = job.object_key
         /\ cancelled(job).object_key = job.object_key
         /\ clear_object_key(job).object_key = None
         /\ \A outcome, fp :
              mark_validated(job, outcome, fp).object_key = job.object_key
         /\ \A key : mark_uploaded(job, key).object_key = key
BY DEF Row, mark_processing, mark_applied, mark_timed_out, cancelled,
       clear_object_key, mark_validated, mark_uploaded

(* Jobs that gain no key share none.                                       *)
LEMMA NoNewKeys ==
  ASSUME KeysApart, \A i \in Job : KeysOf(i)' \subseteq KeysOf(i)
  PROVE  KeysApart'
BY DEF KeysApart

(* A step of slot s whose copies point where copies of its job pointed     *)
(* before brings no key.                                                   *)
LEMMA KeysStep ==
  ASSUME TypeOK, KeysApart, NEW s \in Slot, NEW t,
         tx' = [tx EXCEPT ![s] = t], UNCHANGED <<jobs, sweep>>,
         t.job \in Job =>
           {t.seen.object_key, t.work.object_key, t.held.object_key}
             \cap ObjectKey \subseteq KeysOf(t.job)
  PROVE  KeysApart'
<1>1. tx'[s] = t /\ \A s2 \in Slot \ {s} : tx'[s2] = tx[s2]
  BY DEF TypeOK
<1>2. ASSUME NEW i \in Job, NEW key \in KeysOf(i)'
      PROVE  key \in KeysOf(i)
  <2>1. key \in ObjectKey
    BY <1>2 DEF KeysOf
  <2>2. CASE key \in {jobs[i].object_key, sweep.seen[i].object_key}
    BY <2>1, <2>2 DEF KeysOf
  <2>3. CASE \E s2 \in Slot \ {s} : /\ tx[s2].job = i
                                   /\ key \in {tx[s2].seen.object_key,
                                               tx[s2].work.object_key,
                                               tx[s2].held.object_key}
    BY <2>1, <2>3 DEF KeysOf
  <2>4. CASE /\ t.job = i
             /\ key \in {t.seen.object_key, t.work.object_key,
                         t.held.object_key}
    BY <2>1, <2>4
  <2> QED
    BY <1>1, <1>2, <2>2, <2>3, <2>4 DEF KeysOf
<1> QED
  BY <1>2, NoNewKeys

(* The keys a job's row, its swept copy and its requests' copies have.     *)
LEMMA OwnKeys ==
  ASSUME NEW j \in Job
  PROVE  /\ {jobs[j].object_key, sweep.seen[j].object_key} \cap ObjectKey
              \subseteq KeysOf(j)
         /\ \A s \in Slot :
              tx[s].job = j => {tx[s].seen.object_key, tx[s].work.object_key,
                                tx[s].held.object_key} \cap ObjectKey
                                 \subseteq KeysOf(j)
BY DEF KeysOf

(* An absent row points to no object.                                      *)
LEMMA NoRowKey == NoRow.object_key = None /\ None \notin ObjectKey
BY ConstantsAssumption DEF NoRow

(* Starting a request makes one key at most, and a fresh one.              *)
LEMMA BeginKeys ==
  ASSUME TypeInv, KeysApart, NEW s \in Slot, Begin(s)
  PROVE  KeysApart'
<1> USE DEF TypeInv
<1>1. PICK j \in Job : \/ Create(s, j) \/ Upload(s, j) \/ Validate(s, j)
                       \/ Cancel(s, j) \/ \E k \in IdemKey : Commit(s, j, k)
  BY DEF Begin
<1>2. jobs[j] \in Row
  BY DEF TypeOK
<1>3. CASE Create(s, j)
  <2> DEFINE t == [Idle EXCEPT !.op = "create", !.pc = "done", !.job = j,
                               !.cols = Column, !.work.status = "created"]
  <2>1. /\ t.job = j /\ t.seen.object_key = None
        /\ t.work.object_key = None /\ t.held.object_key = None
    BY DEF Idle, NoRow
  <2>2. tx' = [tx EXCEPT ![s] = t] /\ UNCHANGED <<jobs, sweep>>
    BY <1>3 DEF Create
  <2> HIDE DEF t
  <2> QED
    BY <2>1, <2>2, NoRowKey, KeysStep
<1>4. CASE Upload(s, j)
  <2>1. PICK key \in ObjectKey :
          /\ IF jobs[j].object_key = None THEN FreshKey(key)
                                          ELSE key = jobs[j].object_key
          /\ tx' = [tx EXCEPT ![s] =
                     [Idle EXCEPT !.op = "upload", !.pc = "put", !.job = j,
                                  !.work = mark_uploaded(jobs[j], key)]]
    BY <1>4 DEF Upload
  <2> DEFINE t == [Idle EXCEPT !.op = "upload", !.pc = "put", !.job = j,
                               !.work = mark_uploaded(jobs[j], key)]
  <2>2. /\ t.job = j /\ t.seen.object_key = None
        /\ t.work.object_key = key /\ t.held.object_key = None
    BY <1>2, CopiesKeepKey DEF Idle, NoRow
  <2>3. tx' = [tx EXCEPT ![s] = t] /\ UNCHANGED <<jobs, sweep>>
    BY <1>4, <2>1 DEF Upload
  <2> HIDE DEF t
  <2>4. CASE key = jobs[j].object_key
    BY <2>2, <2>3, <2>4, NoRowKey, OwnKeys, KeysStep
  <2>5. CASE FreshKey(key)
    <3>1. \A i \in Job : key \notin KeysOf(i)
      BY <2>5 DEF FreshKey, KeysOf
    <3>2. tx'[s] = t /\ \A s2 \in Slot \ {s} : tx'[s2] = tx[s2]
      BY <2>3 DEF TypeOK
    <3>3. \A i \in Job \ {j} : KeysOf(i)' \subseteq KeysOf(i)
      BY <2>2, <2>3, <3>2 DEF KeysOf
    <3>4. KeysOf(j)' \subseteq KeysOf(j) \cup {key}
      BY <2>2, <2>3, <3>2, NoRowKey DEF KeysOf
    <3> QED
      BY <3>1, <3>3, <3>4 DEF KeysApart
  <2> QED
    BY <2>1, <2>4, <2>5
<1>5. CASE Validate(s, j)
  <2> DEFINE t == [Idle EXCEPT !.op = "validate", !.pc = "save", !.job = j,
                               !.seen = jobs[j],
                               !.work = mark_processing(jobs[j])]
  <2>1. /\ t.job = j /\ t.seen.object_key = jobs[j].object_key
        /\ t.work.object_key = jobs[j].object_key
        /\ t.held.object_key = None
    BY <1>2, CopiesKeepKey DEF Idle, NoRow
  <2>2. tx' = [tx EXCEPT ![s] = t] /\ UNCHANGED <<jobs, sweep>>
    BY <1>5 DEF Validate
  <2> HIDE DEF t
  <2> QED
    BY <2>1, <2>2, NoRowKey, OwnKeys, KeysStep
<1>6. CASE Cancel(s, j)
  <2> DEFINE t == [Idle EXCEPT !.op = "cancel", !.pc = "save", !.job = j,
                               !.work = cancelled(jobs[j])]
  <2>1. /\ t.job = j /\ t.seen.object_key = None
        /\ t.work.object_key = jobs[j].object_key
        /\ t.held.object_key = None
    BY <1>2, CopiesKeepKey DEF Idle, NoRow
  <2>2. tx' = [tx EXCEPT ![s] = t] /\ UNCHANGED <<jobs, sweep>>
    BY <1>6 DEF Cancel
  <2> HIDE DEF t
  <2> QED
    BY <2>1, <2>2, NoRowKey, OwnKeys, KeysStep
<1>7. CASE \E k \in IdemKey : Commit(s, j, k)
  <2>1. PICK k \in IdemKey : Commit(s, j, k)
    BY <1>7
  <2> DEFINE t == [Idle EXCEPT !.op = "commit", !.pc = "reserve", !.job = j,
                               !.key = k, !.seen = jobs[j]]
  <2>2. /\ t.job = j /\ t.seen.object_key = jobs[j].object_key
        /\ t.work.object_key = None /\ t.held.object_key = None
    BY DEF Idle, NoRow
  <2>3. tx' = [tx EXCEPT ![s] = t] /\ UNCHANGED <<jobs, sweep>>
    BY <2>1 DEF Commit
  <2> HIDE DEF t
  <2> QED
    BY <2>2, <2>3, NoRowKey, OwnKeys, KeysStep
<1> QED
  BY <1>1, <1>3, <1>4, <1>5, <1>6, <1>7

(* The further steps of a request copy keys of its own job.                *)
LEMMA ContinueKeys ==
  ASSUME TypeInv, KeysApart, NEW s \in Slot, Continue(s), ~CommitTx(s)
  PROVE  KeysApart'
<1> USE DEF TypeInv
<1> DEFINE j == tx[s].job
           Own == {key \in ObjectKey : j \in Job => key \in KeysOf(j)}
<1>1. /\ tx[s] \in Tx
      /\ tx[s].seen \in Row
      /\ tx[s].work \in Row
      /\ tx[s].held \in Row
  BY DEF TypeOK, Tx
<1>2. tx[s].pc # "idle" => j \in Job /\ jobs[j] \in Row
  BY DEF TypeOK, RequestShape
<1>3. /\ {tx[s].seen.object_key, tx[s].work.object_key,
          tx[s].held.object_key} \cap ObjectKey \subseteq Own
      /\ j \in Job => {jobs[j].object_key} \cap ObjectKey \subseteq Own
  BY OwnKeys
<1>4. ASSUME NEW t, tx' = [tx EXCEPT ![s] = t], UNCHANGED <<jobs, sweep>>,
             t.job = j,
             {t.seen.object_key, t.work.object_key, t.held.object_key}
               \cap ObjectKey \subseteq Own
      PROVE  KeysApart'
  BY <1>4, KeysStep
<1> HIDE DEF Own
<1>5. CASE PutObject(s)
  <2> DEFINE t == [tx[s] EXCEPT !.pc = "save"]
  <2>1. /\ t.job = j /\ t.seen = tx[s].seen
        /\ t.work = tx[s].work /\ t.held = tx[s].held
    BY <1>1 DEF Tx
  <2>2. tx' = [tx EXCEPT ![s] = t] /\ UNCHANGED <<jobs, sweep>>
    BY <1>5 DEF PutObject, Goto
  <2> HIDE DEF t
  <2> QED
    BY <2>1, <2>2, <1>3, <1>4
<1>6. CASE Reserve(s)
  <2> DEFINE t == [tx[s] EXCEPT !.pc = "save", !.reserved = TRUE,
                                !.work = mark_processing(tx[s].seen),
                                !.seen = NoRow]
  <2>1. /\ t.job = j /\ t.seen.object_key = None
        /\ t.work.object_key = tx[s].seen.object_key /\ t.held = tx[s].held
    BY <1>1, CopiesKeepKey DEF Tx, NoRow
  <2>2. tx' = [tx EXCEPT ![s] = t] /\ UNCHANGED <<jobs, sweep>>
    BY <1>6 DEF Reserve, Reserved
  <2> HIDE DEF t
  <2> QED
    BY <2>1, <2>2, <1>3, <1>4, NoRowKey
<1>7. CASE Replay(s)
  <2>1. Idle.job \notin Job
    BY ConstantsAssumption DEF Idle
  <2> QED
    BY <1>7, <2>1, KeysStep DEF Replay
<1>8. CASE Save(s)
  <2> DEFINE t == [tx[s] EXCEPT !.cols = Changed(Visible(s), tx[s].work),
                     !.pc = IF tx[s].op \in {"validate", "commit"}
                            THEN "flush" ELSE "done"]
  <2>1. /\ t.job = j /\ t.seen = tx[s].seen
        /\ t.work = tx[s].work /\ t.held = tx[s].held
    BY <1>1 DEF Tx
  <2>2. tx' = [tx EXCEPT ![s] = t] /\ UNCHANGED <<jobs, sweep>>
    BY <1>8 DEF Save
  <2> HIDE DEF t
  <2> QED
    BY <2>1, <2>2, <1>3, <1>4
<1>9. CASE Flush(s)
  <2> DEFINE r == Updated(jobs[tx[s].job], tx[s].work, tx[s].cols)
             t == [tx[s] EXCEPT !.held = r, !.cols = {},
                    !.pc = IF tx[s].op = "validate" THEN "load" ELSE "match"]
  <2>1. r.object_key \in {jobs[j].object_key, tx[s].work.object_key}
    BY UpdatedKey
  <2>2. /\ t.job = j /\ t.seen = tx[s].seen
        /\ t.work = tx[s].work /\ t.held = r
    BY <1>1 DEF Tx
  <2>3. tx' = [tx EXCEPT ![s] = t] /\ UNCHANGED <<jobs, sweep>> /\ j \in Job
    BY <1>2, <1>9 DEF Flush
  <2> HIDE DEF t, r
  <2> QED
    BY <2>1, <2>2, <2>3, <1>3, <1>4
<1>10. CASE LoadTable(s)
  <2> DEFINE t == [tx[s] EXCEPT
                    !.pc = IF tx[s].op = "validate" THEN "match" ELSE "apply"]
  <2>1. /\ t.job = j /\ t.seen = tx[s].seen
        /\ t.work = tx[s].work /\ t.held = tx[s].held
    BY <1>1 DEF Tx
  <2>2. tx' = [tx EXCEPT ![s] = t] /\ UNCHANGED <<jobs, sweep>>
    BY <1>10 DEF LoadTable, Goto
  <2> HIDE DEF t
  <2> QED
    BY <2>1, <2>2, <1>3, <1>4
<1>11. CASE ReturnExisting(s)
  <2> DEFINE t == [tx[s] EXCEPT !.work = tx[s].seen, !.pc = "done",
                     !.seen = NoRow, !.cols = Changed(tx[s].held, tx[s].seen)]
  <2>1. /\ t.job = j /\ t.seen.object_key = None
        /\ t.work = tx[s].seen /\ t.held = tx[s].held
    BY <1>1 DEF Tx, NoRow
  <2>2. tx' = [tx EXCEPT ![s] = t] /\ UNCHANGED <<jobs, sweep>>
    BY <1>11 DEF ReturnExisting
  <2> HIDE DEF t
  <2> QED
    BY <2>1, <2>2, <1>3, <1>4, NoRowKey
<1>12. CASE CheckRows(s)
  <2>1. PICK m \in Mapping, outcome \in {"ready", "invalid"} :
          tx' = [tx EXCEPT ![s] =
                  [@ EXCEPT !.pc = "write", !.seen = NoRow,
                     !.work = mark_validated(tx[s].work, outcome,
                                <<ContentOf[tx[s].job], m>>)]]
    BY <1>12 DEF CheckRows
  <2> DEFINE t == [tx[s] EXCEPT !.pc = "write", !.seen = NoRow,
                     !.work = mark_validated(tx[s].work, outcome,
                                <<ContentOf[tx[s].job], m>>)]
  <2>2. /\ t.job = j /\ t.seen.object_key = None
        /\ t.work.object_key = tx[s].work.object_key /\ t.held = tx[s].held
    BY <1>1, CopiesKeepKey DEF Tx, NoRow
  <2>3. tx' = [tx EXCEPT ![s] = t] /\ UNCHANGED <<jobs, sweep>>
    BY <1>12, <2>1 DEF CheckRows
  <2> HIDE DEF t
  <2> QED
    BY <2>2, <2>3, <1>3, <1>4, NoRowKey
<1>13. CASE WriteValidated(s)
  <2> DEFINE t == [tx[s] EXCEPT !.held = tx[s].work, !.pc = "done"]
  <2>1. /\ t.job = j /\ t.seen = tx[s].seen
        /\ t.work = tx[s].work /\ t.held = tx[s].work
    BY <1>1 DEF Tx
  <2>2. tx' = [tx EXCEPT ![s] = t] /\ UNCHANGED <<jobs, sweep>>
    BY <1>13 DEF WriteValidated
  <2> HIDE DEF t
  <2> QED
    BY <2>1, <2>2, <1>3, <1>4
<1>14. CASE MatchNone(s) \/ MatchApplied(s)
  <2>1. PICK pc \in {"load", "done"} : Goto(s, pc)
    BY <1>14 DEF MatchNone, MatchApplied
  <2> DEFINE t == [tx[s] EXCEPT !.pc = pc]
  <2>2. /\ t.job = j /\ t.seen = tx[s].seen
        /\ t.work = tx[s].work /\ t.held = tx[s].held
    BY <1>1 DEF Tx
  <2>3. tx' = [tx EXCEPT ![s] = t] /\ UNCHANGED <<jobs, sweep>>
    BY <1>14, <2>1 DEF MatchNone, MatchApplied, Goto
  <2> HIDE DEF t
  <2> QED
    BY <2>2, <2>3, <1>3, <1>4
<1>15. CASE Apply(s)
  <2> DEFINE w == mark_applied(tx[s].work)
             t == [tx[s] EXCEPT !.work = w, !.adds = TRUE,
                                !.cols = Changed(tx[s].held, w),
                                !.pc = "done"]
  <2>1. /\ t.job = j /\ t.seen = tx[s].seen
        /\ t.work.object_key = tx[s].work.object_key /\ t.held = tx[s].held
    BY <1>1, CopiesKeepKey DEF Tx
  <2>2. tx' = [tx EXCEPT ![s] = t] /\ UNCHANGED <<jobs, sweep>>
    BY <1>15 DEF Apply
  <2> HIDE DEF t
  <2> QED
    BY <2>1, <2>2, <1>3, <1>4
<1> QED
  BY <1>5, <1>6, <1>7, <1>8, <1>9, <1>10, <1>11, <1>12, <1>13, <1>14, <1>15
     DEF Continue

(* COMMIT of a request gives the row a key its copies had.                 *)
LEMMA CommitTxKeys ==
  ASSUME TypeInv, KeysApart, NEW s \in Slot, CommitTx(s)
  PROVE  KeysApart'
<1> USE DEF TypeInv
<1> DEFINE j == tx[s].job
           row == Updated(Visible(s), tx[s].work, tx[s].cols)
<1>1. /\ tx' = [tx EXCEPT ![s] = Idle] /\ sweep' = sweep
      /\ jobs' = jobs \/ jobs' = [jobs EXCEPT ![j] = row]
      /\ j \in Job
  BY DEF CommitTx, RequestShape
<1>3. {row.object_key} \cap ObjectKey \subseteq KeysOf(j)
  BY <1>1, UpdatedKey, OwnKeys DEF Visible
<1> HIDE DEF row
<1>2. /\ tx'[s] = Idle /\ \A s2 \in Slot \ {s} : tx'[s2] = tx[s2]
      /\ \A i \in Job : \/ jobs'[i] = jobs[i]
                        \/ i = j /\ jobs'[i] = row
  BY <1>1 DEF TypeOK
<1>4. ASSUME NEW i \in Job, NEW key \in KeysOf(i)'
      PROVE  key \in KeysOf(i)
  <2>1. key \in ObjectKey
    BY <1>4 DEF KeysOf
  <2>2. CASE key \in {jobs'[i].object_key, sweep'.seen[i].object_key}
    BY <1>1, <1>2, <1>3, <2>1, <2>2 DEF KeysOf
  <2>3. CASE \E s2 \in Slot : /\ tx'[s2].job = i
                             /\ key \in {tx'[s2].seen.object_key,
                                         tx'[s2].work.object_key,
                                         tx'[s2].held.object_key}
    <3>1. Idle.job \notin Job
      BY ConstantsAssumption DEF Idle
    <3> QED
      BY <1>2, <2>1, <2>3, <3>1 DEF KeysOf
  <2> QED
    BY <1>4, <2>2, <2>3 DEF KeysOf
<1> QED
  BY <1>4, NoNewKeys

(* A sweep copies and clears keys of the jobs it lists.                    *)
LEMMA SweepKeys ==
  ASSUME TypeInv, KeysApart, Sweep
  PROVE  KeysApart'
<1> USE DEF TypeInv
<1>1. ASSUME UNCHANGED tx,
             \A i \in Job : {jobs'[i].object_key, sweep'.seen[i].object_key}
                              \cap ObjectKey \subseteq KeysOf(i)
      PROVE  KeysApart'
  <2>1. ASSUME NEW i \in Job, NEW key \in KeysOf(i)'
        PROVE  key \in KeysOf(i)
    <3>1. key \in ObjectKey
      BY <2>1 DEF KeysOf
    <3>2. CASE key \in {jobs'[i].object_key, sweep'.seen[i].object_key}
      BY <1>1, <3>1, <3>2
    <3>3. CASE \E s \in Slot : /\ tx[s].job = i
                              /\ key \in {tx[s].seen.object_key,
                                          tx[s].work.object_key,
                                          tx[s].held.object_key}
      BY <3>1, <3>3 DEF KeysOf
    <3> QED
      BY <1>1, <2>1, <3>2, <3>3 DEF KeysOf
  <2> QED
    BY <2>1, NoNewKeys
<1>2. ASSUME NEW kind, NEW S, StartSweep(kind, S)
      PROVE  KeysApart'
  <2>1. \A i \in Job : sweep'.seen[i] \in {jobs[i], NoRow}
    BY <1>2 DEF StartSweep, NoSweep
  <2> QED
    BY <1>1, <1>2, <2>1, OwnKeys, NoRowKey DEF StartSweep
<1>3. CASE ListStale
  BY <1>2, <1>3 DEF ListStale
<1>4. CASE ListExpired
  BY <1>2, <1>4 DEF ListExpired
<1>5. ASSUME NEW j \in Job, SweepJob(j) PROVE KeysApart'
  <2>1. sweep'.seen = sweep.seen
    BY <1>5 DEF SweepJob, TypeOK, SweepState
  <2> QED
    BY <1>1, <1>5, <2>1, OwnKeys DEF SweepJob
<1>6. CASE SweepCommit
  <2>1. ASSUME NEW i \in Job
        PROVE  {jobs'[i].object_key, sweep'.seen[i].object_key}
                 \cap ObjectKey \subseteq KeysOf(i)
    <3>1. sweep.seen[i] \in Row
      BY DEF TypeOK, SweepState
    <3>2. Swept(i).object_key \in {sweep.seen[i].object_key, None}
      BY <3>1, CopiesKeepKey DEF Swept
    <3>3. jobs'[i].object_key \in {jobs[i].object_key, Swept(i).object_key}
      BY <1>6, UpdatedKey DEF SweepCommit
    <3>4. sweep'.seen[i] = NoRow
      BY <1>6 DEF SweepCommit, NoSweep
    <3> QED
      BY <3>2, <3>3, <3>4, OwnKeys, NoRowKey
  <2> QED
    BY <1>1, <1>6, <2>1 DEF SweepCommit
<1>7. CASE SweepAbort
  <2>1. \A i \in Job : sweep'.seen[i] = NoRow
    BY <1>7 DEF SweepAbort, NoSweep
  <2> QED
    BY <1>1, <1>7, <2>1, OwnKeys, NoRowKey DEF SweepAbort
<1> QED
  BY <1>3, <1>4, <1>5, <1>6, <1>7 DEF Sweep, TimeoutSweep

(* No file belongs to two jobs at first.                                   *)
LEMMA InitKeys == Init => KeysApart
<1> SUFFICES ASSUME Init, NEW i \in Job, NEW key \in KeysOf(i) PROVE FALSE
  BY DEF KeysApart
<1>1. jobs[i] = NoRow /\ sweep.seen[i] = NoRow
  BY DEF Init, NoSweep
<1>2. \A s \in Slot : tx[s].job # i
  BY ConstantsAssumption DEF Init, Idle
<1> QED
  BY <1>1, <1>2, NoRowKey DEF KeysOf

(* No step makes two jobs share one.                                       *)
LEMMA NextKeys == TypeInv /\ KeysApart /\ [Next]_vars => KeysApart'
<1> SUFFICES ASSUME TypeInv, KeysApart, [Next]_vars PROVE KeysApart'
  OBVIOUS
<1>1. ASSUME NEW s \in Slot, Begin(s) PROVE KeysApart'
  BY <1>1, BeginKeys
<1>2. ASSUME NEW s \in Slot, Continue(s) PROVE KeysApart'
  BY <1>2, ContinueKeys, CommitTxKeys
<1>3. ASSUME NEW s \in Slot, Rollback(s) PROVE KeysApart'
  <2>1. Idle.job \notin Job
    BY ConstantsAssumption DEF Idle
  <2> QED
    BY <1>3, <2>1, KeysStep DEF Rollback, TypeInv
<1>4. ASSUME Sweep PROVE KeysApart'
  BY <1>4, SweepKeys
<1>5. ASSUME NEW v \in Version, CloseVersion(v) PROVE KeysApart'
  BY <1>5 DEF CloseVersion, KeysApart, KeysOf
<1>6. ASSUME UNCHANGED vars PROVE KeysApart'
  BY <1>6 DEF vars, KeysApart, KeysOf
<1> QED
  BY <1>1, <1>2, <1>3, <1>4, <1>5, <1>6 DEF Next

(* No file ever belongs to two jobs, whatever stale copies are written     *)
(* back: a sweep that deletes a file deletes it for one job.               *)
THEOREM FilesNotShared == Spec => []KeysApart
<1>1. Init => TypeInv /\ KeysApart
  BY InitTypeInv, InitKeys
<1>2. (TypeInv /\ KeysApart) /\ [Next]_vars => (TypeInv /\ KeysApart)'
  BY NextTypeInv, NextKeys
<1> QED
  BY <1>1, <1>2, PTL DEF Spec

-----------------------------------------------------------------------------
(* An UPDATE whose row did not change since it was read leaves the object. *)
LEMMA UpdatedChanged ==
  ASSUME NEW row \in Row, NEW job \in Row
  PROVE  /\ Updated(row, job, Changed(row, job)) = job
         /\ Updated(row, job, {}) = row
<1>1. ASSUME NEW r1 \in Row, NEW r2 \in Row, r1.status = r2.status,
             r1.object_key = r2.object_key, r1.fingerprint = r2.fingerprint
      PROVE  r1 = r2
  BY <1>1 DEF Row
<1>2. \A cols : Updated(row, job, cols) \in Row
  BY UpdatedType
<1>3. LET r == Updated(row, job, Changed(row, job))
      IN  /\ r.status = job.status
          /\ r.object_key = job.object_key
          /\ r.fingerprint = job.fingerprint
  BY DEF Updated, Changed, Column
<1>4. LET r == Updated(row, job, {})
      IN  /\ r.status = row.status
          /\ r.object_key = row.object_key
          /\ r.fingerprint = row.fingerprint
  BY DEF Updated
<1> QED
  BY <1>1, <1>2, <1>3, <1>4

(* The status and the key of what an UPDATE leaves depend on those of the  *)
(* row it meets.                                                           *)
LEMMA UpdatedStatus ==
  ASSUME NEW row1 \in Row, NEW row2 \in Row, NEW job \in Row, NEW cols,
         row1.status = row2.status
  PROVE  Updated(row1, job, cols).status = Updated(row2, job, cols).status
BY DEF Updated

(* What the other invariants say of the record of a slot that has a        *)
(* request.                                                                *)
LEMMA RecordFacts ==
  ASSUME TypeInv, LockInv, NEW s \in Slot
  PROVE  /\ tx[s] \in Tx /\ tx[s].seen \in Row /\ tx[s].work \in Row
         /\ tx[s].held \in Row
         /\ tx[s].op # "none" => /\ tx[s].job \in Job
                                 /\ jobs[tx[s].job] \in Row
                                 /\ tx[s].pc # "idle"
         /\ tx[s].pc = "idle" => tx[s] = Idle
         /\ tx[s].pc # "idle" => tx[s].op # "none"
         /\ tx[s].pc \in Unwritten => tx[s].held = NoRow
         /\ tx[s].pc \in Written => tx[s].held # NoRow
<1>1. /\ tx[s].pc = "idle" => tx[s] = Idle
      /\ tx[s].pc # "idle" => tx[s].job \in Job
  BY DEF TypeInv, RequestShape
<1>2. SlotLocks(s, tx[s])
  BY DEF LockInv
<1>3. tx[s].op # "none" => tx[s].pc # "idle"
  BY <1>1 DEF Idle
<1> QED
  BY <1>1, <1>2, <1>3 DEF SlotLocks, TypeInv, TypeOK, Tx

(* A step that only gives the one thread a record that fits keeps the      *)
(* invariant of one thread.                                                *)
LEMMA AloneStep ==
  ASSUME OneThread, TypeOK, AloneInv, NEW s \in Slot, NEW t,
         tx' = [tx EXCEPT ![s] = t],
         UNCHANGED <<jobs, entries, objects, sweep>>,
         AloneShape(t)
  PROVE  AloneInv'
<1>1. tx'[s] = t /\ \A s2 \in Slot : s2 = s
  BY DEF TypeOK, OneThread
<1>2. AloneShape(tx[s])'
  BY <1>1 DEF AloneShape, AloneCreate, AloneUpload, AloneCancel,
              AloneValidate, AloneCommit, Outcome
<1>3. /\ AppliesOnce' /\ EntriesMeanApplied' /\ OpenJobHasFile'
      /\ AloneSweep'
  BY DEF AloneInv, AppliesOnce, EntriesMeanApplied, HasEntries,
         OpenJobHasFile, AloneSweep
<1> QED
  BY <1>1, <1>2, <1>3 DEF AloneInv

(* Nothing is asked of an idle thread.                                     *)
LEMMA IdleAlone == AloneShape(Idle)
BY DEF AloneShape, AloneCreate, AloneUpload, AloneCancel, AloneValidate,
       AloneCommit, Idle

(* A request starts from the committed row.                                *)
LEMMA BeginAlone ==
  ASSUME OneThread, TypeInv, AloneInv, NEW s \in Slot, Begin(s)
  PROVE  AloneInv'
<1> USE DEF TypeInv
<1>1. PICK j \in Job : \/ Create(s, j) \/ Upload(s, j) \/ Validate(s, j)
                       \/ Cancel(s, j) \/ \E k \in IdemKey : Commit(s, j, k)
  BY DEF Begin
<1>2. jobs[j] \in Row /\ jobs[j].status # "processing"
  BY DEF TypeOK, AloneInv, AloneSweep
<1>3. CASE Create(s, j)
  <2> DEFINE w == [NoRow EXCEPT !.status = "created"]
             t == [Idle EXCEPT !.op = "create", !.pc = "done", !.job = j,
                               !.cols = Column, !.work.status = "created"]
  <2>1. /\ t.op = "create" /\ t.job = j /\ t.work.status = "created"
        /\ t.cols = Column
    BY DEF Idle, NoRow
  <2>2. jobs[j].status = "absent" /\ tx' = [tx EXCEPT ![s] = t]
    BY <1>3 DEF Create, NoRow
  <2> HIDE DEF t
  <2>3. AloneShape(t)
    BY <2>1, <2>2 DEF AloneShape, AloneCreate, AloneUpload, AloneCancel,
         AloneValidate, AloneCommit, Outcome, Updated, Column
  <2> QED
    BY <2>2, <2>3, <1>3, AloneStep DEF Create
<1>4. CASE Upload(s, j)
  <2>1. PICK key \in ObjectKey :
          tx' = [tx EXCEPT ![s] =
                   [Idle EXCEPT !.op = "upload", !.pc = "put", !.job = j,
                                !.work = mark_uploaded(jobs[j], key)]]
    BY <1>4 DEF Upload
  <2> DEFINE t == [Idle EXCEPT !.op = "upload", !.pc = "put", !.job = j,
                               !.work = mark_uploaded(jobs[j], key)]
  <2>2. /\ t.op = "upload" /\ t.pc = "put" /\ t.job = j
        /\ t.work.status = "uploaded" /\ t.held = NoRow
    BY <1>2 DEF Idle, mark_uploaded, Row
  <2>3. /\ jobs[j].status \in {"created", "uploaded"}
        /\ tx' = [tx EXCEPT ![s] = t]
    BY <1>4, <2>1 DEF Upload
  <2> HIDE DEF t
  <2>4. AloneShape(t)
    BY <2>2, <2>3 DEF AloneShape, AloneCreate, AloneUpload, AloneCancel,
         AloneValidate, AloneCommit
  <2> QED
    BY <2>3, <2>4, <1>4, AloneStep DEF Upload
<1>5. CASE Validate(s, j)
  <2> DEFINE t == [Idle EXCEPT !.op = "validate", !.pc = "save", !.job = j,
                               !.seen = jobs[j],
                               !.work = mark_processing(jobs[j])]
  <2>1. /\ t.op = "validate" /\ t.pc = "save" /\ t.job = j
        /\ t.seen = jobs[j] /\ t.work = mark_processing(jobs[j])
    BY DEF Idle
  <2>2. /\ jobs[j].status \in {"uploaded", "ready", "invalid"}
        /\ tx' = [tx EXCEPT ![s] = t]
    BY <1>2, <1>5 DEF Validate, MayMove, ALLOWED_TRANSITIONS
  <2> HIDE DEF t
  <2>3. AloneShape(t)
    BY <2>1, <2>2 DEF AloneShape, AloneCreate, AloneUpload, AloneCancel,
         AloneValidate, AloneCommit
  <2> QED
    BY <2>2, <2>3, <1>5, AloneStep DEF Validate
<1>6. CASE Cancel(s, j)
  <2> DEFINE t == [Idle EXCEPT !.op = "cancel", !.pc = "save", !.job = j,
                               !.work = cancelled(jobs[j])]
  <2>1. /\ t.op = "cancel" /\ t.pc = "save" /\ t.job = j
        /\ t.work.status = "cancelled" /\ t.held = NoRow
    BY <1>2 DEF Idle, cancelled, Row
  <2>2. /\ jobs[j].status \notin {"absent", "applied", "failed"}
        /\ tx' = [tx EXCEPT ![s] = t]
    BY <1>6 DEF Cancel, MayMove, ALLOWED_TRANSITIONS
  <2> HIDE DEF t
  <2>3. AloneShape(t)
    BY <2>1, <2>2 DEF AloneShape, AloneCreate, AloneUpload, AloneCancel,
         AloneValidate, AloneCommit
  <2> QED
    BY <2>2, <2>3, <1>6, AloneStep DEF Cancel
<1>7. CASE \E k \in IdemKey : Commit(s, j, k)
  <2>1. PICK k \in IdemKey : Commit(s, j, k)
    BY <1>7
  <2> DEFINE t == [Idle EXCEPT !.op = "commit", !.pc = "reserve", !.job = j,
                               !.key = k, !.seen = jobs[j]]
  <2>2. /\ t.op = "commit" /\ t.pc = "reserve" /\ t.job = j
        /\ t.seen = jobs[j]
    BY DEF Idle
  <2>3. tx' = [tx EXCEPT ![s] = t]
    BY <2>1 DEF Commit
  <2> HIDE DEF t
  <2>4. AloneShape(t)
    BY <2>2 DEF AloneShape, AloneCreate, AloneUpload, AloneCancel,
         AloneValidate, AloneCommit
  <2> QED
    BY <2>1, <2>3, <2>4, AloneStep DEF Commit
<1> QED
  BY <1>1, <1>3, <1>4, <1>5, <1>6, <1>7

(* A commit cannot meet an applied job with its fingerprint: the row it    *)
(* has written keeps that fingerprint for itself.                          *)
LEMMA AloneMatchesNone ==
  ASSUME TypeInv, DataInv, LockInv, AloneInv, NEW s \in Slot
  PROVE  ~MatchApplied(s)
<1> SUFFICES ASSUME MatchApplied(s) PROVE FALSE
  OBVIOUS
<1>1. tx[s].pc = "match" /\ tx[s].op = "commit" /\ tx[s].work.fingerprint # None
  BY DEF MatchApplied
<1>2. PICK i \in Job \ {tx[s].job} :
        Indexed(jobs[i]) /\ jobs[i].fingerprint = tx[s].work.fingerprint
  BY DEF MatchApplied, SameFingerprint
<1>3. tx[s].held = tx[s].work /\ tx[s].work = mark_processing(jobs[tx[s].job])
  BY <1>1 DEF AloneInv, AloneShape, AloneCommit
<1>4. jobs[tx[s].job] \in Row
  BY <1>1, RecordFacts
<1>5. tx[s].held.status = "processing"
  BY <1>3, <1>4 DEF mark_processing, Row
<1>6. Clash(tx[s].held, jobs[i])
  BY <1>1, <1>2, <1>3, <1>5 DEF Clash, Indexed
<1> QED
  BY <1>2, <1>6 DEF DataInv, IndexUnique

(* Each further step of the request works on what it read: nobody else     *)
(* changed the row.                                                        *)
LEMMA ContinueAlone ==
  ASSUME OneThread, TypeInv, DataInv, LockInv, AloneInv, NEW s \in Slot,
         Continue(s), ~CommitTx(s)
  PROVE  AloneInv'
<1> DEFINE u == tx[s]
           row == jobs[tx[s].job]
<1>1. /\ u \in Tx /\ u.seen \in Row /\ u.work \in Row /\ u.held \in Row
      /\ u.op # "none" => /\ u.job \in Job /\ row \in Row /\ u.pc # "idle"
      /\ u.pc # "idle" => u.op # "none"
      /\ u.pc \in Unwritten => u.held = NoRow
      /\ u.pc \in Written => u.held # NoRow
  BY RecordFacts
<1>2. /\ AloneCreate(u) /\ AloneUpload(u) /\ AloneCancel(u)
      /\ AloneValidate(u) /\ AloneCommit(u)
  BY DEF AloneInv, AloneShape
<1>3. /\ SlotLocks(s, u) /\ TypeOK /\ RequestShape
      /\ u.op \in {"create", "upload", "validate", "commit", "cancel", "none"}
  BY <1>1 DEF LockInv, TypeInv, Tx, Op
<1>4. CASE PutObject(s)
  <2> DEFINE t == [u EXCEPT !.pc = "save"]
  <2>1. u.pc = "put" /\ u.op = "upload"
    BY <1>3, <1>4 DEF PutObject, SlotLocks
  <2>2. /\ tx' = [tx EXCEPT ![s] = t] /\ UNCHANGED <<jobs, entries, sweep>>
        /\ objects' = objects \cup {u.work.object_key}
    BY <1>4 DEF PutObject, Goto
  <2>3. /\ t.op = "upload" /\ t.pc = "save" /\ t.job = u.job
        /\ t.work = u.work /\ t.held = u.held
    BY <1>1, <2>1 DEF Tx
  <2> HIDE DEF t
  <2>4. tx'[s] = t /\ \A s2 \in Slot : s2 = s
    BY <1>3, <2>2 DEF TypeOK, OneThread
  <2>5. AloneShape(tx[s])'
    BY <1>2, <2>1, <2>2, <2>3, <2>4 DEF AloneShape, AloneCreate, AloneUpload,
         AloneCancel, AloneValidate, AloneCommit
  <2>6. /\ AppliesOnce' /\ EntriesMeanApplied' /\ OpenJobHasFile'
        /\ AloneSweep'
    BY <2>2 DEF AloneInv, AppliesOnce, EntriesMeanApplied, HasEntries,
         OpenJobHasFile, AloneSweep
  <2> QED
    BY <2>4, <2>5, <2>6 DEF AloneInv
<1>5. CASE Reserve(s)
  <2> DEFINE t == [u EXCEPT !.pc = "save", !.reserved = TRUE,
                            !.work = mark_processing(u.seen), !.seen = NoRow]
  <2>1. u.pc = "reserve" /\ u.op = "commit" /\ u.seen.status = "ready"
    BY <1>3, <1>5 DEF Reserve, RequestShape
  <2>2. tx' = [tx EXCEPT ![s] = t]
    BY <1>5 DEF Reserve, Reserved
  <2>3. /\ t.op = "commit" /\ t.pc = "save" /\ t.job = u.job
        /\ t.work = mark_processing(row) /\ row.status = "ready"
    BY <1>1, <1>2, <2>1 DEF Tx, AloneCommit
  <2> HIDE DEF t
  <2>4. AloneShape(t)
    BY <2>3 DEF AloneShape, AloneCreate, AloneUpload, AloneCancel,
         AloneValidate, AloneCommit
  <2> QED
    BY <1>3, <1>5, <2>2, <2>4, AloneStep DEF Reserve
<1>6. CASE Replay(s)
  BY <1>3, <1>6, IdleAlone, AloneStep DEF Replay
<1>7. CASE Save(s)
  <2> DEFINE c == Changed(Visible(s), u.work)
             pc == IF u.op \in {"validate", "commit"} THEN "flush" ELSE "done"
             t == [u EXCEPT !.cols = c, !.pc = pc]
  <2>1. u.pc = "save" /\ u.held = NoRow /\ u.op # "create" /\ u.op # "none"
    BY <1>1, <1>3, <1>7 DEF Save, Unwritten, SlotLocks
  <2>2. c = Changed(row, u.work)
    BY <2>1 DEF Visible
  <2>3. tx' = [tx EXCEPT ![s] = t]
    BY <1>7 DEF Save
  <2>4. /\ t.op = u.op /\ t.pc = pc /\ t.job = u.job /\ t.cols = c
        /\ t.work = u.work /\ t.held = NoRow /\ t.seen = u.seen
    BY <1>1, <2>1 DEF Tx
  <2> HIDE DEF t, c
  <2>5. Outcome(t) = u.work
    BY <1>1, <2>1, <2>2, <2>4, UpdatedChanged DEF Outcome
  <2>6. AloneShape(t)
    BY <1>2, <2>1, <2>4, <2>5 DEF AloneShape, AloneCreate, AloneUpload,
         AloneCancel, AloneValidate, AloneCommit
  <2> QED
    BY <1>3, <1>7, <2>3, <2>6, AloneStep DEF Save
<1>8. CASE Flush(s)
  <2> DEFINE r == Updated(jobs[u.job], u.work, u.cols)
             pc == IF u.op = "validate" THEN "load" ELSE "match"
             t == [u EXCEPT !.held = r, !.cols = {}, !.pc = pc]
  <2>1. u.pc = "flush" /\ u.held = NoRow /\ u.op \in {"validate", "commit"}
    BY <1>1, <1>3, <1>8 DEF Flush, Unwritten, RequestShape
  <2>2. r = u.work
    BY <1>2, <2>1 DEF Outcome, AloneValidate, AloneCommit
  <2>3. tx' = [tx EXCEPT ![s] = t]
    BY <1>8 DEF Flush
  <2>4. /\ t.op = u.op /\ t.pc = pc /\ t.job = u.job /\ t.cols = {}
        /\ t.work = u.work /\ t.held = r /\ t.seen = u.seen
    BY <1>1 DEF Tx
  <2> HIDE DEF t, r
  <2>5. AloneShape(t)
    BY <1>2, <2>1, <2>2, <2>4 DEF AloneShape, AloneCreate, AloneUpload,
         AloneCancel, AloneValidate, AloneCommit
  <2> QED
    BY <1>3, <1>8, <2>3, <2>5, AloneStep DEF Flush
<1>9. CASE LoadTable(s)
  <2> DEFINE pc == IF u.op = "validate" THEN "match" ELSE "apply"
             t == [u EXCEPT !.pc = pc]
  <2>1. u.pc = "load" /\ u.op \in {"validate", "commit"}
    BY <1>3, <1>9 DEF LoadTable, RequestShape
  <2>2. tx' = [tx EXCEPT ![s] = t]
    BY <1>9 DEF LoadTable, Goto
  <2>3. /\ t.op = u.op /\ t.pc = pc /\ t.job = u.job /\ t.cols = u.cols
        /\ t.work = u.work /\ t.held = u.held /\ t.seen = u.seen
    BY <1>1 DEF Tx
  <2> HIDE DEF t
  <2>4. AloneShape(t)
    BY <1>2, <2>1, <2>3 DEF AloneShape, AloneCreate, AloneUpload,
         AloneCancel, AloneValidate, AloneCommit
  <2> QED
    BY <1>3, <1>9, <2>2, <2>4, AloneStep DEF LoadTable
<1>10. CASE ReturnExisting(s)
  <2> DEFINE c == Changed(u.held, u.seen)
             t == [u EXCEPT !.work = u.seen, !.pc = "done",
                            !.seen = NoRow, !.cols = c]
  <2>1. u.pc = "match" /\ u.op = "validate" /\ u.held # NoRow /\ u.seen = row
    BY <1>1, <1>2, <1>10 DEF ReturnExisting, Written, AloneValidate
  <2>2. tx' = [tx EXCEPT ![s] = t]
    BY <1>10 DEF ReturnExisting
  <2>3. /\ t.op = "validate" /\ t.pc = "done" /\ t.job = u.job /\ t.cols = c
        /\ t.work = u.seen /\ t.held = u.held
    BY <1>1, <2>1 DEF Tx
  <2> HIDE DEF t
  <2>4. Outcome(t) = row
    BY <1>1, <2>1, <2>3, UpdatedChanged DEF Outcome
  <2>5. AloneShape(t)
    BY <1>2, <2>1, <2>3, <2>4 DEF AloneShape, AloneCreate, AloneUpload,
         AloneCancel, AloneValidate, AloneCommit
  <2> QED
    BY <1>3, <1>10, <2>2, <2>5, AloneStep DEF ReturnExisting
<1>11. CASE CheckRows(s)
  <2>1. PICK m \in Mapping, outcome \in {"ready", "invalid"} :
          tx' = [tx EXCEPT ![s] =
                  [@ EXCEPT !.pc = "write", !.seen = NoRow,
                     !.work = mark_validated(u.work, outcome,
                                <<ContentOf[u.job], m>>)]]
    BY <1>11 DEF CheckRows
  <2> DEFINE w == mark_validated(u.work, outcome, <<ContentOf[u.job], m>>)
             t == [u EXCEPT !.pc = "write", !.seen = NoRow, !.work = w]
  <2>2. u.pc = "match" /\ u.op = "validate"
    BY <1>11 DEF CheckRows
  <2>3. w.status = outcome /\ w.object_key = row.object_key
    BY <1>1, <1>2, <2>2, CopiesKeepKey
       DEF mark_validated, Row, AloneValidate
  <2>4. tx' = [tx EXCEPT ![s] = t]
    BY <2>1
  <2>5. /\ t.op = "validate" /\ t.pc = "write" /\ t.job = u.job
        /\ t.cols = u.cols /\ t.work = w /\ t.held = u.held
    BY <1>1, <2>2 DEF Tx
  <2> HIDE DEF t, w
  <2>6. AloneShape(t)
    BY <1>2, <2>2, <2>3, <2>5 DEF AloneShape, AloneCreate, AloneUpload,
         AloneCancel, AloneValidate, AloneCommit
  <2> QED
    BY <1>3, <1>11, <2>4, <2>6, AloneStep DEF CheckRows
<1>12. CASE WriteValidated(s)
  <2> DEFINE t == [u EXCEPT !.held = u.work, !.pc = "done"]
  <2>1. u.pc = "write" /\ u.op = "validate" /\ u.cols = {}
    BY <1>2, <1>3, <1>12 DEF WriteValidated, RequestShape, AloneValidate
  <2>2. tx' = [tx EXCEPT ![s] = t]
    BY <1>12 DEF WriteValidated
  <2>3. /\ t.op = "validate" /\ t.pc = "done" /\ t.job = u.job
        /\ t.cols = {} /\ t.work = u.work /\ t.held = u.work
    BY <1>1, <2>1 DEF Tx
  <2> HIDE DEF t
  <2>4. u.work # NoRow
    BY <1>2, <2>1 DEF AloneValidate, NoRow
  <2>5. Outcome(t) = u.work
    BY <1>1, <2>3, <2>4, UpdatedChanged DEF Outcome
  <2>6. AloneShape(t)
    BY <1>2, <2>1, <2>3, <2>5 DEF AloneShape, AloneCreate, AloneUpload,
         AloneCancel, AloneValidate, AloneCommit
  <2> QED
    BY <1>3, <1>12, <2>2, <2>6, AloneStep DEF WriteValidated
<1>13. CASE MatchNone(s)
  <2> DEFINE t == [u EXCEPT !.pc = "load"]
  <2>1. u.pc = "match" /\ u.op = "commit"
    BY <1>13 DEF MatchNone
  <2>2. tx' = [tx EXCEPT ![s] = t]
    BY <1>13 DEF MatchNone, Goto
  <2>3. /\ t.op = "commit" /\ t.pc = "load" /\ t.job = u.job
        /\ t.cols = u.cols /\ t.work = u.work /\ t.held = u.held
    BY <1>1, <2>1 DEF Tx
  <2> HIDE DEF t
  <2>4. AloneShape(t)
    BY <1>2, <2>1, <2>3 DEF AloneShape, AloneCreate, AloneUpload,
         AloneCancel, AloneValidate, AloneCommit
  <2> QED
    BY <1>3, <1>13, <2>2, <2>4, AloneStep DEF MatchNone
<1>14. CASE MatchApplied(s)
  BY <1>14, AloneMatchesNone
<1>15. CASE Apply(s)
  <2> DEFINE w == mark_applied(u.work)
             c == Changed(u.held, w)
             t == [u EXCEPT !.work = w, !.adds = TRUE, !.cols = c,
                            !.pc = "done"]
  <2>1. u.pc = "apply" /\ u.op = "commit" /\ u.held # NoRow
    BY <1>1, <1>3, <1>15 DEF Apply, RequestShape, Written
  <2>2. w \in Row /\ w.status = "applied"
    BY <1>1, RowTypes DEF mark_applied, Row
  <2>3. tx' = [tx EXCEPT ![s] = t]
    BY <1>15 DEF Apply
  <2>4. /\ t.op = "commit" /\ t.pc = "done" /\ t.job = u.job
        /\ t.cols = c /\ t.work = w /\ t.held = u.held /\ t.adds
    BY <1>1, <2>1 DEF Tx
  <2> HIDE DEF t, w
  <2>5. Outcome(t) = w
    BY <1>1, <2>1, <2>2, <2>4, UpdatedChanged DEF Outcome
  <2>6. AloneShape(t)
    BY <1>2, <2>1, <2>2, <2>4, <2>5 DEF AloneShape, AloneCreate, AloneUpload,
         AloneCancel, AloneValidate, AloneCommit
  <2> QED
    BY <1>3, <1>15, <2>3, <2>6, AloneStep DEF Apply
<1> QED
  BY <1>4, <1>5, <1>6, <1>7, <1>8, <1>9, <1>10, <1>11, <1>12, <1>13, <1>14,
     <1>15 DEF Continue

(* Statuses in which a job can still be validated or committed.            *)
OpenStatus == {"uploaded", "processing", "ready", "invalid"}

(* What the one thread's commit leaves of its job.                         *)
LEMMA AloneOutcome ==
  ASSUME TypeInv, LockInv, AloneInv, NEW s \in Slot, tx[s].pc = "done",
         NEW old, old = jobs[tx[s].job], NEW row, row = Outcome(tx[s])
  PROVE  /\ tx[s].job \in Job
         /\ old.status # "applied"
         /\ row.status # "processing"
         /\ row.status \in OpenStatus => row.object_key \in objects
         /\ old.status \in Ended => row.status = old.status
         /\ tx[s].adds => row.status = "applied" /\ tx[s].held # NoRow
<1> DEFINE u == tx[s]
<1>1. /\ u.op \in Op /\ u.op # "none"
      /\ u.job \in Job
  BY RecordFacts DEF Tx
<1>2. u.adds => u.op = "commit"
  BY DEF TypeInv, RequestShape
<1>3. /\ AloneCreate(u) /\ AloneUpload(u) /\ AloneCancel(u)
      /\ AloneValidate(u) /\ AloneCommit(u)
  BY DEF AloneInv, AloneShape
<1>4. CASE u.op = "create"
  BY <1>1, <1>2, <1>3, <1>4 DEF AloneCreate, OpenStatus, Ended
<1>5. CASE u.op = "upload"
  BY <1>1, <1>2, <1>3, <1>5 DEF AloneUpload, OpenStatus, Ended
<1>6. CASE u.op = "cancel"
  BY <1>1, <1>2, <1>3, <1>6 DEF AloneCancel, OpenStatus, Ended
<1>7. CASE u.op = "validate"
  <2>1. old.status \in OpenStatus => old.object_key \in objects
    BY <1>1 DEF AloneInv, OpenJobHasFile, OpenStatus
  <2> QED
    BY <1>1, <1>2, <1>3, <1>7, <2>1 DEF AloneValidate, OpenStatus, Ended
<1>8. CASE u.op = "commit"
  BY <1>1, <1>2, <1>3, <1>8 DEF AloneCommit, OpenStatus, Ended
<1> QED
  BY <1>1, <1>4, <1>5, <1>6, <1>7, <1>8 DEF Op

(* COMMIT of the one thread's transaction keeps the invariant.             *)
LEMMA CommitTxAlone ==
  ASSUME OneThread, TypeInv, DataInv, LockInv, AloneInv, NEW s \in Slot,
         CommitTx(s)
  PROVE  AloneInv'
<1> DEFINE j == tx[s].job
           k == tx[s].key
           row == Outcome(tx[s])
<1>1. tx[s].pc = "done"
  BY DEF CommitTx
<1>2. /\ j \in Job
      /\ jobs[j].status # "applied"
      /\ row.status # "processing"
      /\ row.status \in OpenStatus => row.object_key \in objects
      /\ jobs[j].status \in Ended => row.status = jobs[j].status
      /\ tx[s].adds => row.status = "applied" /\ tx[s].held # NoRow
  BY <1>1, AloneOutcome
<1>3. /\ tx' = [tx EXCEPT ![s] = Idle] /\ UNCHANGED <<objects, sweep>>
      /\ \/ jobs' = [jobs EXCEPT ![j] = row]
         \/ jobs' = jobs /\ tx[s].held = NoRow
      /\ entries' = IF tx[s].adds THEN [entries EXCEPT ![j][k] = @ + 1]
                                  ELSE entries
  BY DEF CommitTx, Outcome, Visible
<1>4. tx[s].adds => k \in IdemKey
  BY DEF TypeInv, RequestShape
<1> HIDE DEF row
<1>5. /\ tx'[s] = Idle /\ \A s2 \in Slot : s2 = s
      /\ jobs'[j] \in {jobs[j], row}
      /\ tx[s].adds => jobs'[j] = row
      /\ \A i \in Job \ {j} : jobs'[i] = jobs[i]
  BY <1>2, <1>3 DEF TypeInv, TypeOK, OneThread
<1>6. \A i \in Job, k2 \in IdemKey :
        /\ entries[i][k2] \in Nat
        /\ \/ entries'[i][k2] = entries[i][k2] /\ ~(tx[s].adds /\ i = j /\ k2 = k)
           \/ /\ tx[s].adds /\ i = j /\ k2 = k
              /\ entries'[i][k2] = entries[i][k2] + 1
  BY <1>2, <1>3, <1>4 DEF TypeInv, TypeOK
<1>7. \A k2 \in IdemKey : entries[j][k2] = 0
  BY <1>2, <1>6 DEF AloneInv, EntriesMeanApplied, HasEntries
<1>8. AppliesOnce'
  <2> SUFFICES ASSUME NEW i \in Job, NEW k1 \in IdemKey, NEW k2 \in IdemKey
               PROVE  /\ entries'[i][k1] <= 1
                      /\ entries'[i][k1] > 0 /\ entries'[i][k2] > 0 => k1 = k2
    BY DEF AppliesOnce
  <2>1. CASE i = j
    BY <1>6, <1>7, <2>1
  <2>2. CASE i # j
    BY <1>6, <2>2 DEF AloneInv, AppliesOnce
  <2> QED
    BY <2>1, <2>2
<1>9. EntriesMeanApplied'
  <2> SUFFICES ASSUME NEW i \in Job, NEW k2 \in IdemKey, entries'[i][k2] > 0
               PROVE  jobs'[i].status = "applied"
    BY DEF EntriesMeanApplied, HasEntries
  <2>1. CASE i = j
    BY <1>2, <1>5, <1>6, <1>7, <2>1
  <2>2. CASE i # j
    BY <1>5, <1>6, <2>2 DEF AloneInv, EntriesMeanApplied, HasEntries
  <2> QED
    BY <2>1, <2>2
<1>10. OpenJobHasFile'
  BY <1>2, <1>3, <1>5 DEF AloneInv, OpenJobHasFile, OpenStatus
<1>11. AloneSweep'
  <2>1. \A i \in Job : jobs'[i].status # "processing"
    BY <1>2, <1>5 DEF AloneInv, AloneSweep
  <2>2. \A i \in Job : jobs[i].status \in Ended
                         => jobs'[i].status = jobs[i].status
    BY <1>2, <1>5
  <2>3. sweep.todo \cup sweep.saved \subseteq Job
    BY DEF TypeInv, TypeOK, SweepState
  <2> QED
    BY <1>3, <2>1, <2>2, <2>3 DEF AloneInv, AloneSweep
<1>12. AloneShape(tx[s])'
  BY <1>5 DEF AloneShape, AloneCreate, AloneUpload, AloneCancel,
       AloneValidate, AloneCommit, Idle
<1> QED
  BY <1>5, <1>8, <1>9, <1>10, <1>11, <1>12 DEF AloneInv

(* A sweep leaves the request's copies good: it changes rows of ended jobs *)
(* only, and not their status, and deletes files of no other job.          *)
LEMMA AloneKeep ==
  ASSUME TypeInv, LockInv, NEW s \in Slot, AloneShape(tx[s]), UNCHANGED tx,
         tx[s].op # "none" =>
           \/ jobs'[tx[s].job] = jobs[tx[s].job]
           \/ /\ jobs[tx[s].job].status \in Ended
              /\ jobs'[tx[s].job].status = jobs[tx[s].job].status
              /\ jobs'[tx[s].job] \in Row,
         (tx[s].op = "upload" /\ tx[s].pc # "put")
           => tx[s].work.object_key \in objects'
  PROVE  AloneShape(tx[s])'
<1> DEFINE u == tx[s]
<1>1. /\ u.work \in Row
      /\ u.op # "none" => jobs[u.job] \in Row
  BY RecordFacts
<1>2. /\ AloneCreate(u) /\ AloneUpload(u) /\ AloneCancel(u)
      /\ AloneValidate(u) /\ AloneCommit(u)
  BY DEF AloneShape
<1>3. CASE u.op # "none" => jobs'[u.job] = jobs[u.job]
  BY <1>2, <1>3 DEF AloneShape, AloneCreate, AloneUpload, AloneCancel,
       AloneValidate, AloneCommit, Outcome
<1>4. CASE /\ u.op # "none"
           /\ jobs[u.job].status \in Ended
           /\ jobs'[u.job].status = jobs[u.job].status
           /\ jobs'[u.job] \in Row
  <2>1. u.op \notin {"create", "upload", "validate"}
    BY <1>2, <1>4 DEF AloneCreate, AloneUpload, AloneValidate, Ended
  <2>2. AloneCancel(u)'
    BY <1>1, <1>2, <1>4, UpdatedStatus DEF AloneCancel, Outcome
  <2>3. AloneCommit(u)'
    BY <1>2, <1>4 DEF AloneCommit, Ended
  <2> QED
    BY <2>1, <2>2, <2>3 DEF AloneShape, AloneCreate, AloneUpload,
         AloneValidate
<1> QED
  BY <1>3, <1>4

(* Beside one thread a sweep lists jobs that have ended.                   *)
LEMMA SweepStartsAlone ==
  ASSUME TypeInv, LockInv, AloneInv, ListStale \/ ListExpired
  PROVE  AloneInv'
<1>1. StaleProcessing = {}
  BY DEF AloneInv, AloneSweep, StaleProcessing
<1>2. PICK S \in SUBSET ExpiredOriginals : StartSweep("purge", S)
  <2>1. ~ListStale
    <3>1. (SUBSET StaleProcessing) \ {{}} = {}
      BY <1>1
    <3> QED
      BY <3>1 DEF ListStale
  <2> QED
    BY <2>1 DEF ListExpired
<1>3. /\ sweep'.kind = "purge" /\ sweep'.todo = S /\ sweep'.saved = {}
      /\ \A j \in S : /\ j \in Job /\ jobs[j].status \in Ended
                      /\ sweep'.seen[j] = jobs[j]
      /\ UNCHANGED <<jobs, entries, objects, tx>>
  BY <1>2 DEF StartSweep, NoSweep, ExpiredOriginals, Ended
<1>4. AloneSweep'
  BY <1>3 DEF AloneInv, AloneSweep
<1>5. \A s \in Slot : AloneShape(tx[s])'
  BY <1>3, AloneKeep DEF AloneInv, AloneShape, AloneUpload
<1> QED
  BY <1>3, <1>4, <1>5 DEF AloneInv, AppliesOnce, EntriesMeanApplied,
       HasEntries, OpenJobHasFile

(* It deletes files that neither an open job nor the request points to.    *)
LEMMA SweepJobAlone ==
  ASSUME TypeInv, LockInv, KeysApart, AloneInv, NEW j \in Job, SweepJob(j)
  PROVE  AloneInv'
<1>1. /\ j \in sweep.todo
      /\ objects \ {sweep.seen[j].object_key} \subseteq objects'
      /\ UNCHANGED <<jobs, entries, tx>>
  BY DEF SweepJob
<1>2. jobs[j].status \in Ended
  BY <1>1 DEF AloneInv, AloneSweep
<1>3. /\ sweep'.kind = sweep.kind /\ sweep'.seen = sweep.seen
      /\ sweep'.todo \cup sweep'.saved = sweep.todo \cup sweep.saved
  BY DEF SweepJob, TypeInv, TypeOK, SweepState
<1>4. AloneSweep'
  BY <1>1, <1>3 DEF AloneInv, AloneSweep
<1>5. \A key \in objects : key \in KeysOf(j) \/ key \in objects'
  <2>1. {sweep.seen[j].object_key} \cap ObjectKey \subseteq KeysOf(j)
    BY OwnKeys
  <2>2. objects \subseteq ObjectKey
    BY DEF TypeInv, TypeOK
  <2> QED
    BY <1>1, <2>1, <2>2
<1>6. ASSUME NEW i \in Job, jobs[i].status \notin Ended, NEW key \in objects,
             key \in KeysOf(i)
      PROVE  key \in objects'
  BY <1>2, <1>5, <1>6 DEF KeysApart
<1>7. OpenJobHasFile'
  <2> SUFFICES ASSUME NEW i \in Job, jobs[i].status \in OpenStatus
               PROVE  jobs[i].object_key \in objects'
    BY <1>1 DEF OpenJobHasFile, OpenStatus
  <2>1. jobs[i].object_key \in objects
    BY DEF AloneInv, OpenJobHasFile, OpenStatus
  <2>2. jobs[i].object_key \in KeysOf(i)
    BY <2>1, OwnKeys DEF TypeInv, TypeOK
  <2> QED
    BY <1>6, <2>1, <2>2 DEF OpenStatus, Ended
<1>8. ASSUME NEW s \in Slot PROVE AloneShape(tx[s])'
  <2>1. AloneShape(tx[s])
    BY DEF AloneInv
  <2>2. ASSUME tx[s].op = "upload", tx[s].pc # "put"
        PROVE  tx[s].work.object_key \in objects'
    <3>1. /\ tx[s].work.object_key \in objects
          /\ jobs[tx[s].job].status \in {"created", "uploaded"}
      BY <2>1, <2>2 DEF AloneShape, AloneUpload
    <3>2. tx[s].job \in Job
      BY <2>2, RecordFacts
    <3>3. tx[s].work.object_key \in KeysOf(tx[s].job)
      BY <3>1, <3>2, OwnKeys DEF TypeInv, TypeOK
    <3> QED
      BY <1>6, <3>1, <3>2, <3>3 DEF Ended
  <2> QED
    BY <1>1, <2>1, <2>2, AloneKeep
<1> QED
  BY <1>1, <1>4, <1>7, <1>8
     DEF AloneInv, AppliesOnce, EntriesMeanApplied, HasEntries

(* Its COMMIT changes no status.                                           *)
LEMMA SweepCommitAlone ==
  ASSUME TypeInv, LockInv, AloneInv, SweepCommit
  PROVE  AloneInv'
<1>1. /\ sweep' = NoSweep
      /\ UNCHANGED <<entries, objects, tx>>
      /\ \A j \in Job :
           jobs'[j] = IF j \in sweep.saved
                      THEN Updated(jobs[j], Swept(j), sweep.cols[j])
                      ELSE jobs[j]
      /\ sweep.kind = "purge"
  BY DEF SweepCommit, AloneInv, AloneSweep, TypeInv, TypeOK, SweepState
<1>2. ASSUME NEW j \in Job
      PROVE  \/ jobs'[j] = jobs[j]
             \/ /\ jobs[j].status \in Ended
                /\ jobs'[j].status = jobs[j].status
                /\ jobs'[j] \in Row
  <2>1. CASE j \in sweep.saved
    <3>1. jobs[j] \in Row /\ sweep.seen[j] \in Row
      BY DEF TypeInv, TypeOK, SweepState
    <3>2. /\ jobs[j].status \in Ended
          /\ sweep.seen[j].status = jobs[j].status
      BY <2>1 DEF AloneInv, AloneSweep
    <3>3. Swept(j) \in Row /\ Swept(j).status = jobs[j].status
      BY <1>1, <3>1, <3>2, RowTypes DEF Swept, clear_object_key, Row
    <3> QED
      BY <1>1, <2>1, <3>1, <3>2, <3>3, UpdatedType, UpdatedColumns
  <2>2. CASE j \notin sweep.saved
    BY <1>1, <2>2
  <2> QED
    BY <2>1, <2>2
<1>3. \A j \in Job : jobs'[j].status = jobs[j].status
  BY <1>2
<1>4. OpenJobHasFile'
  <2> SUFFICES ASSUME NEW j \in Job, jobs'[j].status \in OpenStatus
               PROVE  jobs'[j].object_key \in objects
    BY <1>1 DEF OpenJobHasFile, OpenStatus
  <2>1. jobs'[j] = jobs[j]
    BY <1>2, <1>3 DEF OpenStatus, Ended
  <2> QED
    BY <2>1 DEF AloneInv, OpenJobHasFile, OpenStatus
<1>5. AloneSweep'
  BY <1>1, <1>3 DEF AloneInv, AloneSweep, NoSweep
<1>6. ASSUME NEW s \in Slot PROVE AloneShape(tx[s])'
  <2>1. AloneShape(tx[s]) /\ (tx[s].op # "none" => tx[s].job \in Job)
    BY RecordFacts DEF AloneInv
  <2>2. tx[s].op = "upload" /\ tx[s].pc # "put"
          => tx[s].work.object_key \in objects'
    BY <1>1, <2>1 DEF AloneShape, AloneUpload
  <2> QED
    BY <1>1, <1>2, <2>1, <2>2, AloneKeep
<1> QED
  BY <1>1, <1>3, <1>4, <1>5, <1>6
     DEF AloneInv, AppliesOnce, EntriesMeanApplied, HasEntries

(* Every step keeps the invariant of one thread.                           *)
LEMMA NextAlone ==
  ASSUME OneThread
  PROVE  TypeInv /\ DataInv /\ LockInv /\ KeysApart /\ AloneInv /\ [Next]_vars
           => AloneInv'
<1> SUFFICES ASSUME TypeInv, DataInv, LockInv, KeysApart, AloneInv,
                    [Next]_vars
             PROVE  AloneInv'
  OBVIOUS
<1>1. ASSUME NEW s \in Slot, Begin(s) PROVE AloneInv'
  BY <1>1, BeginAlone
<1>2. ASSUME NEW s \in Slot, Continue(s) PROVE AloneInv'
  BY <1>2, ContinueAlone, CommitTxAlone
<1>3. ASSUME NEW s \in Slot, Rollback(s) PROVE AloneInv'
  BY <1>3, IdleAlone, AloneStep DEF Rollback, TypeInv
<1>4. ASSUME UNCHANGED <<jobs, entries, objects, tx>>,
             sweep' \in {sweep, NoSweep}
      PROVE  AloneInv'
  <2>1. AloneSweep'
    BY <1>4 DEF AloneInv, AloneSweep, NoSweep
  <2>2. \A s \in Slot : AloneShape(tx[s])'
    BY <1>4, AloneKeep DEF AloneInv, AloneShape, AloneUpload
  <2> QED
    BY <1>4, <2>1, <2>2 DEF AloneInv, AppliesOnce, EntriesMeanApplied,
         HasEntries, OpenJobHasFile
<1>5. ASSUME Sweep PROVE AloneInv'
  BY <1>4, <1>5, SweepStartsAlone, SweepJobAlone, SweepCommitAlone
     DEF Sweep, TimeoutSweep, SweepAbort
<1>6. ASSUME NEW v \in Version, CloseVersion(v) PROVE AloneInv'
  BY <1>4, <1>6 DEF CloseVersion
<1>7. ASSUME UNCHANGED vars PROVE AloneInv'
  BY <1>4, <1>7 DEF vars
<1> QED
  BY <1>1, <1>2, <1>3, <1>5, <1>6, <1>7 DEF Next

(* It holds initially.                                                     *)
LEMMA InitAlone == Init => AloneInv
<1> SUFFICES ASSUME Init PROVE AloneInv
  OBVIOUS
<1>1. \A j \in Job : /\ jobs[j].status = "absent"
                     /\ \A k \in IdemKey : entries[j][k] = 0
  BY DEF Init, NoRow
<1>2. AppliesOnce /\ EntriesMeanApplied /\ OpenJobHasFile
  BY <1>1 DEF AppliesOnce, EntriesMeanApplied, HasEntries, OpenJobHasFile
<1>3. AloneSweep
  BY <1>1 DEF Init, AloneSweep, NoSweep
<1>4. \A s \in Slot : AloneShape(tx[s])
  BY IdleAlone DEF Init
<1> QED
  BY <1>2, <1>3, <1>4 DEF AloneInv

(* While one thread serves requests, beside one sweep after another, what a *)
(* request has read of a job is what is there until it commits.            *)
THEOREM AloneInvariance ==
  ASSUME OneThread
  PROVE  Spec => []AloneInv
<1> DEFINE Known == TypeInv /\ DataInv /\ LockInv /\ KeysApart
<1>1. Spec => []Known
  <2>1. Init => TypeInv /\ LockInv /\ KeysApart
    BY InitTypeInv, InitLocks, InitKeys
  <2>2. (TypeInv /\ LockInv /\ KeysApart) /\ [Next]_vars
          => (TypeInv /\ LockInv /\ KeysApart)'
    BY NextTypeInv, NextLocks, NextKeys
  <2>3. IInv => DataInv
    BY DEF IInv, DataInv
  <2> QED
    BY <2>1, <2>2, <2>3, Invariance, PTL DEF Spec
<1>2. Known /\ AloneInv /\ [Next]_vars => AloneInv'
  BY NextAlone
<1> HIDE DEF Known
<1> QED
  BY <1>1, <1>2, InitAlone, PTL DEF Spec

(* While one thread serves, the rows of a job are inserted once, under     *)
(* whatever keys it is committed.                                          *)
THEOREM AloneAppliesOnce ==
  ASSUME OneThread
  PROVE  Spec => []AppliesOnce
<1>1. AloneInv => AppliesOnce
  BY DEF AloneInv
<1> QED
  BY <1>1, AloneInvariance, PTL

(* While one thread serves, a job with rows in the ledger reads APPLIED,   *)
(* whatever the sweeps write back.                                         *)
THEOREM AloneEntriesMeanApplied ==
  ASSUME OneThread
  PROVE  Spec => []EntriesMeanApplied
<1>1. AloneInv => EntriesMeanApplied
  BY DEF AloneInv
<1> QED
  BY <1>1, AloneInvariance, PTL

(* While one thread serves, a job that can still be validated or committed *)
(* has its file: the retention command takes none from it.                 *)
THEOREM AloneOpenJobsHaveFiles ==
  ASSUME OneThread
  PROVE  Spec => []OpenJobHasFile
<1>1. AloneInv => OpenJobHasFile
  BY DEF AloneInv
<1> QED
  BY <1>1, AloneInvariance, PTL
=============================================================================

------------------------- MODULE ImportJobsInvariant -------------------------
(***************************************************************************)
(* The inductive invariant of ImportJobs.  AppliedHasEntries,              *)
(* KeyInsertsOnce, KeyRecordsApply and LiveFingerprintUnique speak of the  *)
(* committed rows only; they last because the copies that requests and     *)
(* sweeps hold, and will write back, satisfy the same facts.               *)
(***************************************************************************)
EXTENDS ImportJobs

(* What the step a request has reached says of its record.                 *)
RequestShape ==
  \A s \in Slot :
    /\ tx[s].pc = "idle" => tx[s] = Idle
    /\ tx[s].pc # "idle" => tx[s].job \in Job
    /\ tx[s].op = "commit" => tx[s].key \in IdemKey
    /\ tx[s].reserved <=> tx[s].op = "commit" /\ tx[s].pc # "reserve"
    /\ tx[s].adds => tx[s].op = "commit" /\ tx[s].pc = "done"
    /\ tx[s].pc = "reserve" => tx[s].op = "commit"
    /\ tx[s].pc \in {"flush", "load"} => tx[s].op \in {"validate", "commit"}
    /\ tx[s].pc = "apply" => tx[s].op = "commit"
    /\ tx[s].pc = "write" => tx[s].op = "validate"
    /\ tx[s].pc = "put" => tx[s].work.object_key # None

(* No copy of a job reads APPLIED before its entries are committed, except *)
(* the one that is saved with them.                                        *)
AppliedCopies ==
  /\ AppliedHasEntries
  /\ \A s \in Slot :
       /\ tx[s].seen.status = "applied" => HasEntries(tx[s].job)
       /\ tx[s].held.status = "applied" => HasEntries(tx[s].job)
       /\ tx[s].work.status = "applied" => tx[s].adds \/ HasEntries(tx[s].job)
  /\ \A j \in Job : sweep.seen[j].status = "applied" => HasEntries(j)

(* A key reserved by an open request is unused and nobody else's.          *)
Reservations ==
  /\ KeyInsertsOnce
  /\ \A s \in Slot : tx[s].reserved => idem[tx[s].key] = None
  /\ \A s1, s2 \in Slot :
       /\ s1 # s2
       /\ tx[s1].reserved
       /\ tx[s2].reserved
       => tx[s1].key # tx[s2].key

(* Fingerprints hash the content of the job that carries them.             *)
Hashes(j, row) == row.fingerprint # None => row.fingerprint[1] = ContentOf[j]

FingerprintsDeclared ==
  /\ \A j \in Job : Hashes(j, jobs[j]) /\ Hashes(j, sweep.seen[j])
  /\ \A s \in Slot : /\ Hashes(tx[s].job, tx[s].seen)
                     /\ Hashes(tx[s].job, tx[s].work)
                     /\ Hashes(tx[s].job, tx[s].held)

(* Entries of a job with the content of job j are in the ledger.           *)
ContentApplied(j) ==
  \E i \in Job : HasEntries(i) /\ ContentOf[i] = ContentOf[j]

(* A commit that is about to succeed brings its entries or has found those *)
(* of a job with the same content.                                         *)
Answers ==
  /\ KeyRecordsApply
  /\ \A s \in Slot : tx[s].reserved /\ tx[s].pc = "done"
                     => tx[s].adds \/ ContentApplied(tx[s].job)

(* The fingerprint index over committed and uncommitted row versions.      *)
IndexUnique ==
  /\ LiveFingerprintUnique
  /\ \A s \in Slot : \A j \in Job \ {tx[s].job} : ~Clash(tx[s].held, jobs[j])
  /\ \A s1, s2 \in Slot : s1 # s2 => ~Clash(tx[s1].held, tx[s2].held)

IInv ==
  /\ TypeOK
  /\ RequestShape
  /\ AppliedCopies
  /\ Reservations
  /\ FingerprintsDeclared
  /\ Answers
  /\ IndexUnique

-----------------------------------------------------------------------------
(* The locks: what MutualWaitNeedsStaleCopy follows from.                  *)

(* Steps before the row of the job is written, and steps that follow the   *)
(* first flush.                                                            *)
Unwritten == {"idle", "put", "reserve", "save", "flush"}
Written == {"load", "match", "write", "apply"}

(* What record t of slot s says of the rows it holds: a row version once   *)
(* it has flushed, of a job nobody else has written; and of two requests   *)
(* about to write a validated fingerprint, the second saw the row that the *)
(* first has locked.                                                       *)
SlotLocks(s, t) ==
  /\ t.pc \in Unwritten => t.held = NoRow
  /\ t.pc \in Written => t.held # NoRow
  /\ t.held # NoRow => t.held.status # "absent"
  /\ t.op \notin {"none", "create"} => jobs[t.job].status # "absent"
  /\ t.pc \notin {"idle", "reserve"} => t.work.status # "absent"
  /\ (t.op = "validate" /\ t.pc \in {"save", "flush", "load", "match"})
       => t.seen.status # "absent"
  /\ t.pc = "reserve" => t.seen.status # "absent"
  /\ t.pc = "put" => t.op = "upload"
  /\ t.op = "none" => t.pc = "idle"
  /\ t.op = "create" => t.pc = "done" /\ t.cols = Column
  /\ \A s2 \in Slot \ {s} :
       /\ t.held # NoRow /\ tx[s2].held # NoRow => t.job # tx[s2].job
       /\ t.pc = "write" /\ tx[s2].pc = "write"
            => ~(Clash(t.work, jobs[tx[s2].job])
                 /\ Clash(tx[s2].work, jobs[t.job]))

(* A row is there or is not, and a sweep has listed rows that are.         *)
RowsExist ==
  /\ \A j \in Job : jobs[j].status = "absent" => jobs[j] = NoRow
  /\ \A j \in sweep.todo \cup sweep.saved : /\ jobs[j].status # "absent"
                                          /\ sweep.seen[j].status # "absent"

LockInv == RowsExist /\ \A s \in Slot : SlotLocks(s, tx[s])

-----------------------------------------------------------------------------
(* The object keys: no file belongs to two jobs.                           *)

(* Keys that the row of job j, or a copy of it, points to.                 *)
KeysOf(j) ==
  {key \in ObjectKey :
     \/ key \in {jobs[j].object_key, sweep.seen[j].object_key}
     \/ \E s \in Slot : /\ tx[s].job = j
                        /\ key \in {tx[s].seen.object_key,
                                    tx[s].work.object_key,
                                    tx[s].held.object_key}}

(* Jobs do not share files, whatever copies requests and sweeps write      *)
(* back: deleting the file of an ended job takes none from another job     *)
(* (upload makes every key of a fresh uuid4).                              *)
KeysApart == \A i, j \in Job : i # j => KeysOf(i) \cap KeysOf(j) = {}

-----------------------------------------------------------------------------
(* One thread beside the sweeps: what AppliesOnce, EntriesMeanApplied and  *)
(* OpenJobHasFile follow from.                                             *)

OneThread == \A s1, s2 \in Slot : s1 = s2

(* Statuses no transition leaves.                                          *)
Ended == {"applied", "cancelled", "failed"}

(* The row that COMMIT would leave for record t.                           *)
Outcome(t) ==
  Updated(IF t.held # NoRow THEN t.held ELSE jobs[t.job], t.work, t.cols)

(* The copies of a request agree with the committed row: nobody but the    *)
(* request changes a job that has not ended.                               *)
AloneCreate(t) ==
  t.op = "create" => /\ jobs[t.job].status = "absent"
                     /\ Outcome(t).status = "created"

AloneUpload(t) ==
  t.op = "upload" =>
    /\ jobs[t.job].status \in {"created", "uploaded"}
    /\ t.held = NoRow
    /\ t.work.status = "uploaded"
    /\ t.pc # "put" => t.work.object_key \in objects
    /\ t.pc = "done" => Outcome(t) = t.work

AloneCancel(t) ==
  t.op = "cancel" => /\ jobs[t.job].status \notin {"absent", "applied", "failed"}
                     /\ t.held = NoRow
                     /\ t.work.status = "cancelled"
                     /\ t.pc = "done" => Outcome(t).status = "cancelled"

AloneValidate(t) ==
  LET row == jobs[t.job]
  IN  t.op = "validate" =>
        /\ row.status \in {"uploaded", "ready", "invalid"}
        /\ t.pc \in {"save", "flush", "load", "match"}
             => t.seen = row /\ t.work = mark_processing(row)
        /\ t.pc = "flush" => Outcome(t) = t.work
        /\ t.pc \in {"load", "match", "write"}
             => t.held = mark_processing(row)
        /\ t.pc = "write" => /\ t.work.status \in {"ready", "invalid"}
                             /\ t.work.object_key = row.object_key
        /\ t.pc \in {"load", "match", "write"} => t.cols = {}
        /\ t.pc = "done"
             => /\ Outcome(t).status \in {"uploaded", "ready", "invalid"}
                /\ Outcome(t).object_key = row.object_key

AloneCommit(t) ==
  LET row == jobs[t.job]
  IN  t.op = "commit" =>
        /\ t.pc = "reserve" /\ t.seen.status = "ready" => t.seen = row
        /\ t.pc # "reserve" => row.status = "ready"
        /\ t.pc \in {"save", "flush", "match", "load", "apply"}
             => t.work = mark_processing(row)
        /\ t.pc = "flush" => Outcome(t) = t.work
        /\ t.pc \in {"match", "load", "apply"} => t.held = t.work
        /\ t.pc = "done" => /\ t.adds
                            /\ t.held # NoRow
                            /\ Outcome(t).status = "applied"

AloneShape(t) ==
  /\ AloneCreate(t)
  /\ AloneUpload(t)
  /\ AloneCancel(t)
  /\ AloneValidate(t)
  /\ AloneCommit(t)

(* A sweep works on jobs that have ended: none is left PROCESSING.         *)
AloneSweep ==
  /\ \A j \in Job : jobs[j].status # "processing"
  /\ sweep.kind # "timeout"
  /\ \A j \in sweep.todo \cup sweep.saved :
       /\ jobs[j].status \in Ended
       /\ sweep.seen[j].status = jobs[j].status

AloneInv ==
  /\ AppliesOnce
  /\ EntriesMeanApplied
  /\ OpenJobHasFile
  /\ AloneSweep
  /\ \A s \in Slot : AloneShape(tx[s])
=============================================================================

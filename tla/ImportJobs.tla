------------------------------ MODULE ImportJobs ------------------------------
(***************************************************************************)
(* Import jobs of BudgetLens: the requests that create, upload, validate,  *)
(* commit and cancel a job (application/imports.py), and the watchdog and  *)
(* the retention command that sweep over jobs (application/watchdog.py,    *)
(* application/retention.py).                                              *)
(*                                                                         *)
(* A request runs in one PostgreSQL transaction at READ COMMITTED.  It     *)
(* reads the job into a frozen domain object, works on that object, and    *)
(* `save' re-reads the row and overwrites it with the object; the UPDATE   *)
(* issued at the next flush carries the columns that differed from the     *)
(* re-read row.  The row is never locked when it is read.  A Slot is a     *)
(* server thread that runs one such request at a time; a step of a slot is *)
(* one database or storage call together with the code up to the next one. *)
(*                                                                         *)
(* Objects live outside the transaction: a put or a delete is immediate    *)
(* and survives the rollback of the request that made it.                  *)
(***************************************************************************)
EXTENDS Naturals

CONSTANTS
  Job,          \* import job ids
  Slot,         \* threads that serve requests (API workers and the CLI)
  IdemKey,      \* (user, Idempotency-Key) pairs used for "import.commit"
  ObjectKey,    \* object storage keys, uuid4 makes each one fresh
  Content,      \* what the fingerprint hashes of a job besides the mapping
  Mapping,      \* column mappings a caller may validate with
  Version,      \* budget versions that receive imports
  ContentOf,    \* the content (file hash, type, version) a job declares
  VersionOf,    \* the budget version of a job, None for actuals
  None

ASSUME ConstantsAssumption ==
  /\ ContentOf \in [Job -> Content]
  /\ VersionOf \in [Job -> Version \cup {None}]
  /\ None \notin Job \cup IdemKey \cup ObjectKey \cup Version
  /\ None \notin Content \X Mapping

VARIABLES
  jobs,       \* committed import_jobs rows
  idem,       \* committed idempotency records: key -> job, or None
  entries,    \* committed financial entries: batches inserted per job and key
  objects,    \* keys present in the object storage
  draft,      \* committed budget versions still in draft
  tx,         \* the request each slot is running
  sweep       \* the watchdog or retention pass in progress

vars == <<jobs, idem, entries, objects, draft, tx, sweep>>

-----------------------------------------------------------------------------
(* Rows and domain objects                                                 *)

ImportJobStatus == {"created", "uploaded", "processing", "ready", "invalid",
                    "applied", "cancelled", "failed"}

ALLOWED_TRANSITIONS ==
       {"created"}    \X {"uploaded", "cancelled"}
  \cup {"uploaded"}   \X {"processing", "ready", "invalid", "cancelled"}
  \cup {"processing"} \X {"ready", "invalid", "applied", "failed", "cancelled",
                          "processing"}
  \cup {"ready"}      \X {"processing", "applied", "cancelled", "invalid",
                          "failed", "ready"}
  \cup {"invalid"}    \X {"processing", "ready", "invalid", "cancelled"}

Fingerprint == Content \X Mapping

Row == [status: ImportJobStatus \cup {"absent"},
        object_key: ObjectKey \cup {None},
        fingerprint: Fingerprint \cup {None}]

NoRow == [status |-> "absent", object_key |-> None, fingerprint |-> None]

Column == {"status", "object_key", "fingerprint"}

(* The columns an UPDATE carries after `save' overwrote row with job.      *)
Changed(row, job) ==
  {c \in Column : \/ c = "status"      /\ row.status # job.status
                  \/ c = "object_key"  /\ row.object_key # job.object_key
                  \/ c = "fingerprint" /\ row.fingerprint # job.fingerprint}

Updated(row, job, cols) ==
  [status      |-> IF "status" \in cols THEN job.status ELSE row.status,
   object_key  |-> IF "object_key" \in cols THEN job.object_key
                                            ELSE row.object_key,
   fingerprint |-> IF "fingerprint" \in cols THEN job.fingerprint
                                             ELSE row.fingerprint]

(* Rows covered by the partial unique index ux_import_jobs_fingerprint.    *)
Indexed(row) ==
  /\ row.fingerprint # None
  /\ row.status \notin {"cancelled", "failed", "absent"}

Clash(row1, row2) ==
  Indexed(row1) /\ Indexed(row2) /\ row1.fingerprint = row2.fingerprint

(* `_transition' accepts the move.                                         *)
MayMove(from, to) == <<from, to>> \in ALLOWED_TRANSITIONS \/ from = to

mark_processing(job) == [job EXCEPT !.status = "processing"]
mark_uploaded(job, key) == [job EXCEPT !.status = "uploaded",
                                       !.object_key = key]
mark_validated(job, outcome, fp) == [job EXCEPT !.status = outcome,
                                                !.fingerprint = fp]
mark_applied(job) == [job EXCEPT !.status = "applied"]
mark_timed_out(job) == [job EXCEPT !.status = "failed"]
clear_object_key(job) == [job EXCEPT !.object_key = None]

cancelled(job) == IF job.status = "cancelled" THEN job
                  ELSE [job EXCEPT !.status = "cancelled",
                                   !.fingerprint = None]

-----------------------------------------------------------------------------
(* Requests                                                                *)

Op == {"create", "upload", "validate", "commit", "cancel", "none"}
Pc == {"idle", "put", "reserve", "save", "flush", "load", "match", "write",
       "apply", "done"}

Tx == [op: Op, pc: Pc,
       job: Job \cup {None},
       key: IdemKey \cup {None},
       seen: Row,              \* the domain object the request first read
       work: Row,              \* the domain object it will save
       cols: SUBSET Column,    \* columns the pending UPDATE carries
       held: Row,              \* its uncommitted row version, NoRow if none
       reserved: BOOLEAN,      \* its uncommitted idempotency record
       adds: BOOLEAN]          \* its uncommitted financial entries

Idle == [op |-> "none", pc |-> "idle", job |-> None, key |-> None,
         seen |-> NoRow, work |-> NoRow, cols |-> {}, held |-> NoRow,
         reserved |-> FALSE, adds |-> FALSE]

SweepState == [kind: {"idle", "purge", "timeout"},
               todo: SUBSET Job,
               saved: SUBSET Job,
               seen: [Job -> Row],
               cols: [Job -> SUBSET Column]]

NoSweep == [kind |-> "idle", todo |-> {}, saved |-> {},
            seen |-> [j \in Job |-> NoRow], cols |-> [j \in Job |-> {}]]

Init ==
  /\ jobs = [j \in Job |-> NoRow]
  /\ idem = [k \in IdemKey |-> None]
  /\ entries = [j \in Job |-> [k \in IdemKey |-> 0]]
  /\ objects = {}
  /\ draft = Version
  /\ tx = [s \in Slot |-> Idle]
  /\ sweep = NoSweep

(* The row as the slot's own transaction sees it.                          *)
Visible(s) == IF tx[s].held # NoRow THEN tx[s].held ELSE jobs[tx[s].job]

(* The version of an uncommitted row belongs to another transaction, so    *)
(* an UPDATE of the job waits.                                             *)
RowLocked(s, j) == \E s2 \in Slot \ {s} : tx[s2].held # NoRow /\ tx[s2].job = j

(* Mutant of IndexAdmits: the index is on fingerprint and status.          *)
IndexAdmitsPerStatus(s, j, row) ==
  \A i \in Job \ {j} : Clash(row, jobs[i]) => row.status # jobs[i].status

(* Writing row for job j passes the fingerprint index: no other committed  *)
(* row clashes (IntegrityError) and no uncommitted one might (it waits).   *)
IndexAdmits(s, j, row) ==
  /\ \A i \in Job \ {j} : ~Clash(row, jobs[i])
  /\ \A s2 \in Slot \ {s} : ~Clash(row, tx[s2].held)

KeyReserved(s, k) == \E s2 \in Slot \ {s} : tx[s2].reserved /\ tx[s2].key = k

(* `_require_version_for_create': actuals need no version, a budget needs  *)
(* one that accepts entries.                                               *)
VersionAccepts(j) == VersionOf[j] = None \/ VersionOf[j] \in draft

(* Mutant of SameFingerprint: leaves duplicates to the database index.     *)
NoLookup(j, fp) == {}

(* `get_by_fingerprint', leaving out the job itself.                       *)
SameFingerprint(j, fp) ==
  {i \in Job \ {j} : Indexed(jobs[i]) /\ jobs[i].fingerprint = fp}

(* uuid4: a key nothing refers to.                                         *)
FreshKey(key) ==
  /\ key \notin objects
  /\ \A j \in Job : key # jobs[j].object_key
  /\ \A s \in Slot : key \notin {tx[s].seen.object_key, tx[s].work.object_key,
                                 tx[s].held.object_key}
  /\ \A j \in Job : key # sweep.seen[j].object_key

Goto(s, pc) == tx' = [tx EXCEPT ![s].pc = pc]

Create(s, j) ==
  /\ tx[s] = Idle
  /\ jobs[j] = NoRow
  /\ \A s2 \in Slot : tx[s2].job # j
  /\ VersionAccepts(j)
  /\ tx' = [tx EXCEPT ![s] = [Idle EXCEPT !.op = "create", !.pc = "done",
                                          !.job = j, !.cols = Column,
                                          !.work.status = "created"]]
  /\ UNCHANGED <<jobs, idem, entries, objects, draft, sweep>>

Upload(s, j) ==
  /\ tx[s] = Idle
  /\ jobs[j].status \in {"created", "uploaded"}
  /\ \E key \in ObjectKey :
       /\ IF jobs[j].object_key = None THEN FreshKey(key)
                                       ELSE key = jobs[j].object_key
       /\ tx' = [tx EXCEPT ![s] =
                   [Idle EXCEPT !.op = "upload", !.pc = "put", !.job = j,
                                !.work = mark_uploaded(jobs[j], key)]]
  /\ UNCHANGED <<jobs, idem, entries, objects, draft, sweep>>

(* The object is written before the row that points to it.                 *)
PutObject(s) ==
  /\ tx[s].pc = "put"
  /\ objects' = objects \cup {tx[s].work.object_key}
  /\ Goto(s, "save")
  /\ UNCHANGED <<jobs, idem, entries, draft, sweep>>

(* Mutant of Cancel: no check of the status.                               *)
CancelAnything(s, j) ==
  /\ tx[s] = Idle
  /\ jobs[j] # NoRow
  /\ tx' = [tx EXCEPT ![s] = [Idle EXCEPT !.op = "cancel", !.pc = "save",
                                          !.job = j,
                                          !.work = cancelled(jobs[j])]]
  /\ UNCHANGED <<jobs, idem, entries, objects, draft, sweep>>

Cancel(s, j) ==
  /\ tx[s] = Idle
  /\ jobs[j].status \notin {"absent", "applied"}
  /\ MayMove(jobs[j].status, "cancelled")
  /\ tx' = [tx EXCEPT ![s] = [Idle EXCEPT !.op = "cancel", !.pc = "save",
                                          !.job = j,
                                          !.work = cancelled(jobs[j])]]
  /\ UNCHANGED <<jobs, idem, entries, objects, draft, sweep>>

Validate(s, j) ==
  /\ tx[s] = Idle
  /\ MayMove(jobs[j].status, "processing")
  /\ tx' = [tx EXCEPT ![s] = [Idle EXCEPT !.op = "validate", !.pc = "save",
                                          !.job = j, !.seen = jobs[j],
                                          !.work = mark_processing(jobs[j])]]
  /\ UNCHANGED <<jobs, idem, entries, objects, draft, sweep>>

Commit(s, j, k) ==
  /\ tx[s] = Idle
  /\ jobs[j] # NoRow
  /\ tx' = [tx EXCEPT ![s] = [Idle EXCEPT !.op = "commit", !.pc = "reserve",
                                          !.job = j, !.key = k,
                                          !.seen = jobs[j]]]
  /\ UNCHANGED <<jobs, idem, entries, objects, draft, sweep>>

Reserved(s) ==
  tx' = [tx EXCEPT ![s] = [@ EXCEPT !.pc = "save", !.reserved = TRUE,
                                    !.work = mark_processing(tx[s].seen),
                                    !.seen = NoRow]]

(* Mutant of Reserve: looks the key up but does not see that a concurrent  *)
(* request inserted it, nor what it committed since.                       *)
ReserveUnchecked(s) ==
  /\ tx[s].pc = "reserve"
  /\ tx[s].seen.status = "ready"
  /\ Reserved(s)
  /\ UNCHANGED <<jobs, idem, entries, objects, draft, sweep>>

(* Mutant of Reserve: no assert_committable.                               *)
ReserveAnyStatus(s) ==
  /\ tx[s].pc = "reserve"
  /\ ~KeyReserved(s, tx[s].key)
  /\ idem[tx[s].key] = None
  /\ Reserved(s)
  /\ UNCHANGED <<jobs, idem, entries, objects, draft, sweep>>

(* `replay_or_reserve' found nothing and its INSERT went through; the job  *)
(* read before it must be READY.                                           *)
Reserve(s) ==
  /\ tx[s].pc = "reserve"
  /\ ~KeyReserved(s, tx[s].key)
  /\ idem[tx[s].key] = None
  /\ tx[s].seen.status = "ready"
  /\ Reserved(s)
  /\ UNCHANGED <<jobs, idem, entries, objects, draft, sweep>>

(* The key was used before for this job: the answer is the stored job.     *)
Replay(s) ==
  /\ tx[s].pc = "reserve"
  /\ ~KeyReserved(s, tx[s].key)
  /\ idem[tx[s].key] = tx[s].job
  /\ tx' = [tx EXCEPT ![s] = Idle]
  /\ UNCHANGED <<jobs, idem, entries, objects, draft, sweep>>

(* `save': SELECT the row again and overwrite it in memory.  Uploads and   *)
(* cancellations leave the UPDATE to the commit.                           *)
Save(s) ==
  /\ tx[s].pc = "save"
  /\ tx' = [tx EXCEPT ![s].cols = Changed(Visible(s), tx[s].work),
                      ![s].pc = IF tx[s].op \in {"validate", "commit"}
                                THEN "flush" ELSE "done"]
  /\ UNCHANGED <<jobs, idem, entries, objects, draft, sweep>>

(* The UPDATE of `_persist_processing', which takes the row lock.          *)
Flush(s) ==
  LET row == Updated(jobs[tx[s].job], tx[s].work, tx[s].cols)
  IN  /\ tx[s].pc = "flush"
      /\ ~RowLocked(s, tx[s].job)
      /\ IndexAdmits(s, tx[s].job, row)
      /\ tx' = [tx EXCEPT ![s].held = row,
                          ![s].cols = {},
                          ![s].pc = IF tx[s].op = "validate" THEN "load"
                                                             ELSE "match"]
      /\ UNCHANGED <<jobs, idem, entries, objects, draft, sweep>>

(* `storage.get': NotFoundError, hence a rollback, when it is missing.     *)
LoadTable(s) ==
  /\ tx[s].pc = "load"
  /\ tx[s].work.object_key \in objects
  /\ Goto(s, IF tx[s].op = "validate" THEN "match" ELSE "apply")
  /\ UNCHANGED <<jobs, idem, entries, objects, draft, sweep>>

(* Another job has the fingerprint: put the row back as it was read and    *)
(* answer with that job.                                                   *)
ReturnExisting(s) ==
  /\ tx[s].pc = "match" /\ tx[s].op = "validate"
  /\ \E m \in Mapping :
       \E i \in SameFingerprint(tx[s].job, <<ContentOf[tx[s].job], m>>) :
         jobs[i].status # "processing"
  /\ tx' = [tx EXCEPT ![s] = [@ EXCEPT !.work = tx[s].seen, !.pc = "done",
                               !.seen = NoRow,
                               !.cols = Changed(tx[s].held, tx[s].seen)]]
  /\ UNCHANGED <<jobs, idem, entries, objects, draft, sweep>>

(* `_collect_rows' finds errors or none; what it reads is abstracted.      *)
CheckRows(s) ==
  /\ tx[s].pc = "match" /\ tx[s].op = "validate"
  /\ \E m \in Mapping, outcome \in {"ready", "invalid"} :
       LET fp == <<ContentOf[tx[s].job], m>>
       IN  /\ SameFingerprint(tx[s].job, fp) = {}
           /\ MayMove(tx[s].work.status, outcome)
           /\ tx' = [tx EXCEPT ![s] =
                       [@ EXCEPT !.pc = "write", !.seen = NoRow,
                          !.work = mark_validated(tx[s].work, outcome, fp)]]
  /\ UNCHANGED <<jobs, idem, entries, objects, draft, sweep>>

(* The second save of a validation, flushed at once.                       *)
WriteValidated(s) ==
  /\ tx[s].pc = "write"
  /\ IndexAdmits(s, tx[s].job, tx[s].work)
  /\ tx' = [tx EXCEPT ![s].held = tx[s].work, ![s].pc = "done"]
  /\ UNCHANGED <<jobs, idem, entries, objects, draft, sweep>>

(* The fingerprint check of `_commit_body' finds no other job.             *)
MatchNone(s) ==
  /\ tx[s].pc = "match" /\ tx[s].op = "commit"
  /\ \/ tx[s].work.fingerprint = None
     \/ SameFingerprint(tx[s].job, tx[s].work.fingerprint) = {}
  /\ Goto(s, "load")
  /\ UNCHANGED <<jobs, idem, entries, objects, draft, sweep>>

(* Mutant of MatchApplied: returns the other job whatever its status.      *)
MatchAny(s) ==
  /\ tx[s].pc = "match" /\ tx[s].op = "commit"
  /\ tx[s].work.fingerprint # None
  /\ SameFingerprint(tx[s].job, tx[s].work.fingerprint) # {}
  /\ Goto(s, "done")
  /\ UNCHANGED <<jobs, idem, entries, objects, draft, sweep>>

(* Another job with the fingerprint is applied already: return it.  The    *)
(* PROCESSING row flushed before stays in the transaction.                 *)
MatchApplied(s) ==
  /\ tx[s].pc = "match" /\ tx[s].op = "commit"
  /\ tx[s].work.fingerprint # None
  /\ \E i \in SameFingerprint(tx[s].job, tx[s].work.fingerprint) :
       jobs[i].status = "applied"
  /\ Goto(s, "done")
  /\ UNCHANGED <<jobs, idem, entries, objects, draft, sweep>>

(* The version check, the entries and the final save of `_commit_body'.    *)
Apply(s) ==
  /\ tx[s].pc = "apply"
  /\ VersionAccepts(tx[s].job)
  /\ MayMove(tx[s].work.status, "applied")
  /\ LET job == mark_applied(tx[s].work)
     IN  tx' = [tx EXCEPT ![s] = [@ EXCEPT !.work = job, !.adds = TRUE,
                                    !.cols = Changed(tx[s].held, job),
                                    !.pc = "done"]]
  /\ UNCHANGED <<jobs, idem, entries, objects, draft, sweep>>

(* The handler has returned and its answer is sent: flush what is pending  *)
(* and COMMIT.                                                             *)
CommitTx(s) ==
  LET t == tx[s]
      row == Updated(Visible(s), t.work, t.cols)
      writes == t.cols # {} \/ t.held # NoRow
  IN  /\ t.pc = "done"
      /\ writes => /\ ~RowLocked(s, t.job)
                   /\ IndexAdmits(s, t.job, row)
      /\ jobs' = IF writes THEN [jobs EXCEPT ![t.job] = row] ELSE jobs
      /\ idem' = IF t.reserved THEN [idem EXCEPT ![t.key] = t.job] ELSE idem
      /\ entries' = IF t.adds THEN [entries EXCEPT ![t.job][t.key] = @ + 1]
                              ELSE entries
      /\ tx' = [tx EXCEPT ![s] = Idle]
      /\ UNCHANGED <<objects, draft, sweep>>

(* Mutant of Rollback: `save' wrote the job outside the transaction.       *)
RollbackKeepsRow(s) ==
  /\ tx[s] # Idle
  /\ jobs' = IF tx[s].held # NoRow
             THEN [jobs EXCEPT ![tx[s].job] = tx[s].work] ELSE jobs
  /\ tx' = [tx EXCEPT ![s] = Idle]
  /\ UNCHANGED <<idem, entries, objects, draft, sweep>>

(* Mutant of Rollback: the key was reserved outside the transaction.       *)
RollbackKeepsKey(s) ==
  /\ tx[s] # Idle
  /\ idem' = IF tx[s].reserved THEN [idem EXCEPT ![tx[s].key] = tx[s].job]
                               ELSE idem
  /\ tx' = [tx EXCEPT ![s] = Idle]
  /\ UNCHANGED <<jobs, entries, objects, draft, sweep>>

(* An error raised by the handler or by the database, a lost connection    *)
(* or the death of the process: everything but the objects is undone.      *)
Rollback(s) ==
  /\ tx[s] # Idle
  /\ tx' = [tx EXCEPT ![s] = Idle]
  /\ UNCHANGED <<jobs, idem, entries, objects, draft, sweep>>

-----------------------------------------------------------------------------
(* The sweeps: one transaction over a list of jobs read at its start       *)

(* Mutant of StaleProcessing: lists validated jobs only.                   *)
StaleValidated ==
  {j \in Job : jobs[j].status = "processing" /\ jobs[j].fingerprint # None}

StaleProcessing == {j \in Job : jobs[j].status = "processing"}

(* Mutant of ExpiredOriginals: every job that stopped, invalid ones too.   *)
ExpiredAndInvalid ==
  {j \in Job : /\ jobs[j].object_key # None
               /\ jobs[j].status \in {"applied", "cancelled", "failed",
                                      "invalid"}}

ExpiredOriginals ==
  {j \in Job : /\ jobs[j].object_key # None
               /\ jobs[j].status \in {"applied", "cancelled", "failed"}}

StartSweep(kind, S) ==
  /\ sweep = NoSweep
  /\ sweep' = [NoSweep EXCEPT
                 !.kind = kind, !.todo = S,
                 !.seen = [j \in Job |-> IF j \in S THEN jobs[j] ELSE NoRow]]
  /\ UNCHANGED <<jobs, idem, entries, objects, draft, tx>>

(* S: the jobs whose started_at lies before the cutoff.                    *)
ListStale ==
  \E S \in (SUBSET StaleProcessing) \ {{}} : StartSweep("timeout", S)

(* S: the jobs whose created_at lies before the cutoff.                    *)
ListExpired ==
  \E S \in (SUBSET ExpiredOriginals) \ {{}} : StartSweep("purge", S)

Swept(j) == IF sweep.kind = "purge" THEN clear_object_key(sweep.seen[j])
                                    ELSE mark_timed_out(sweep.seen[j])

SweepJob(j) ==
  /\ j \in sweep.todo
  /\ sweep' = [sweep EXCEPT !.todo = @ \ {j},
                            !.saved = @ \cup {j},
                            !.cols[j] = Changed(jobs[j], Swept(j))]
  /\ objects' = IF sweep.kind = "purge"
                THEN objects \ {sweep.seen[j].object_key} ELSE objects
  /\ UNCHANGED <<jobs, idem, entries, draft, tx>>

SweepCommit ==
  LET swept == [j \in Job |-> IF j \in sweep.saved
                              THEN Updated(jobs[j], Swept(j), sweep.cols[j])
                              ELSE jobs[j]]
  IN  /\ sweep.kind # "idle" /\ sweep.todo = {}
      /\ \A j \in sweep.saved, s \in Slot :
           /\ tx[s].held # NoRow => tx[s].job # j
           /\ ~Clash(swept[j], tx[s].held)
      /\ \A i, j \in Job : i # j => ~Clash(swept[i], swept[j])
      /\ jobs' = swept
      /\ sweep' = NoSweep
      /\ UNCHANGED <<idem, entries, objects, draft, tx>>

SweepAbort ==
  /\ sweep # NoSweep
  /\ sweep' = NoSweep
  /\ UNCHANGED <<jobs, idem, entries, objects, draft, tx>>

(* A version leaves the draft state (published or archived).               *)
CloseVersion(v) ==
  /\ v \in draft
  /\ draft' = draft \ {v}
  /\ UNCHANGED <<jobs, idem, entries, objects, tx, sweep>>

-----------------------------------------------------------------------------
Begin(s) ==
  \E j \in Job :
    \/ Create(s, j) \/ Upload(s, j) \/ Validate(s, j) \/ Cancel(s, j)
    \/ \E k \in IdemKey : Commit(s, j, k)

Continue(s) ==
  \/ PutObject(s) \/ Reserve(s) \/ Replay(s) \/ Save(s) \/ Flush(s)
  \/ LoadTable(s) \/ ReturnExisting(s) \/ CheckRows(s) \/ WriteValidated(s)
  \/ MatchNone(s) \/ MatchApplied(s) \/ Apply(s) \/ CommitTx(s)

(* One pass of the watchdog loop (run_worker_loop) and of retain-files.    *)
TimeoutSweep == \/ ListStale \/ (\E j \in Job : SweepJob(j))
                \/ SweepCommit \/ SweepAbort

Sweep == TimeoutSweep \/ ListExpired

Next ==
  \/ \E s \in Slot : Begin(s) \/ Continue(s) \/ Rollback(s)
  \/ Sweep
  \/ \E v \in Version : CloseVersion(v)

Spec == Init /\ [][Next]_vars

(* A request that can go on does so or fails; the loop lists every job     *)
(* that has been PROCESSING for long enough, writes them one by one and    *)
(* gets the row locks it queues for; the database does not fail forever.   *)
WatchdogFairness ==
  /\ \A s \in Slot : WF_vars(Continue(s) \/ Rollback(s))
  /\ WF_vars(StaleProcessing # {} /\ StartSweep("timeout", StaleProcessing))
  /\ WF_vars(\E j \in Job : SweepJob(j))
  /\ SF_vars(SweepCommit)
  /\ <>[][~SweepAbort]_vars
-----------------------------------------------------------------------------
(* Properties                                                              *)

(* Every variable keeps the shape its declaration comments give.           *)
TypeOK ==
  /\ jobs \in [Job -> Row]
  /\ idem \in [IdemKey -> Job \cup {None}]
  /\ entries \in [Job -> [IdemKey -> Nat]]
  /\ objects \in SUBSET ObjectKey
  /\ draft \in SUBSET Version
  /\ tx \in [Slot -> Tx]
  /\ sweep \in SweepState

HasEntries(j) == \E k \in IdemKey : entries[j][k] > 0

(* A job that reads APPLIED has its rows in financial_entries, whatever    *)
(* stale copies of the job other requests and sweeps write back            *)
(* (_commit_body inserts the entries and saves the job in one              *)
(* transaction).                                                           *)
AppliedHasEntries ==
  \A j \in Job : jobs[j].status = "applied" => HasEntries(j)

(* A key of "import.commit" inserts rows at most once, and rows are never  *)
(* inserted without the record that makes a retry replay                   *)
(* (replay_or_reserve).                                                    *)
KeyInsertsOnce ==
  \A j \in Job, k \in IdemKey :
    /\ entries[j][k] <= 1
    /\ entries[j][k] = 1 => idem[k] = j

(* A stored key stands for an apply that happened: of its own job or, when *)
(* _commit_body answers with another job, of one with the same content.  A *)
(* failed commit never leaves a record that would turn the retry into a    *)
(* replay of nothing.                                                      *)
KeyRecordsApply ==
  \A j \in Job, k \in IdemKey :
    idem[k] = j => \/ entries[j][k] = 1
                   \/ \E i \in Job : /\ HasEntries(i)
                                     /\ ContentOf[i] = ContentOf[j]

(* Two jobs that are neither cancelled nor failed never carry the same     *)
(* fingerprint, however their validations, commits and cancellations       *)
(* interleave.                                                             *)
LiveFingerprintUnique ==
  \A i, j \in Job : i # j => ~Clash(jobs[i], jobs[j])

(* s1 cannot go on before s2 ends: the idempotency key, the job row or an  *)
(* entry of the fingerprint index it needs is in the hands of s2.          *)
WaitsFor(s1, s2) ==
  LET t == tx[s1]
      row == CASE t.pc = "flush" -> Updated(jobs[t.job], t.work, t.cols)
               [] t.pc = "write" -> t.work
               [] t.pc = "done" /\ (t.cols # {} \/ t.held # NoRow) ->
                    Updated(Visible(s1), t.work, t.cols)
               [] OTHER -> NoRow
  IN  /\ s1 # s2
      /\ \/ t.pc = "reserve" /\ tx[s2].reserved /\ tx[s2].key = t.key
         \/ /\ row # NoRow
            /\ tx[s2].held # NoRow
            /\ \/ tx[s2].job = t.job
               \/ Clash(row, tx[s2].held)
               \/ Clash(row, jobs[tx[s2].job])

(* The row that the transaction of s has written, or is about to write,    *)
(* for its job.                                                            *)
Pending(s) == IF tx[s].pc = "done"
              THEN Updated(Visible(s), tx[s].work, tx[s].cols)
              ELSE tx[s].held

(* Requests take the idempotency key, then the job row, then the           *)
(* fingerprint, and get_by_fingerprint turns a taken fingerprint away      *)
(* before the last.  So two of them wait for each other (a deadlock that   *)
(* PostgreSQL has to break) only when one writes back, from a stale copy   *)
(* of its job, an index entry that a concurrent cancellation, upload or    *)
(* validation has removed from the committed row.                          *)
MutualWaitNeedsStaleCopy ==
  \A s1, s2 \in Slot :
    WaitsFor(s1, s2) /\ WaitsFor(s2, s1)
      => \E s \in {s1, s2} : /\ Indexed(Pending(s))
                             /\ ~Clash(Pending(s), jobs[tx[s].job])

(* The rows of a job are inserted once.                                    *)
AppliesOnce ==
  \A j \in Job : \A k1, k2 \in IdemKey :
    /\ entries[j][k1] <= 1
    /\ entries[j][k1] > 0 /\ entries[j][k2] > 0 => k1 = k2

(* A job whose rows are in the ledger reads APPLIED.                       *)
EntriesMeanApplied ==
  \A j \in Job : HasEntries(j) => jobs[j].status = "applied"

(* A job that can still be validated or committed has the file its row     *)
(* points to: uploads write it first, the retention command only deletes   *)
(* files of applied, cancelled and failed jobs.                            *)
OpenJobHasFile ==
  \A j \in Job :
    jobs[j].status \in {"uploaded", "processing", "ready", "invalid"}
      => jobs[j].object_key \in objects

(* A job whose rows are in the ledger cannot be cancelled (cancel).        *)
AppliedNotCancelled ==
  [][\A j \in Job : jobs[j].status = "applied"
                    => jobs'[j].status # "cancelled"]_vars

(* A budget version that is no longer a draft receives no new entries.     *)
ClosedVersionFrozen ==
  [][\A j \in Job : entries'[j] # entries[j] => VersionAccepts(j)]_vars

(* The committed rows of requests keep what POST /imports/{id}/commit      *)
(* promises: each step is a step of ImportLedger or leaves it alone.       *)
Ledger == INSTANCE ImportLedger WITH answered <- idem, ledger <- entries
ImplementsLedger == Ledger!Spec

(* No job stays PROCESSING: the watchdog ends it, whatever the requests do *)
(* meanwhile (timeout_stale_jobs).                                         *)
ProcessingEnds ==
  \A j \in Job : jobs[j].status = "processing" ~> jobs[j].status # "processing"
=============================================================================

---------------------------- MODULE BudgetVersions ----------------------------
(***************************************************************************)
(* Budget versions of BudgetLens: draft, publish, activate, archive        *)
(* (application/budget_versions.py, domain/budget_version.py).             *)
(*                                                                         *)
(* Requests run as in ImportJobs: one READ COMMITTED transaction each; a   *)
(* row is read without a lock into a frozen object; `save' re-reads the    *)
(* row and the next flush sends an UPDATE of the columns that differed.    *)
(* PATCH and activate flush themselves, publish and archive leave the      *)
(* UPDATE and the INSERT of their idempotency record to the COMMIT.        *)
(***************************************************************************)
EXTENDS Naturals

CONSTANTS
  BudgetVersion,  \* version ids
  Name,           \* normalized names
  Year,           \* fiscal years
  YearOf,         \* the fiscal year a version is created for
  Slot,           \* threads that serve requests
  IdemKey,        \* (user, Idempotency-Key) pairs
  MaxVersion,     \* bound: a draft is renamed below this version number only
  None

ASSUME VersionsAssumption ==
  /\ YearOf \in [BudgetVersion -> Year]
  /\ MaxVersion \in Nat
  /\ None \notin BudgetVersion \cup Name \cup IdemKey

(* The operations that take an Idempotency-Key, and their (operation, key) *)
(* scopes.  A scope also names the moment of the request that used it.     *)
TransitionOp == {"publish", "activate", "archive"}
Scope == TransitionOp \X IdemKey

ASSUME ScopeAssumption == None \notin Scope

VARIABLES
  rows,   \* committed budget_versions rows
  idem,   \* committed idempotency records: scope -> version, or None
  tx      \* the request each slot is running

vars == <<rows, idem, tx>>

-----------------------------------------------------------------------------
(* Rows and domain objects                                                 *)

BudgetVersionStatus == {"draft", "published", "archived"}

Row == [status: BudgetVersionStatus \cup {"absent"},
        is_active: BOOLEAN,
        published_at: Scope \cup {None},
        name: Name \cup {None},
        version: Nat]

NoRow == [status |-> "absent", is_active |-> FALSE, published_at |-> None,
          name |-> None, version |-> 0]

Draft(name) == [NoRow EXCEPT !.status = "draft", !.name = name, !.version = 1]

(* Mutant of with_draft_metadata: the counter is not advanced.             *)
rename_silently(v, name) == [v EXCEPT !.name = name]

with_draft_metadata(v, name) == [v EXCEPT !.name = name, !.version = @ + 1]

publish(v, now) ==
  IF v.status = "published" THEN v
  ELSE [v EXCEPT !.status = "published", !.published_at = now,
                 !.version = @ + 1]

activate(v) == IF v.is_active THEN v
               ELSE [v EXCEPT !.is_active = TRUE, !.version = @ + 1]

(* Mutant of deactivate: the counter is not advanced.                      *)
deactivate_silently(v) == [v EXCEPT !.is_active = FALSE]

deactivate(v) == IF ~v.is_active THEN v
                 ELSE [v EXCEPT !.is_active = FALSE, !.version = @ + 1]

archive(v, now) ==
  IF v.status = "archived" THEN v
  ELSE [v EXCEPT !.status = "archived", !.is_active = FALSE,
                 !.published_at = IF @ = None THEN now ELSE @,
                 !.version = @ + 1]

Column == {"status", "is_active", "published_at", "name", "version"}

(* The columns an UPDATE carries after `save' overwrote row with v.        *)
Changed(row, v) == {c \in Column : row[c] # v[c]}

Updated(row, v, cols) ==
  [status       |-> IF "status" \in cols THEN v.status ELSE row.status,
   is_active    |-> IF "is_active" \in cols THEN v.is_active ELSE row.is_active,
   published_at |-> IF "published_at" \in cols THEN v.published_at
                                               ELSE row.published_at,
   name         |-> IF "name" \in cols THEN v.name ELSE row.name,
   version      |-> IF "version" \in cols THEN v.version ELSE row.version]

(* Rows covered by the partial unique index ux_budget_versions_one_active. *)
Active(row) == row.is_active /\ row.status = "published"

(* Rows i and j break ux_budget_versions_one_active or                     *)
(* uq_budget_versions_org_fy_name.                                         *)
Clash(i, row1, j, row2) ==
  /\ YearOf[i] = YearOf[j]
  /\ \/ Active(row1) /\ Active(row2)
     \/ row1.name # None /\ row1.name = row2.name

-----------------------------------------------------------------------------
(* Requests                                                                *)

Tx == [op: TransitionOp \cup {"create", "update", "none"},
       pc: {"idle", "save", "reserve", "apply", "active", "deactivate",
            "flush", "activate", "done"},
       id: BudgetVersion \cup {None},     \* the version of the request
       key: IdemKey \cup {None},
       at: BudgetVersion \cup {None},     \* the version being saved
       work: Row,                         \* the object of the request
       other: Row,                        \* the object of the active version
       seen: [BudgetVersion -> SUBSET Row],  \* the committed rows they rest on
       cols: SUBSET Column,               \* columns of the pending UPDATE
       held: [BudgetVersion -> Row],      \* uncommitted rows, NoRow if none
       reserved: BOOLEAN]                 \* the record is inserted

Idle == [op |-> "none", pc |-> "idle", id |-> None, key |-> None,
         at |-> None, work |-> NoRow, other |-> NoRow, cols |-> {},
         seen |-> [v \in BudgetVersion |-> {}],
         held |-> [v \in BudgetVersion |-> NoRow], reserved |-> FALSE]

Init ==
  /\ rows = [v \in BudgetVersion |-> NoRow]
  /\ idem = [u \in Scope |-> None]
  /\ tx = [s \in Slot |-> Idle]

(* Row v as the transaction of the slot sees it.                           *)
Visible(s, v) == IF tx[s].held[v] # NoRow THEN tx[s].held[v] ELSE rows[v]

(* What request r has seen once it has read version v.                     *)
Having(r, v) == [r.seen EXCEPT ![v] = @ \cup {rows[v]}]

(* The UPDATE the slot would send, and the row it leaves.                  *)
Saving(s) == IF tx[s].at = tx[s].id THEN tx[s].work ELSE tx[s].other
Saved(s) == Updated(Visible(s, tx[s].at), Saving(s), tx[s].cols)

(* Mutant of Admits: the database has no index of active versions.         *)
AdmitsNames(s, v, row) ==
  /\ \A w \in BudgetVersion \ {v} :
       YearOf[v] = YearOf[w] => row.name # Visible(s, w).name
  /\ \A s2 \in Slot \ {s} : tx[s2].held[v] = NoRow

(* Mutant of Admits: the uniqueness of names is left to get_by_name.       *)
AdmitsActive(s, v, row) ==
  \A s2 \in Slot \ {s}, w \in BudgetVersion \ {v} :
    /\ tx[s2].held[v] = NoRow
    /\ ~(YearOf[v] = YearOf[w] /\ Active(row) /\ Active(rows[w]))

(* Writing row for version v violates no constraint (IntegrityError) and   *)
(* waits for nobody: no other transaction holds v, or has written or       *)
(* removed a row that clashes.                                             *)
Admits(s, v, row) ==
  /\ row.status # "draft" => row.published_at # None
  /\ \A w \in BudgetVersion \ {v} : ~Clash(v, row, w, Visible(s, w))
  /\ \A s2 \in Slot \ {s} :
       /\ tx[s2].held[v] = NoRow
       /\ \A w \in BudgetVersion \ {v} :
            tx[s2].held[w] # NoRow => /\ ~Clash(v, row, w, rows[w])
                                      /\ ~Clash(v, row, w, tx[s2].held[w])

(* The idempotency scope of the request.                                   *)
Used(s) == <<tx[s].op, tx[s].key>>

(* The INSERT of the record meets no other, committed or not.              *)
Unused(s) ==
  /\ idem[Used(s)] = None
  /\ \A s2 \in Slot \ {s} : tx[s2].reserved => Used(s2) # Used(s)

Create(s, v, name) ==
  /\ tx[s] = Idle
  /\ rows[v] = NoRow
  /\ \A s2 \in Slot : tx[s2].id # v
  /\ \A w \in BudgetVersion :
       YearOf[w] = YearOf[v] => rows[w].name # name
  /\ tx' = [tx EXCEPT ![s] =
              [Idle EXCEPT !.op = "create", !.pc = "flush", !.id = v, !.at = v,
                           !.cols = Column, !.work = Draft(name),
                           !.seen = Having(Idle, v)]]
  /\ UNCHANGED <<rows, idem>>

(* Mutant of Update: with_draft_metadata does not look at the status.      *)
UpdateAny(s, v, name) ==
  /\ tx[s] = Idle
  /\ rows[v] # NoRow
  /\ rows[v].version < MaxVersion
  /\ tx' = [tx EXCEPT ![s] =
              [Idle EXCEPT !.op = "update", !.pc = "save", !.id = v, !.at = v,
                           !.work = with_draft_metadata(rows[v], name),
                           !.seen = Having(Idle, v)]]
  /\ UNCHANGED <<rows, idem>>

(* PATCH: the caller sends the version number it has read, and it is the   *)
(* one of the row.                                                         *)
Update(s, v, name) ==
  /\ tx[s] = Idle
  /\ rows[v].status = "draft"
  /\ rows[v].version < MaxVersion
  /\ tx' = [tx EXCEPT ![s] =
              [Idle EXCEPT !.op = "update", !.pc = "save", !.id = v, !.at = v,
                           !.work = with_draft_metadata(rows[v], name),
                           !.seen = Having(Idle, v)]]
  /\ UNCHANGED <<rows, idem>>

(* publish, activate and archive read the version first.                   *)
Transition(s, op, v, key) ==
  /\ tx[s] = Idle
  /\ rows[v] # NoRow
  /\ tx' = [tx EXCEPT ![s] =
              [Idle EXCEPT !.op = op, !.pc = "reserve", !.id = v, !.at = v,
                           !.key = key, !.work = rows[v],
                           !.seen = Having(Idle, v)]]
  /\ UNCHANGED <<rows, idem>>

(* `_replay_or_reserve' finds no record; the new one is only added to the  *)
(* session.                                                                *)
Reserve(s) ==
  /\ tx[s].pc = "reserve"
  /\ idem[Used(s)] = None
  /\ tx' = [tx EXCEPT ![s].pc = IF tx[s].op = "activate" THEN "active"
                                                         ELSE "apply"]
  /\ UNCHANGED <<rows, idem>>

(* The key was used before for this version: answer with the stored row.   *)
Replay(s) ==
  /\ tx[s].pc = "reserve"
  /\ idem[Used(s)] = tx[s].id
  /\ tx' = [tx EXCEPT ![s] = Idle]
  /\ UNCHANGED <<rows, idem>>

(* `repo.save(v)': SELECT the row again and overwrite it in memory.        *)
SaveWork(s, v, pc) ==
  /\ tx' = [tx EXCEPT ![s] = [@ EXCEPT !.work = v, !.at = tx[s].id, !.pc = pc,
                                !.cols = Changed(Visible(s, tx[s].id), v),
                                !.seen = Having(tx[s], tx[s].id)]]
  /\ UNCHANGED <<rows, idem>>

Rename(s) == tx[s].pc = "save" /\ SaveWork(s, tx[s].work, "flush")

Publish(s) ==
  /\ tx[s].pc = "apply" /\ tx[s].op = "publish"
  /\ tx[s].work.status # "archived"
  /\ SaveWork(s, publish(tx[s].work, Used(s)), "done")

Archive(s) ==
  /\ tx[s].pc = "apply" /\ tx[s].op = "archive"
  /\ SaveWork(s, archive(tx[s].work, Used(s)), "done")

(* `get_active' of the fiscal year, leaving out the version itself.        *)
ActiveOthers(v) == {w \in BudgetVersion \ {v} : /\ YearOf[w] = YearOf[v]
                                                /\ Active(rows[w])}

GetActive(s) ==
  /\ tx[s].pc = "active"
  /\ \/ /\ ActiveOthers(tx[s].id) = {}
        /\ tx' = [tx EXCEPT ![s].pc = "activate"]
     \/ \E w \in ActiveOthers(tx[s].id) :
          tx' = [tx EXCEPT ![s] = [@ EXCEPT !.pc = "deactivate", !.at = w,
                                            !.other = deactivate(rows[w]),
                                            !.seen = Having(tx[s], w)]]
  /\ UNCHANGED <<rows, idem>>

(* `repo.save(previous.deactivate())'.                                     *)
Deactivate(s) ==
  /\ tx[s].pc = "deactivate"
  /\ tx' = [tx EXCEPT ![s] =
              [@ EXCEPT !.cols = Changed(rows[tx[s].at], tx[s].other),
                        !.seen = Having(tx[s], tx[s].at),
                        !.pc = "flush"]]
  /\ UNCHANGED <<rows, idem>>

(* Mutant of Activate: any version may be activated.                       *)
ActivateAny(s) ==
  /\ tx[s].pc = "activate"
  /\ SaveWork(s, activate(tx[s].work), "flush")

(* The version as it was read at the start must be published.              *)
Activate(s) ==
  /\ tx[s].pc = "activate"
  /\ tx[s].work.status = "published"
  /\ SaveWork(s, activate(tx[s].work), "flush")

(* A flush sends what is pending: the INSERT of the record and the UPDATE  *)
(* of the row.                                                             *)
Inserts(s) == tx[s].op \in TransitionOp /\ ~tx[s].reserved

Flushable(s) ==
  /\ Inserts(s) => Unused(s)
  /\ tx[s].cols # {} => Admits(s, tx[s].at, Saved(s))

HeldAfter(s) == IF tx[s].cols = {} THEN tx[s].held
                ELSE [tx[s].held EXCEPT ![tx[s].at] = Saved(s)]

(* Mutant of Flush: each write is committed at once.                       *)
FlushAndCommit(s) ==
  /\ tx[s].pc = "flush"
  /\ Flushable(s)
  /\ rows' = [rows EXCEPT ![tx[s].at] = Saved(s)]
  /\ tx' = [tx EXCEPT ![s].cols = {},
                      ![s].pc = IF tx[s].at = tx[s].id THEN "done"
                                                       ELSE "activate"]
  /\ UNCHANGED idem

Flush(s) ==
  /\ tx[s].pc = "flush"
  /\ Flushable(s)
  /\ tx' = [tx EXCEPT ![s] =
              [@ EXCEPT !.held = HeldAfter(s),
                        !.cols = {},
                        !.reserved = tx[s].op \in TransitionOp,
                        !.pc = IF tx[s].at = tx[s].id THEN "done"
                                                      ELSE "activate"]]
  /\ UNCHANGED <<rows, idem>>

CommitTx(s) ==
  /\ tx[s].pc = "done"
  /\ Flushable(s)
  /\ rows' = [v \in BudgetVersion |->
               IF v = tx[s].at /\ tx[s].cols # {} THEN Saved(s)
                                                  ELSE Visible(s, v)]
  /\ idem' = IF tx[s].op \in TransitionOp
             THEN [idem EXCEPT ![Used(s)] = tx[s].id] ELSE idem
  /\ tx' = [tx EXCEPT ![s] = Idle]

(* An error raised by the handler or the database, a deadlock the database *)
(* breaks, a lost connection or the death of the process.                  *)
Rollback(s) ==
  /\ tx[s] # Idle
  /\ tx' = [tx EXCEPT ![s] = Idle]
  /\ UNCHANGED <<rows, idem>>

-----------------------------------------------------------------------------
Begin(s) ==
  \E v \in BudgetVersion :
    \/ \E name \in Name : Create(s, v, name) \/ Update(s, v, name)
    \/ \E op \in TransitionOp, key \in IdemKey : Transition(s, op, v, key)

Continue(s) ==
  \/ Reserve(s) \/ Replay(s) \/ Rename(s) \/ Publish(s) \/ Archive(s)
  \/ GetActive(s) \/ Deactivate(s) \/ Activate(s) \/ Flush(s) \/ CommitTx(s)

Next == \E s \in Slot : Begin(s) \/ Continue(s) \/ Rollback(s)

Spec == Init /\ [][Next]_vars

-----------------------------------------------------------------------------
(* Properties                                                              *)

(* Every variable keeps the shape its declaration gives.                   *)
TypeOK ==
  /\ rows \in [BudgetVersion -> Row]
  /\ idem \in [Scope -> BudgetVersion \cup {None}]
  /\ tx \in [Slot -> Tx]

(* A fiscal year has at most one active version, however activations,      *)
(* archivals and stale write-backs interleave (activate,                   *)
(* ux_budget_versions_one_active).                                         *)
OneActivePerYear ==
  \A v, w \in BudgetVersion :
    Active(rows[v]) /\ Active(rows[w]) /\ YearOf[v] = YearOf[w] => v = w

(* Two versions of a fiscal year never have the same name, whether they    *)
(* got it from a creation or from a rename.  (A row that does not exist    *)
(* has no name.)                                                           *)
NamesUnique ==
  \A v, w \in BudgetVersion :
    /\ rows[v].name # None
    /\ rows[v].name = rows[w].name
    /\ YearOf[v] = YearOf[w]
    => v = w

(* A retry under a used key is answered for the version that used it: a    *)
(* record, once committed, is never overwritten, though publish and        *)
(* archive only insert it at the COMMIT.                                   *)
RecordsAreFinal ==
  [][\A u \in Scope : idem[u] # None => idem'[u] = idem[u]]_vars

(* Request s commits a row for version v that rests on a copy of another   *)
(* content than the one the COMMIT replaces: somebody else has changed v   *)
(* since s read it.                                                        *)
CommitsOutdated(s, v) ==
  /\ tx[s].pc = "done" /\ tx'[s].pc = "idle" /\ rows' # rows
  /\ \E row \in tx[s].seen[v] : row # rows[v]

(* What the life cycle promises outright: is_active is set on published    *)
(* versions only.  Two requests break it (an activation that read the      *)
(* version before its archival).                                           *)
ActiveIsPublished ==
  \A v \in BudgetVersion : rows[v].is_active => rows[v].status = "published"

(* A row that is active though not published appears only in the COMMIT of *)
(* a request that worked from a copy another request has outdated: nothing *)
(* else, no order of the transitions, no failure half way and no replay,   *)
(* activates an archived version or a draft (activate, archive).           *)
StrayActivationNeedsStaleCopy ==
  [][\A v \in BudgetVersion :
       /\ rows[v].is_active => rows[v].status = "published"
       /\ rows'[v].is_active /\ rows'[v].status # "published"
       => \E s \in Slot : CommitsOutdated(s, v)]_vars

(* What the life cycle promises outright: once published, a version does   *)
(* not return to draft, where it would accept entries, and keeps its name. *)
PublishedStaysClosed ==
  [][\A v \in BudgetVersion :
       rows[v].status \in {"published", "archived"}
         => /\ rows'[v].status # "draft"
            /\ rows'[v].name = rows[v].name]_vars

(* A version once published returns to draft or gets another name only by  *)
(* a request that read it before another one changed it, as a PATCH that   *)
(* overlaps the publication (assert_mutable, save).                        *)
ReopeningNeedsStaleCopy ==
  [][\A v \in BudgetVersion :
       /\ rows[v].status \in {"published", "archived"}
       /\ rows'[v].status = "draft" \/ rows'[v].name # rows[v].name
       => \E s \in Slot : CommitsOutdated(s, v)]_vars

(* What clients are told outright: the counter they send back as           *)
(* expected_version advances by one with every change of a row.            *)
VersionCounts ==
  [][\A v \in BudgetVersion :
       rows[v] # NoRow /\ rows'[v] # rows[v]
         => rows'[v].version = rows[v].version + 1]_vars

(* The counter of a changed row repeats or jumps only in the COMMIT of a   *)
(* request whose copy another one has outdated; the deactivation by the    *)
(* activation of another version counts too.                               *)
MiscountNeedsStaleCopy ==
  [][\A v \in BudgetVersion :
       /\ rows[v] # NoRow /\ rows'[v] # rows[v]
       /\ rows'[v].version # rows[v].version + 1
       => \E s \in Slot : CommitsOutdated(s, v)]_vars

(* A year whose active version stays published has an active version       *)
(* afterwards: an activation that fails half way leaves the old one in     *)
(* place (activate flushes the deactivation before it checks the new       *)
(* version).  Only a request with an outdated copy of one of the versions  *)
(* of the year can break it.                                               *)
ActiveLossNeedsStaleCopy ==
  [][\A v \in BudgetVersion :
       /\ Active(rows[v]) /\ rows'[v].status = "published"
       /\ \A w \in BudgetVersion : YearOf[w] = YearOf[v] => ~Active(rows'[w])
       => \E s \in Slot, w \in BudgetVersion :
            YearOf[w] = YearOf[v] /\ CommitsOutdated(s, w)]_vars

-----------------------------------------------------------------------------
(* The inductive invariant behind TypeOK, OneActivePerYear, NamesUnique    *)
(* and RecordsAreFinal                                                     *)

(* What the step a request has reached says of its record.                 *)
RequestShape ==
  \A s \in Slot :
    /\ tx[s].pc = "idle" => tx[s] = Idle
    /\ tx[s].pc # "idle" => tx[s].id \in BudgetVersion /\ tx[s].at \in BudgetVersion
    /\ tx[s].op \in TransitionOp => tx[s].key \in IdemKey
    /\ tx[s].reserved => tx[s].op \in TransitionOp
    /\ tx[s].pc \in {"reserve", "apply"} => tx[s].op \in TransitionOp

(* An inserted record is new and nobody else's.                            *)
RecordsHeld ==
  /\ \A s \in Slot : tx[s].reserved => idem[Used(s)] = None
  /\ \A s1, s2 \in Slot :
       s1 # s2 /\ tx[s1].reserved /\ tx[s2].reserved => Used(s1) # Used(s2)

(* No two rows clash that are committed, seen by one transaction or held   *)
(* by two, and a row is held by one transaction at a time.                 *)
Unclashed ==
  /\ \A v, w \in BudgetVersion : v # w => ~Clash(v, rows[v], w, rows[w])
  /\ \A s \in Slot : \A v, w \in BudgetVersion :
       v # w => ~Clash(v, tx[s].held[v], w, Visible(s, w))
  /\ \A s1, s2 \in Slot : s1 # s2 =>
       \A v, w \in BudgetVersion :
         /\ v # w => ~Clash(v, tx[s1].held[v], w, tx[s2].held[w])
         /\ tx[s1].held[v] # NoRow => tx[s2].held[v] = NoRow

IInv == TypeOK /\ RequestShape /\ RecordsHeld /\ Unclashed

-----------------------------------------------------------------------------
(* The inductive invariant behind StrayActivationNeedsStaleCopy,           *)
(* ReopeningNeedsStaleCopy, MiscountNeedsStaleCopy and                     *)
(* ActiveLossNeedsStaleCopy                                                *)

(* How a request may leave the row it found as old.                        *)
Follows(old, new) ==
  /\ old # NoRow => new = old \/ new.version = old.version + 1
  /\ old.status \in {"published", "archived"} =>
       new.status # "draft" /\ new.name = old.name
  /\ (old.is_active => old.status = "published")
       => (new.is_active => new.status = "published")

(* Request r has seen no copy of v but the one that is there.              *)
Fresh(r, v) == r.seen[v] \subseteq {rows[v]}

(* The steps up to the deactivation, to the activation, and after it.      *)
Previous(r) == r.pc = "deactivate" \/ (r.pc = "flush" /\ r.at # r.id)
Unwritten(r) == r.pc \in {"save", "reserve", "apply", "active"} \/ Previous(r)
Reading(r) == r.pc \in {"reserve", "apply", "active", "activate"} \/ Previous(r)
Prepared(r) == r.pc = "done" \/ (r.pc = "flush" /\ r.at = r.id)

(* What a request is about to write is one legal step from a copy it has   *)
(* seen, and the pending columns are those in which it differs from one.   *)
FromSeen(r) ==
  /\ Reading(r) => r.seen[r.id] = {r.work} /\ r.work # NoRow
  /\ r.pc = "save" => \E row \in r.seen[r.id] :
                        row.status = "draft" /\ Follows(row, r.work)
  /\ Previous(r) => \E row \in r.seen[r.at] :
                      Active(row) /\ r.other = deactivate(row)
  /\ r.pc = "flush" /\ r.at # r.id =>
       \E row \in r.seen[r.at] : r.cols = Changed(row, r.other)
  /\ Prepared(r) =>
       /\ \E row \in r.seen[r.id] :
            /\ Follows(row, r.work)
            /\ r.op = "activate" \/ (Active(row) /\ r.work.status = "published")
                 => Active(r.work)
       /\ r.held[r.id] = NoRow =>
            \E row \in r.seen[r.id] : Changed(row, r.work) \subseteq r.cols

(* Rows are written late, the active version of the year first.            *)
WritingOrder(r) ==
  /\ Unwritten(r) => \A v \in BudgetVersion : r.held[v] = NoRow
  /\ r.pc \notin {"idle", "done"} => r.held[r.id] = NoRow
  /\ r.pc = "done" => r.at = r.id
  /\ r.pc \in {"active", "activate"} \/ Previous(r) => r.op = "activate"
  /\ r.pc = "save" => r.op = "update"
  /\ r.pc = "done" /\ r.held[r.id] # NoRow => r.cols = {}
  /\ Previous(r) => YearOf[r.at] = YearOf[r.id] /\ r.at # r.id
  /\ \A v \in BudgetVersion \ {r.id} :
       r.held[v] # NoRow => r.op = "activate" /\ YearOf[v] = YearOf[r.id]

(* What a request has written of a version nobody has changed under it.    *)
Written(r) ==
  \A v \in BudgetVersion :
    r.held[v] # NoRow /\ Fresh(r, v) =>
      IF v = r.id THEN r.held[v] = r.work
                  ELSE Active(rows[v]) /\ r.held[v] = deactivate(rows[v])

SeenInv == \A s \in Slot : FromSeen(tx[s]) /\ WritingOrder(tx[s]) /\ Written(tx[s])

(* One thread: nobody outdates a copy.                                     *)
OneThread == \A s1, s2 \in Slot : s1 = s2
AllFresh == \A s \in Slot, v \in BudgetVersion : Fresh(tx[s], v)
=============================================================================

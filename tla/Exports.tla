--------------------------------- MODULE Exports ---------------------------------
(***************************************************************************)
(* Exports of the variance table: POST /exports, GET /exports/{id}/content,*)
(* and the retention command that removes them (application/analytics.py,  *)
(* domain/exporting.py, application/retention.py, adapters/storage.py).    *)
(*                                                                         *)
(* The object is put into storage before the row is committed, and deleted *)
(* before the row that says so is committed; storage has no rollback.      *)
(***************************************************************************)
EXTENDS Sequences

CONSTANTS
  Export,       \* exports: the id and the object of one POST each
  Slot,         \* threads that serve downloads
  Sweep,        \* runs of `retain-files' that may overlap
  S3Prefix,     \* settings.s3_prefix, as a path
  None

VARIABLES
  posted,   \* how far the POST of each export has come
  rows,     \* committed export_jobs.status, None without a row
  objects,  \* exports whose object is in storage
  due,      \* exports whose expires_at has passed
  tx,       \* the download each slot is serving
  sweep     \* the state of each run of the retention command

vars == <<posted, rows, objects, due, tx, sweep>>

-----------------------------------------------------------------------------
ExportJobStatus == {"ready", "expired"}   \* nothing writes another one

ASSUME StatusAssumption == None \notin ExportJobStatus

Tx == [pc: {"idle", "authorized"}, export: Export \cup {None}]
Idle == [pc |-> "idle", export |-> None]

SweepState == [pc: {"idle", "listed"}, todo: SUBSET Export, marked: SUBSET Export]
NoSweep == [pc |-> "idle", todo |-> {}, marked |-> {}]

(* object_key: the tenant comes first, the namespace second; the random    *)
(* part makes the key of an export its own.                                *)
object_key(e) == S3Prefix \o <<"tenant", "exports", e, "file">>

(* The rule expire-exports of the bucket selects keys by their prefix.     *)
LifecycleMatches(e) == Head(object_key(e)) = "exports"

Init ==
  /\ posted = [e \in Export |-> "no"]
  /\ rows = [e \in Export |-> None]
  /\ objects = {} /\ due = {}
  /\ tx = [s \in Slot |-> Idle]
  /\ sweep = [w \in Sweep |-> NoSweep]

-----------------------------------------------------------------------------
(* POST /exports                                                           *)

(* export_breakdown and _render_export up to the object: permission, rate  *)
(* limit, version and organization have passed.  A put that fails for good *)
(* may still have stored the object (retry_with_jitter gives up).          *)
Put(e) ==
  /\ posted[e] = "no"
  /\ \/ posted' = [posted EXCEPT ![e] = "put"] /\ objects' = objects \cup {e}
     \/ posted' = [posted EXCEPT ![e] = "failed"]
        /\ objects' \in {objects, objects \cup {e}}
  /\ UNCHANGED <<rows, due, tx, sweep>>

(* The rows of the export and of its audit event are flushed and committed.*)
CommitExport(e) ==
  /\ posted[e] = "put"
  /\ posted' = [posted EXCEPT ![e] = "committed"]
  /\ rows' = [rows EXCEPT ![e] = "ready"]
  /\ UNCHANGED <<objects, due, tx, sweep>>

(* The COMMIT fails or the process dies: the object stays.                 *)
RollbackExport(e) ==
  /\ posted[e] = "put"
  /\ posted' = [posted EXCEPT ![e] = "failed"]
  /\ UNCHANGED <<rows, objects, due, tx, sweep>>

(* Time passes expires_at.                                                 *)
Expire(e) ==
  /\ posted[e] # "no" /\ e \notin due
  /\ due' = due \cup {e}
  /\ UNCHANGED <<posted, rows, objects, tx, sweep>>

-----------------------------------------------------------------------------
(* GET /exports/{id}/content                                               *)

is_expired(e) == e \in due \/ rows[e] = "expired"

(* get_export: the row is there and assert_downloadable passes.            *)
Authorize(s, e) ==
  /\ tx[s].pc = "idle"
  /\ rows[e] # None /\ ~is_expired(e)
  /\ tx' = [tx EXCEPT ![s] = [pc |-> "authorized", export |-> e]]
  /\ UNCHANGED <<posted, rows, objects, due, sweep>>

(* storage.get: the bytes, or NotFoundError, or a storage that is down.    *)
Deliver(s) ==
  /\ tx[s].pc = "authorized" /\ tx[s].export \in objects
  /\ tx' = [tx EXCEPT ![s] = Idle]
  /\ UNCHANGED <<posted, rows, objects, due, sweep>>

Missing(s) ==
  /\ tx[s].pc = "authorized" /\ tx[s].export \notin objects
  /\ tx' = [tx EXCEPT ![s] = Idle]
  /\ UNCHANGED <<posted, rows, objects, due, sweep>>

Unavailable(s) ==
  /\ tx[s].pc = "authorized"
  /\ tx' = [tx EXCEPT ![s] = Idle]
  /\ UNCHANGED <<posted, rows, objects, due, sweep>>

-----------------------------------------------------------------------------
(* retain-files                                                            *)

(* Mutant of list_expired_exports: exports are listed on their last day.   *)
list_exports_of_the_day == {e \in Export : rows[e] = "ready"}

list_expired_exports == {e \in Export : rows[e] = "ready" /\ e \in due}

List(w) ==
  /\ sweep[w].pc = "idle" /\ list_expired_exports # {}
  /\ sweep' = [sweep EXCEPT ![w] = [pc |-> "listed", todo |-> list_expired_exports,
                                    marked |-> {}]]
  /\ UNCHANGED <<posted, rows, objects, due, tx>>

(* Mutant of Purge: an object that cannot be deleted is skipped over.      *)
PurgeBestEffort(w, e) ==
  /\ sweep[w].pc = "listed" /\ e \in sweep[w].todo
  /\ objects' \in {objects, objects \ {e}}
  /\ sweep' = [sweep EXCEPT ![w].todo = @ \ {e}, ![w].marked = @ \cup {e}]
  /\ UNCHANGED <<posted, rows, due, tx>>

(* purge_expired_exports, one export: storage.delete and then mark_expired *)
(* in the session.  Deleting what is not there succeeds.                   *)
Purge(w, e) ==
  /\ sweep[w].pc = "listed" /\ e \in sweep[w].todo
  /\ objects' = objects \ {e}
  /\ sweep' = [sweep EXCEPT ![w].todo = @ \ {e}, ![w].marked = @ \cup {e}]
  /\ UNCHANGED <<posted, rows, due, tx>>

SweepCommit(w) ==
  /\ sweep[w].pc = "listed" /\ sweep[w].todo = {}
  /\ rows' = [e \in Export |-> IF e \in sweep[w].marked THEN "expired" ELSE rows[e]]
  /\ sweep' = [sweep EXCEPT ![w] = NoSweep]
  /\ UNCHANGED <<posted, objects, due, tx>>

(* A storage error, a failure of the conversations purged after the        *)
(* exports, or the end of the process takes all rows back.                 *)
SweepAbort(w) ==
  /\ sweep[w].pc = "listed"
  /\ sweep' = [sweep EXCEPT ![w] = NoSweep]
  /\ UNCHANGED <<posted, rows, objects, due, tx>>

(* The bucket deletes an old object its rule selects.                      *)
Lifecycle(e) ==
  /\ e \in objects \cap due /\ LifecycleMatches(e)
  /\ objects' = objects \ {e}
  /\ UNCHANGED <<posted, rows, due, tx, sweep>>

-----------------------------------------------------------------------------
Post(e) == Put(e) \/ CommitExport(e) \/ RollbackExport(e)
Download(s) == (\E e \in Export : Authorize(s, e))
               \/ Deliver(s) \/ Missing(s) \/ Unavailable(s)
Retain(w) == List(w) \/ (\E e \in Export : Purge(w, e)) \/ SweepCommit(w)

Next ==
  \/ \E e \in Export : Post(e) \/ Expire(e) \/ Lifecycle(e)
  \/ \E s \in Slot : Download(s)
  \/ \E w \in Sweep : Retain(w) \/ SweepAbort(w)

Spec == Init /\ [][Next]_vars

-----------------------------------------------------------------------------
(* Properties                                                              *)

TypeOK ==
  /\ posted \in [Export -> {"no", "put", "committed", "failed"}]
  /\ rows \in [Export -> ExportJobStatus \cup {None}]
  /\ objects \subseteq Export /\ due \subseteq Export
  /\ tx \in [Slot -> Tx] /\ sweep \in [Sweep -> SweepState]

(* What the API offers for download is there, whatever failed on the way   *)
(* and whoever is cleaning up: a row that is ready and not past expires_at *)
(* has its object (put before the commit, deletes only after expiry).      *)
ReadyHasObject ==
  \A e \in Export : rows[e] = "ready" /\ e \notin due => e \in objects

(* A row that says expired has no object left behind it: the command never *)
(* commits the mark without the deletion (purge_expired_exports).          *)
ExpiredHasNoObject == \A e \in Export : rows[e] = "expired" => e \notin objects

(* An object that no later run of retain-files would list is that of a     *)
(* POST that failed after its put or has not committed yet: runs that      *)
(* overlap, stop half way, lose their marks or mark what another has       *)
(* deleted make no other orphans (purge_expired_exports deletes before it  *)
(* marks, and list_expired_exports goes by the mark).                      *)
OrphansAreOfFailedPosts ==
  \A e \in objects : rows[e] = "ready" \/ posted[e] \in {"put", "failed"}

-----------------------------------------------------------------------------
(* The inductive invariant behind ReadyHasObject, ExpiredHasNoObject and   *)
(* OrphansAreOfFailedPosts                                                 *)

(* Rows are those of committed posts, a post about to commit has its       *)
(* object unless the bucket has already dropped it, and nothing is stored  *)
(* before a post.                                                          *)
Posted ==
  \A e \in Export :
    /\ rows[e] # None <=> posted[e] = "committed"
    /\ posted[e] = "put" => e \in objects \cup due
    /\ posted[e] = "no" => e \notin objects

(* A run of the command has listed committed exports past their day only,  *)
(* and what it has marked it has deleted.                                  *)
Listed ==
  \A w \in Sweep :
    /\ sweep[w].todo \cup sweep[w].marked \subseteq {e \in due : rows[e] # None}
    /\ sweep[w].marked \cap objects = {}

IInv == TypeOK /\ Posted /\ Listed /\ ReadyHasObject /\ ExpiredHasNoObject
=============================================================================

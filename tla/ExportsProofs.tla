------------------------------ MODULE ExportsProofs ------------------------------
(***************************************************************************)
(* Proofs about Exports for every set of exports, of threads and of runs   *)
(* of the retention command that overlap.                                  *)
(***************************************************************************)
EXTENDS Exports, TLAPS

LEMMA InitInv == Init => IInv
BY StatusAssumption
   DEF Init, IInv, TypeOK, Posted, Listed, ReadyHasObject, ExpiredHasNoObject, Idle, Tx,
       NoSweep, SweepState, ExportJobStatus

(* Posting an export: the object first, the row at the commit.             *)
LEMMA PostInv ==
  ASSUME IInv, NEW e \in Export, Post(e)
  PROVE  IInv'
<1> USE StatusAssumption DEF IInv, ExportJobStatus
<1>1. CASE Put(e)
  <2>1. TypeOK'
    BY <1>1 DEF Put, TypeOK
  <2>2. Posted' /\ ReadyHasObject' /\ ExpiredHasNoObject'
    BY <1>1 DEF Put, TypeOK, Posted, ReadyHasObject, ExpiredHasNoObject
  <2>3. Listed'
    <3>1. \A w \in Sweep : e \notin sweep[w].marked
      BY <1>1 DEF Put, TypeOK, Posted, Listed
    <3> QED
      BY <1>1, <3>1 DEF Put, Listed
  <2> QED
    BY <2>1, <2>2, <2>3
<1>2. CASE CommitExport(e)
  <2>1. TypeOK'
    BY <1>2 DEF CommitExport, TypeOK
  <2>2. Posted' /\ ReadyHasObject' /\ ExpiredHasNoObject'
    BY <1>2 DEF CommitExport, TypeOK, Posted, ReadyHasObject, ExpiredHasNoObject
  <2>3. Listed'
    BY <1>2 DEF CommitExport, TypeOK, Listed
  <2> QED
    BY <2>1, <2>2, <2>3
<1>3. CASE RollbackExport(e)
  BY <1>3 DEF RollbackExport, TypeOK, Posted, Listed, ReadyHasObject, ExpiredHasNoObject
<1> QED
  BY <1>1, <1>2, <1>3 DEF Post

(* Days pass and the bucket drops what its rule selects.                   *)
LEMMA TimeInv ==
  ASSUME IInv, NEW e \in Export, Expire(e) \/ Lifecycle(e)
  PROVE  IInv'
<1>1. CASE Expire(e)
  BY <1>1 DEF IInv, Expire, TypeOK, Posted, Listed, ReadyHasObject, ExpiredHasNoObject
<1>2. CASE Lifecycle(e)
  BY <1>2 DEF IInv, Lifecycle, TypeOK, Posted, Listed, ReadyHasObject, ExpiredHasNoObject
<1> QED
  BY <1>1, <1>2

(* Downloads change nothing but the request.                               *)
LEMMA DownloadInv ==
  ASSUME IInv, NEW s \in Slot, Download(s)
  PROVE  IInv'
<1>1. PICK t \in Tx : /\ tx' = [tx EXCEPT ![s] = t]
                      /\ UNCHANGED <<posted, rows, objects, due, sweep>>
  BY DEF Download, Authorize, Deliver, Missing, Unavailable, Tx, Idle
<1>2. TypeOK'
  BY <1>1 DEF IInv, TypeOK
<1> QED
  BY <1>1, <1>2 DEF IInv, Posted, Listed, ReadyHasObject, ExpiredHasNoObject

(* A run of the command: what it lists is due, what it marks is deleted,   *)
(* and the marks are written after the deletions.                          *)
LEMMA RetainInv ==
  ASSUME IInv, NEW w \in Sweep, Retain(w) \/ SweepAbort(w)
  PROVE  IInv'
<1> USE StatusAssumption DEF IInv, ExportJobStatus
<1>1. CASE List(w)
  <2>1. TypeOK'
    BY <1>1 DEF List, list_expired_exports, TypeOK, SweepState
  <2>2. Listed'
    BY <1>1 DEF List, list_expired_exports, TypeOK, SweepState, Listed
  <2> QED
    BY <1>1, <2>1, <2>2 DEF List, Posted, ReadyHasObject, ExpiredHasNoObject
<1>2. ASSUME NEW e \in Export, Purge(w, e) PROVE IInv'
  <2>1. TypeOK'
    BY <1>2 DEF Purge, TypeOK, SweepState
  <2>2. e \in due /\ rows[e] # None
    BY <1>2 DEF Purge, Listed
  <2>3. Listed'
    BY <1>2 DEF Purge, TypeOK, SweepState, Listed
  <2> QED
    BY <1>2, <2>1, <2>2, <2>3
       DEF Purge, TypeOK, Posted, ReadyHasObject, ExpiredHasNoObject
<1>3. CASE SweepCommit(w)
  <2>1. sweep[w].marked \subseteq {e \in due : rows[e] # None}
    BY DEF Listed
  <2>2. TypeOK'
    BY <1>3 DEF SweepCommit, TypeOK, NoSweep, SweepState
  <2>3. Posted' /\ ReadyHasObject' /\ ExpiredHasNoObject'
    BY <1>3, <2>1 DEF SweepCommit, TypeOK, Posted, Listed, ReadyHasObject, ExpiredHasNoObject
  <2>4. Listed'
    BY <1>3, <2>1 DEF SweepCommit, TypeOK, NoSweep, SweepState, Listed
  <2> QED
    BY <2>2, <2>3, <2>4
<1>4. CASE SweepAbort(w)
  BY <1>4 DEF SweepAbort, TypeOK, NoSweep, SweepState, Posted, Listed, ReadyHasObject,
              ExpiredHasNoObject
<1> QED
  BY <1>1, <1>2, <1>3, <1>4 DEF Retain

(* Rows, objects and runs of the command stay in step with one another     *)
(* (_render_export, purge_expired_exports): IInv is inductive.             *)
THEOREM Invariance == Spec => []IInv
<1>1. IInv /\ [Next]_vars => IInv'
  <2> SUFFICES ASSUME IInv, [Next]_vars PROVE IInv'
    OBVIOUS
  <2>1. CASE UNCHANGED vars
    BY <2>1 DEF vars, IInv, TypeOK, Posted, Listed, ReadyHasObject, ExpiredHasNoObject
  <2> QED
    BY <2>1, PostInv, TimeInv, DownloadInv, RetainInv DEF Next
<1> QED
  BY <1>1, InitInv, PTL DEF Spec

(* Rows, requests and runs keep their shape.                               *)
THEOREM TypeCorrect == Spec => []TypeOK
<1>1. IInv => TypeOK
  BY DEF IInv
<1> QED
  BY <1>1, Invariance, PTL

(* What is offered for download is there, for any number of exports and of *)
(* overlapping runs that fail anywhere (get_export, purge_expired_exports).*)
THEOREM DownloadsAreThere == Spec => []ReadyHasObject
<1>1. IInv => ReadyHasObject
  BY DEF IInv
<1> QED
  BY <1>1, Invariance, PTL

(* No object is left behind a row that says expired.                       *)
THEOREM ExpiredAreGone == Spec => []ExpiredHasNoObject
<1>1. IInv => ExpiredHasNoObject
  BY DEF IInv
<1> QED
  BY <1>1, Invariance, PTL

(* Objects that no run will list again are those of posts that failed or   *)
(* still run, whatever the runs of the command do to one another.          *)
THEOREM OrphansNeedFailedPosts == Spec => []OrphansAreOfFailedPosts
<1>1. IInv => OrphansAreOfFailedPosts
  <2> SUFFICES ASSUME IInv, NEW e \in objects, rows[e] # "ready"
               PROVE  posted[e] \in {"put", "failed"}
    BY DEF OrphansAreOfFailedPosts
  <2>1. e \in Export /\ posted[e] # "no"
    BY DEF IInv, TypeOK, Posted
  <2>2. rows[e] # "expired"
    BY <2>1 DEF IInv, ExpiredHasNoObject
  <2>3. posted[e] # "committed"
    BY <2>1, <2>2 DEF IInv, TypeOK, Posted, ExportJobStatus
  <2> QED
    BY <2>1, <2>3 DEF IInv, TypeOK
<1> QED
  BY <1>1, Invariance, PTL
=============================================================================

---------------------------- MODULE MCImportJobs ----------------------------
(* Finite instances of ImportJobs for TLC.                                 *)
EXTENDS ImportJobsInvariant, TLC

(* All jobs upload the same file for the same version, so their            *)
(* fingerprints collide whenever their mappings agree.                     *)
CONSTANTS c1, v1
SameContent == [j \in Job |-> c1]
SameVersion == [j \in Job |-> v1]
Actuals == [j \in Job |-> None]

(* Slots, keys, jobs and object keys are interchangeable.                  *)
Interchangeable ==
  Permutations(Slot) \cup Permutations(IdemKey) \cup Permutations(Job)
    \cup Permutations(ObjectKey) \cup Permutations(Mapping)

(* Start with every job uploaded: Create, Upload, PutObject, Save and      *)
(* CommitTx of one request after the other lead there.                     *)
UploadedInit ==
  \E key \in [Job -> ObjectKey] :
    /\ \A i, j \in Job : i # j => key[i] # key[j]
    /\ jobs = [j \in Job |-> [status |-> "uploaded", object_key |-> key[j],
                              fingerprint |-> None]]
    /\ objects = {key[j] : j \in Job}
    /\ idem = [k \in IdemKey |-> None]
    /\ entries = [j \in Job |-> [k \in IdemKey |-> 0]]
    /\ draft = Version
    /\ tx = [s \in Slot |-> Idle]
    /\ sweep = NoSweep

(* Requests only: no sweeps, versions stay drafts.                         *)
RequestsNext == \E s \in Slot : Begin(s) \/ Continue(s) \/ Rollback(s)
UploadedRequests == UploadedInit /\ [][RequestsNext]_vars

(* The watchdog loop beside requests for jobs whose files are in place,    *)
(* one of them validated.                                                  *)
ValidatedInit ==
  \E j \in Job, m \in Mapping, key \in [Job -> ObjectKey] :
    /\ \A i \in Job \ {j} : key[i] # key[j]
    /\ jobs = [i \in Job |->
                [status      |-> IF i = j THEN "ready" ELSE "uploaded",
                 object_key  |-> key[i],
                 fingerprint |-> IF i = j THEN <<ContentOf[j], m>> ELSE None]]
    /\ objects = {key[i] : i \in Job}
    /\ idem = [k \in IdemKey |-> None]
    /\ entries = [i \in Job |-> [k \in IdemKey |-> 0]]
    /\ draft = Version
    /\ tx = [s \in Slot |-> Idle]
    /\ sweep = NoSweep

WatchdogNext ==
  \/ \E s \in Slot :
       \/ \E j \in Job : \/ Validate(s, j) \/ Cancel(s, j)
                        \/ \E k \in IdemKey : Commit(s, j, k)
       \/ Continue(s)
       \/ Rollback(s)
  \/ TimeoutSweep
WatchdogSpec == ValidatedInit /\ [][WatchdogNext]_vars /\ WatchdogFairness
=============================================================================

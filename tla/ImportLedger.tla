----------------------------- MODULE ImportLedger -----------------------------
(***************************************************************************)
(* What POST /imports/{id}/commit promises to a caller that retries: every *)
(* Idempotency-Key is answered once and for good, the rows of a job enter  *)
(* the ledger in the same step as the answer, never twice for a key and    *)
(* never to leave again, and a key answered without new rows belongs to    *)
(* content whose rows are already there.  How requests interleave, fail    *)
(* and are swept is not this module's business.                            *)
(***************************************************************************)
EXTENDS Naturals

CONSTANTS Job, IdemKey, ContentOf, None

VARIABLES
  answered,   \* the job each key was used for, None while it is unused
  ledger      \* batches of entries inserted per job and key

Init ==
  /\ answered = [k \in IdemKey |-> None]
  /\ ledger = [j \in Job |-> [k \in IdemKey |-> 0]]

Answer(j, k) ==
  /\ answered[k] = None
  /\ answered' = [answered EXCEPT ![k] = j]

Apply(j, k) ==
  /\ Answer(j, k)
  /\ ledger' = [ledger EXCEPT ![j][k] = @ + 1]

AlreadyApplied(j, k) ==
  /\ Answer(j, k)
  /\ \E i \in Job, k2 \in IdemKey : /\ ledger[i][k2] > 0
                                    /\ ContentOf[i] = ContentOf[j]
  /\ UNCHANGED ledger

Next == \E j \in Job, k \in IdemKey : Apply(j, k) \/ AlreadyApplied(j, k)

Spec == Init /\ [][Next]_<<answered, ledger>>
=============================================================================

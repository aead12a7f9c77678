---------------------------- MODULE ScenariosProofs ----------------------------
(***************************************************************************)
(* Proofs about Scenarios for every number of threads, of rules and of     *)
(* saves.  Only Commit writes what others read, so the invariant follows   *)
(* from what each step leaves in the record of its slot.                   *)
(***************************************************************************)
EXTENDS Scenarios, TLAPS

(* The rows of a save carry its number and the sequences given.            *)
LEMMA RowsOfSave ==
  ASSUME NEW sequences \in SUBSET Sequence, NEW n \in 0..MaxSaves
  PROVE  /\ Rows(sequences, n) \subseteq RuleRow
         /\ \A r \in Rows(sequences, n) : r.save = n
BY DEF Rows, RuleRow

(* The sequences of rows are sequences.                                    *)
LEMMA SequencesType ==
  ASSUME NEW S \in SUBSET RuleRow
  PROVE  Sequences(S) \subseteq Sequence
BY DEF Sequences, RuleRow

LEMMA IdleType == Idle \in Tx /\ Off \in Tx
BY DEF Idle, Off, Tx, ScenarioStatus

LEMMA InitInv == Init => IInv
<1> SUFFICES ASSUME Init PROVE IInv
  OBVIOUS
<1>1. PICK sequences \in SUBSET Sequence : rules = Rows(sequences, 0)
  BY DEF Init
<1>2. \A s \in Slot : tx[s] \in {Idle, Off}
  BY DEF Init
<1>3. TypeOK
  BY <1>1, RowsOfSave, IdleType, ScenariosAssumption DEF Init, TypeOK, ScenarioStatus
<1>4. RequestShape /\ FirstRulesHit /\ FreshWhenAlone
  BY <1>2, ScenariosAssumption
     DEF RequestShape, FirstRulesHit, FreshWhenAlone, Deleting, Idle, Off
<1> QED
  BY <1>3, <1>4 DEF IInv

(* A slot that is on stays on, so which threads exist does not change.     *)
LEMMA SamePool ==
  ASSUME TypeOK, NEW s \in Slot, NEW t \in Tx, tx[s].pc # "off", t.pc # "off",
         tx' = [tx EXCEPT ![s] = t]
  PROVE  /\ tx' \in [Slot -> Tx]
         /\ Sequential' => /\ Sequential
                           /\ \A s2 \in Slot \ {s} : tx[s2].pc = "off" /\ tx'[s2] = tx[s2]
BY DEF TypeOK, Sequential

(* Reads, deletions and rollbacks leave the committed rows alone; the new  *)
(* record of the slot has to satisfy the invariant.                        *)
LEMMA QuietStep ==
  ASSUME IInv, NEW s \in Slot, NEW t \in Tx, tx[s].pc # "off", t.pc # "off",
         tx' = [tx EXCEPT ![s] = t], UNCHANGED <<status, rules, saves>>,
         t.pc = "idle" <=> t.op = None,
         t.op = "archive" => t.next = "archived",
         t.pc \in Deleting => \A r \in rules : r.save = 0 => r \in t.hit,
         Sequential => /\ t.pc \in Deleting => t.hit = rules
                       /\ t.op = "update" => status = "saved"
  PROVE  IInv'
<1>1. TypeOK'
  BY SamePool DEF IInv, TypeOK
<1>2. RequestShape' /\ FirstRulesHit'
  BY DEF IInv, TypeOK, RequestShape, FirstRulesHit
<1>3. FreshWhenAlone'
  BY SamePool DEF IInv, TypeOK, FreshWhenAlone
<1> QED
  BY <1>1, <1>2, <1>3 DEF IInv

(* update and archive read the scenario and its rules.                     *)
LEMMA StartInv ==
  ASSUME IInv, NEW s \in Slot,
         (\E given \in SUBSET Sequence : Update(s, given)) \/ Update(s, None)
           \/ Archive(s)
  PROVE  IInv'
<1>1. Sequences(rules) \subseteq Sequence
  BY SequencesType DEF IInv, TypeOK
<1>2. PICK t \in Tx :
        /\ tx[s].pc = "idle" /\ tx' = [tx EXCEPT ![s] = t]
        /\ UNCHANGED <<status, rules, saves>>
        /\ t.pc = "read"
        /\ \/ t.op = "update" /\ editable(status)
           \/ t.op = "archive" /\ t.next = "archived"
  <2> DEFINE Read(op, next, work) ==
               [Idle EXCEPT !.pc = "read", !.op = op, !.next = next, !.work = work]
  <2>1. \A work \in SUBSET Sequence :
          /\ Read("update", "saved", work) \in Tx
          /\ Read("archive", "archived", work) \in Tx
    BY IdleType DEF Idle, Tx, ScenarioStatus
  <2>2. \A work : /\ Read("update", "saved", work).pc = "read"
                  /\ Read("update", "saved", work).op = "update"
                  /\ Read("archive", "archived", work).pc = "read"
                  /\ Read("archive", "archived", work).op = "archive"
                  /\ Read("archive", "archived", work).next = "archived"
    BY DEF Idle
  <2>3. ASSUME NEW given, given \in SUBSET Sequence \/ given = None, Update(s, given)
        PROVE  \E work \in SUBSET Sequence :
                 /\ tx[s].pc = "idle" /\ editable(status)
                 /\ tx' = [tx EXCEPT ![s] = Read("update", "saved", work)]
                 /\ UNCHANGED <<status, rules, saves>>
    <3> DEFINE work == IF given = None THEN Sequences(rules) ELSE given
    <3>1. work \in SUBSET Sequence
      BY <1>1, <2>3
    <3>2. tx' = [tx EXCEPT ![s] = Read("update", "saved", work)]
      BY <2>3 DEF Update
    <3> QED
      BY <2>3, <3>1, <3>2 DEF Update
  <2>4. ASSUME Archive(s)
        PROVE  \E work \in SUBSET Sequence :
                 /\ tx[s].pc = "idle"
                 /\ tx' = [tx EXCEPT ![s] = Read("archive", "archived", work)]
                 /\ UNCHANGED <<status, rules, saves>>
    <3>1. tx' = [tx EXCEPT ![s] = Read("archive", "archived", Sequences(rules))]
      BY <2>4 DEF Archive
    <3> QED
      BY <1>1, <2>4, <3>1 DEF Archive
  <2> HIDE DEF Read
  <2> QED
    BY <2>1, <2>2, <2>3, <2>4
<1>3. t.op = "update" => status = "saved"
  BY <1>2 DEF editable, IInv, TypeOK, ScenarioStatus
<1> QED
  BY <1>2, <1>3, QuietStep, ScenariosAssumption DEF Deleting

(* The second read, the DELETE and its end.                                *)
LEMMA SaveInv ==
  ASSUME IInv, NEW s \in Slot, ReadAgain(s) \/ DeleteRules(s) \/ RulesDeleted(s)
  PROVE  IInv'
<1> DEFINE r == tx[s]
<1>1. /\ r \in Tx /\ rules \in SUBSET RuleRow
      /\ r.pc \notin {"off", "idle"} => r.op # None
      /\ r.op = "archive" => r.next = "archived"
      /\ r.pc \in Deleting => \A row \in rules : row.save = 0 => row \in r.hit
      /\ Sequential => /\ r.pc \in Deleting => r.hit = rules
                       /\ r.op = "update" => status = "saved"
  BY DEF IInv, TypeOK, RequestShape, FirstRulesHit, FreshWhenAlone
<1>2. ASSUME NEW pc \in {"delete", "wait", "commit"}, NEW cols \in SUBSET {"status"},
             NEW hit \in SUBSET RuleRow,
             r.pc \notin {"off", "idle"},
             tx' = [tx EXCEPT ![s] = [r EXCEPT !.pc = pc, !.cols = cols, !.hit = hit]],
             UNCHANGED <<status, rules, saves>>,
             pc \in Deleting => \A row \in rules : row.save = 0 => row \in hit,
             Sequential => (pc \in Deleting => hit = rules)
      PROVE  IInv'
  <2> DEFINE t == [r EXCEPT !.pc = pc, !.cols = cols, !.hit = hit]
  <2>1. /\ t \in Tx /\ t.pc = pc /\ t.hit = hit /\ t.op = r.op /\ t.next = r.next
        /\ tx' = [tx EXCEPT ![s] = t]
    BY <1>1, <1>2 DEF Tx
  <2> HIDE DEF t
  <2>2. /\ tx[s].pc # "off" /\ t.pc # "off" /\ t.pc # "idle" /\ t.op # None
        /\ t.op = "archive" => t.next = "archived"
        /\ t.pc \in Deleting => \A row \in rules : row.save = 0 => row \in t.hit
        /\ Sequential => /\ t.pc \in Deleting => t.hit = rules
                         /\ t.op = "update" => status = "saved"
    BY <1>1, <1>2, <2>1
  <2>3. UNCHANGED <<status, rules, saves>>
    BY <1>2
  <2> QED
    BY <2>1, <2>2, <2>3, QuietStep
<1>3. /\ r.cols \in SUBSET {"status"} /\ r.hit \in SUBSET RuleRow
      /\ r.hit \cap rules \in SUBSET RuleRow
      /\ \A u \in Tx : u = [u EXCEPT !.cols = u.cols] /\ u = [u EXCEPT !.hit = u.hit]
  BY <1>1 DEF Tx
<1>4. CASE ReadAgain(s)
  <2> DEFINE cols == IF status # r.next THEN {"status"} ELSE {}
  <2>1. tx' = [tx EXCEPT ![s] = [r EXCEPT !.pc = "delete", !.cols = cols, !.hit = r.hit]]
    BY <1>1, <1>4 DEF ReadAgain, Tx
  <2> QED
    BY <1>2, <1>3, <1>4, <2>1 DEF ReadAgain, Deleting
<1>5. CASE DeleteRules(s)
  <2>1. tx' = [tx EXCEPT ![s] = [r EXCEPT !.pc = "wait", !.cols = r.cols, !.hit = rules]]
    BY <1>1, <1>5 DEF DeleteRules, Tx
  <2> QED
    BY <1>1, <1>2, <1>3, <1>5, <2>1 DEF DeleteRules
<1>6. CASE RulesDeleted(s)
  <2>1. tx' = [tx EXCEPT ![s] = [r EXCEPT !.pc = "commit", !.cols = r.cols,
                                          !.hit = r.hit \cap rules]]
    BY <1>1, <1>6 DEF RulesDeleted, Tx
  <2>2. /\ \A row \in rules : row.save = 0 => row \in r.hit \cap rules
        /\ Sequential => r.hit \cap rules = rules
        /\ r.pc = "wait"
    BY <1>1, <1>6 DEF RulesDeleted, Deleting
  <2> QED
    BY <1>2, <1>3, <1>6, <2>1, <2>2 DEF RulesDeleted
<1> QED
  BY <1>4, <1>5, <1>6

LEMMA RollbackInv ==
  ASSUME IInv, NEW s \in Slot, Rollback(s)
  PROVE  IInv'
<1>1. Idle \in Tx /\ Idle.pc = "idle" /\ Idle.op = None
  BY IdleType DEF Idle
<1> QED
  BY <1>1, QuietStep, ScenariosAssumption DEF Rollback, Deleting

(* The commit inserts rows of a new save, which no DELETE needs to have    *)
(* seen.                                                                   *)
LEMMA CommitInv ==
  ASSUME IInv, NEW s \in Slot, Commit(s)
  PROVE  IInv'
<1> DEFINE r == tx[s]
<1> USE DEF IInv
<1>1. /\ r \in Tx /\ r.pc = "commit" /\ tx' = [tx EXCEPT ![s] = Idle]
      /\ saves + 1 \in 0..MaxSaves /\ saves + 1 # 0
      /\ rules' = (rules \ r.hit) \cup Rows(r.work, saves + 1)
      /\ saves' = saves + 1
      /\ status' = IF "status" \in r.cols THEN r.next ELSE status
  BY ScenariosAssumption DEF TypeOK, Commit
<1>2. Idle \in Tx /\ Idle.pc = "idle" /\ Idle.op = None
  BY IdleType DEF Idle
<1>3. /\ Rows(r.work, saves + 1) \subseteq RuleRow
      /\ \A row \in Rows(r.work, saves + 1) : row.save = saves + 1
  BY <1>1, RowsOfSave DEF Tx
<1>4. tx' \in [Slot -> Tx]
  BY <1>1, <1>2 DEF TypeOK
<1>5. TypeOK'
  BY <1>1, <1>3, <1>4 DEF TypeOK, Tx
<1>6. RequestShape'
  BY <1>1, <1>2, <1>4, ScenariosAssumption DEF TypeOK, RequestShape
<1>7. FirstRulesHit'
  BY <1>1, <1>2, <1>3, <1>4 DEF TypeOK, FirstRulesHit, Deleting
<1>8. FreshWhenAlone'
  <2>1. Sequential' => \A s2 \in Slot \ {s} : tx'[s2].pc = "off"
    BY <1>1, <1>2, SamePool
  <2>2. \A s2 \in Slot : tx[s2].pc = "off" => tx[s2].op = None
    BY DEF RequestShape
  <2>3. \A s2 \in Slot \ {s} : tx'[s2] = tx[s2]
    BY <1>1 DEF TypeOK
  <2>4. tx'[s] = Idle
    BY <1>1 DEF TypeOK
  <2> QED
    BY <1>2, <2>1, <2>2, <2>3, <2>4, ScenariosAssumption DEF FreshWhenAlone, Deleting
<1> QED
  BY <1>5, <1>6, <1>7, <1>8

LEMMA StepInv == IInv /\ [Next]_vars => IInv'
<1> SUFFICES ASSUME IInv, [Next]_vars PROVE IInv'
  OBVIOUS
<1>1. CASE UNCHANGED vars
  BY <1>1 DEF vars, IInv, TypeOK, RequestShape, FirstRulesHit, FreshWhenAlone, Sequential
<1> QED
  BY <1>1, StartInv, SaveInv, CommitInv, RollbackInv DEF Next

(* The invariant holds of every state: whatever deletes now has seen the   *)
(* first rules, and one thread sees all there is.                          *)
THEOREM Invariance == Spec => []IInv
BY InitInv, StepInv, PTL DEF Spec

(* Rows and requests keep their shape.                                     *)
THEOREM TypeCorrect == Spec => []TypeOK
<1>1. IInv => TypeOK
  BY DEF IInv
<1> QED
  BY <1>1, Invariance, PTL

(* Rules become a mix only by a commit that leaves rules standing which    *)
(* its DELETE has not seen; one thread has seen all.                       *)
LEMMA MixStep ==
  ASSUME IInv, [Next]_vars, Whole, ~Whole'
  PROVE  /\ ~Sequential
         /\ \E s \in Slot : tx[s].pc = "commit" /\ tx'[s] = Idle
                            /\ \E r \in rules \cap rules' :
                                 r \notin tx[s].hit /\ r.save > 0
<1> USE DEF IInv
<1>1. PICK s \in Slot : Commit(s)
  BY DEF Next, vars, Whole, Update, Archive, ReadAgain, DeleteRules, RulesDeleted,
         Rollback
<1>2. /\ tx[s].pc = "commit" /\ tx'[s] = Idle /\ tx[s] \in Tx
      /\ saves + 1 \in 0..MaxSaves
      /\ rules' = (rules \ tx[s].hit) \cup Rows(tx[s].work, saves + 1)
  BY <1>1, ScenariosAssumption DEF Commit, TypeOK
<1>3. \A r \in Rows(tx[s].work, saves + 1) : r.save = saves + 1
  BY <1>2, RowsOfSave DEF Tx
<1>4. PICK r \in rules : r \in rules' /\ r \notin tx[s].hit
  BY <1>2, <1>3 DEF Whole
<1>5. r.save \in Nat /\ r.save # 0
  BY <1>2, <1>4, ScenariosAssumption DEF TypeOK, RuleRow, FirstRulesHit, Deleting
<1>6. ~Sequential
  BY <1>2, <1>4 DEF FreshWhenAlone, Deleting
<1> QED
  BY <1>2, <1>4, <1>5, <1>6

(* Two requests mix their rules only if the one committing last has not    *)
(* seen what the other inserted, for any number of requests: the rules     *)
(* left standing are older than its save and younger than its DELETE       *)
(* (SqlScenarioRepository.save).                                           *)
THEOREM MixesNeedUnseenSaves == Spec => MixNeedsUnseenSave
<1>1. IInv /\ [Next]_vars =>
        (Whole /\ ~Whole' =>
           /\ ~Sequential
           /\ \E s \in Slot : tx[s].pc = "commit" /\ tx'[s] = Idle
                              /\ \E r \in rules \cap rules' :
                                   r \notin tx[s].hit /\ r.save > 0)
  BY MixStep
<1> QED
  BY <1>1, Invariance, PTL DEF Spec, MixNeedsUnseenSave

(* While one thread serves, a scenario's rules are those of one request,   *)
(* through any history of saves, archivings and failures: a mix is the     *)
(* price of overlapping saves alone.                                       *)
THEOREM AloneRulesAreWhole == Spec => [](Sequential => Whole)
<1> DEFINE Alone == Sequential => Whole
<1>1. Init => Alone
  BY RowsOfSave, ScenariosAssumption DEF Init, Whole
<1>2. IInv /\ [Next]_vars => (Sequential' => Sequential)
  <2> SUFFICES ASSUME IInv, [Next]_vars
               PROVE  \A s \in Slot : tx'[s].pc = "off" => tx[s].pc = "off"
    BY DEF Sequential
  <2>1. CASE UNCHANGED vars
    BY <2>1 DEF vars
  <2>2. ASSUME NEW s \in Slot, NEW given, Update(s, given) \/ Archive(s)
        PROVE  \A s2 \in Slot : tx'[s2].pc = "off" => tx[s2].pc = "off"
    BY <2>2 DEF Update, Archive, IInv, TypeOK, Idle
  <2>3. ASSUME NEW s \in Slot, ReadAgain(s) \/ DeleteRules(s) \/ RulesDeleted(s)
        PROVE  \A s2 \in Slot : tx'[s2].pc = "off" => tx[s2].pc = "off"
    BY <2>3 DEF ReadAgain, DeleteRules, RulesDeleted, IInv, TypeOK, Tx
  <2>4. ASSUME NEW s \in Slot, Commit(s) \/ Rollback(s)
        PROVE  \A s2 \in Slot : tx'[s2].pc = "off" => tx[s2].pc = "off"
    BY <2>4 DEF Commit, Rollback, IInv, TypeOK, Idle
  <2> QED
    BY <2>1, <2>2, <2>3, <2>4 DEF Next
<1>3. IInv /\ Alone /\ [Next]_vars => Alone'
  BY <1>2, MixStep
<1> QED
  BY <1>1, <1>3, Invariance, PTL DEF Spec

(* Archiving is undone only by an update that had read the scenario before *)
(* the archiving was committed (with_draft_update, SCENARIO_ARCHIVED).     *)
THEOREM ReopeningIsStale == Spec => ArchivedReopensOnlyStale
<1>1. ASSUME IInv, [Next]_vars, status = "archived", status' = "saved"
      PROVE  /\ ~Sequential
             /\ \E s \in Slot : tx[s].op = "update" /\ tx[s].cols = {"status"}
  <2> USE DEF IInv
  <2>1. PICK s \in Slot : Commit(s)
    BY <1>1 DEF Next, vars, Update, Archive, ReadAgain, DeleteRules, RulesDeleted, Rollback
  <2>2. tx[s] \in Tx /\ tx[s].pc = "commit" /\ "status" \in tx[s].cols
        /\ tx[s].next = "saved"
    BY <1>1, <2>1 DEF Commit, TypeOK
  <2>3. tx[s].op = "update" /\ tx[s].cols = {"status"}
    BY <1>1, <2>2 DEF RequestShape, Tx
  <2> QED
    BY <1>1, <2>3 DEF FreshWhenAlone
<1>2. IInv /\ [Next]_vars =>
        (status = "archived" /\ status' = "saved" =>
           /\ ~Sequential
           /\ \E s \in Slot : tx[s].op = "update" /\ tx[s].cols = {"status"})
  BY <1>1
<1> QED
  BY <1>2, Invariance, PTL DEF Spec, ArchivedReopensOnlyStale
=============================================================================

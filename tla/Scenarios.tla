------------------------------- MODULE Scenarios -------------------------------
(***************************************************************************)
(* One saved scenario and its rules: PATCH and archive                     *)
(* (application/scenarios.py, domain/scenario.py, SqlScenarioRepository).  *)
(*                                                                         *)
(* `save' reads the row again, deletes the rules with a statement of its   *)
(* own and leaves the new rules and the UPDATE of the row to the flush at  *)
(* the end.  The statement sees the rules committed when it starts; it     *)
(* waits for whoever is deleting one of them, and does not see what that   *)
(* one has inserted.                                                       *)
(***************************************************************************)
EXTENDS Naturals

CONSTANTS
  Slot,       \* threads that serve requests
  Sequence,   \* sequence numbers of rules
  MaxSaves,   \* bound: a scenario is saved this many times
  None

ASSUME ScenariosAssumption ==
  /\ MaxSaves \in Nat
  /\ None \notin {"update", "archive"}

VARIABLES
  status,  \* committed scenarios.status
  rules,   \* committed scenario_rules rows
  saves,   \* saves so far: gives the rows of a save their id
  tx       \* the request each slot is running

vars == <<status, rules, saves, tx>>

-----------------------------------------------------------------------------
ScenarioStatus == {"saved", "archived"}   \* nothing writes "draft"

(* A row: its sequence, and the save that inserted it.                     *)
RuleRow == [sequence: Sequence, save: 0..MaxSaves]
Rows(sequences, save) == {[sequence |-> q, save |-> save] : q \in sequences}
Sequences(rows) == {r.sequence : r \in rows}

Tx == [pc: {"off", "idle", "read", "delete", "wait", "commit"},
       op: {"update", "archive", None},
       work: SUBSET Sequence,        \* the rules to be written
       next: ScenarioStatus,         \* the status to be written
       cols: SUBSET {"status"},      \* of the pending UPDATE
       hit: SUBSET RuleRow]          \* rows the DELETE is about

Idle == [pc |-> "idle", op |-> None, work |-> {}, next |-> "saved",
         cols |-> {}, hit |-> {}]
Off == [Idle EXCEPT !.pc = "off"]

(* POST /scenarios has committed the scenario and its rules.               *)
Init ==
  /\ status = "saved" /\ saves = 0
  /\ \E sequences \in SUBSET Sequence : rules = Rows(sequences, 0)
  /\ \E pool \in (SUBSET Slot) \ {{}} :
       tx = [s \in Slot |-> IF s \in pool THEN Idle ELSE Off]

(* One thread: no two requests overlap.                                    *)
Sequential == \E s \in Slot : \A s2 \in Slot \ {s} : tx[s2].pc = "off"

(* Mutant of editable: with_draft_update takes an archived scenario.       *)
editable_always(st) == TRUE

editable(st) == st # "archived"

(* update: with_draft_update on the scenario read; rules that are not      *)
(* given are the ones read.                                                *)
Update(s, given) ==
  /\ tx[s].pc = "idle"
  /\ editable(status)
  /\ tx' = [tx EXCEPT ![s] =
              [Idle EXCEPT !.pc = "read", !.op = "update", !.next = "saved",
                 !.work = IF given = None THEN Sequences(rules) ELSE given]]
  /\ UNCHANGED <<status, rules, saves>>

Archive(s) ==
  /\ tx[s].pc = "idle"
  /\ tx' = [tx EXCEPT ![s] =
              [Idle EXCEPT !.pc = "read", !.op = "archive", !.next = "archived",
                           !.work = Sequences(rules)]]
  /\ UNCHANGED <<status, rules, saves>>

(* save: the second read of the row decides the columns of the UPDATE.     *)
ReadAgain(s) ==
  /\ tx[s].pc = "read"
  /\ tx' = [tx EXCEPT ![s].pc = "delete",
              ![s].cols = IF status # tx[s].next THEN {"status"} ELSE {}]
  /\ UNCHANGED <<status, rules, saves>>

(* Mutant of DeleteRules: only rules with a new successor are deleted.     *)
DeleteSameRules(s) ==
  /\ tx[s].pc = "delete"
  /\ tx' = [tx EXCEPT ![s].pc = "wait",
              ![s].hit = {r \in rules : r.sequence \in tx[s].work}]
  /\ UNCHANGED <<status, rules, saves>>

DeleteRules(s) ==
  /\ tx[s].pc = "delete"
  /\ tx' = [tx EXCEPT ![s].pc = "wait", ![s].hit = rules]
  /\ UNCHANGED <<status, rules, saves>>

(* The DELETE has its locks: what others deleted meanwhile is gone.        *)
RulesDeleted(s) ==
  /\ tx[s].pc = "wait"
  /\ \A s2 \in Slot \ {s} :
       tx[s2].pc = "commit" => tx[s2].hit \cap tx[s].hit = {}
  /\ tx' = [tx EXCEPT ![s].pc = "commit", ![s].hit = @ \cap rules]
  /\ UNCHANGED <<status, rules, saves>>

(* The flush and the COMMIT; uq_scenario_rules_sequence may refuse.        *)
Commit(s) ==
  LET r == tx[s] IN
  /\ r.pc = "commit" /\ saves < MaxSaves
  /\ Sequences(rules \ r.hit) \cap r.work = {}
  /\ rules' = (rules \ r.hit) \cup Rows(r.work, saves + 1)
  /\ saves' = saves + 1
  /\ status' = IF "status" \in r.cols THEN r.next ELSE status
  /\ tx' = [tx EXCEPT ![s] = Idle]

(* An IntegrityError, a failed statement, the death of the process.        *)
Rollback(s) ==
  /\ tx[s].pc \notin {"off", "idle"}
  /\ tx' = [tx EXCEPT ![s] = Idle]
  /\ UNCHANGED <<status, rules, saves>>

Next ==
  \E s \in Slot :
    \/ \E given \in SUBSET Sequence : Update(s, given)
    \/ Update(s, None)
    \/ Archive(s) \/ ReadAgain(s) \/ DeleteRules(s) \/ RulesDeleted(s)
    \/ Commit(s) \/ Rollback(s)

Spec == Init /\ [][Next]_vars

-----------------------------------------------------------------------------
(* Properties                                                              *)

TypeOK ==
  /\ status \in ScenarioStatus /\ saves \in 0..MaxSaves
  /\ rules \subseteq RuleRow /\ tx \in [Slot -> Tx]

Whole == \A r1, r2 \in rules : r1.save = r2.save

(* The rules of a scenario are those of one request.  They become a mix of *)
(* two only if the request committing last deleted before the other one    *)
(* committed: its DELETE has not seen the rules it leaves standing         *)
(* (SqlScenarioRepository.save).                                           *)
MixNeedsUnseenSave ==
  [][Whole /\ ~Whole' =>
       /\ ~Sequential
       /\ \E s \in Slot : tx[s].pc = "commit" /\ tx'[s] = Idle
                          /\ \E r \in rules \cap rules' :
                               r \notin tx[s].hit /\ r.save > 0]_vars

(* An archived scenario stays as it is while requests do not overlap       *)
(* (SCENARIO_ARCHIVED); otherwise only an update that read it as saved     *)
(* brings it back.                                                         *)
ArchivedReopensOnlyStale ==
  [][status = "archived" /\ status' = "saved" =>
       /\ ~Sequential
       /\ \E s \in Slot : tx[s].op = "update" /\ tx[s].cols = {"status"}]_vars

(* "Un escenario archivado no se puede editar." (domain/scenario.py)       *)
ArchivedStays == [][status = "archived" => status' = "archived"]_vars

-----------------------------------------------------------------------------
(* The inductive invariant behind the two action properties                *)

(* What the step a request has reached says of its record.                 *)
RequestShape ==
  \A s \in Slot :
    /\ tx[s].pc \in {"off", "idle"} <=> tx[s].op = None
    /\ tx[s].op = "archive" => tx[s].next = "archived"

(* A DELETE sees the rules the scenario was created with, which nobody     *)
(* inserts again.                                                          *)
Deleting == {"wait", "commit"}
FirstRulesHit ==
  \A s \in Slot : tx[s].pc \in Deleting =>
    \A r \in rules : r.save = 0 => r \in tx[s].hit

(* What one thread has read and deleted is what is there.                  *)
FreshWhenAlone ==
  Sequential =>
    \A s \in Slot :
      /\ tx[s].pc \in Deleting => tx[s].hit = rules
      /\ tx[s].op = "update" => status = "saved"

IInv == TypeOK /\ RequestShape /\ FirstRulesHit /\ FreshWhenAlone
=============================================================================

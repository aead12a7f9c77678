-------------------------------- MODULE Copilot --------------------------------
(***************************************************************************)
(* The copilot of one user: questions to a conversation, its deletion by   *)
(* the user and by the retention command (application/ai.py,               *)
(* application/rate_limit.py, application/resilience.py,                   *)
(* application/retention.py).                                              *)
(*                                                                         *)
(* A question passes the sliding window and takes a conversation slot,     *)
(* both in the memory of the process; it asks the provider through the     *)
(* circuit breaker, runs the tools the provider requests, and asks again   *)
(* until the provider answers or a limit is met.  Everything it writes is  *)
(* committed at the end.  Figures stand for the amounts in tool results    *)
(* and answers; an answer that cites unknown evidence is one with a figure *)
(* no tool gave.                                                           *)
(***************************************************************************)
EXTENDS Naturals, FiniteSets

CONSTANTS
  Conversation,
  Slot,              \* threads that serve requests
  Figure,            \* amounts
  AiMaxToolCalls,    \* settings.ai_max_tool_calls
  AiMaxConcurrent,   \* settings.ai_max_concurrent_conversations
  AiPerMinute,       \* settings.rate_limit_ai_per_minute
  FailureThreshold,  \* settings.dependency_circuit_failures
  MaxRequests,       \* bound: tool requests in one provider result
  Words,             \* the text of an answer around its figures
  None

ASSUME CopilotAssumption ==
  /\ {AiMaxToolCalls, AiMaxConcurrent, AiPerMinute, FailureThreshold,
      MaxRequests} \subseteq Nat \ {0}
  /\ None \notin Conversation \cup {"ask", "delete", "purge"}
  /\ Words \notin Figure

VARIABLES
  conversations,  \* committed conversations rows
  taken,          \* ConcurrencyLimiter: slots of the user
  window,         \* SlidingWindowLimiter: questions in the last minute
  circuit,        \* the circuit breaker of the provider
  tx              \* the request each slot is running

memory == <<taken, window, circuit>>
vars == <<conversations, taken, window, circuit, tx>>

-----------------------------------------------------------------------------
(* Limits and the circuit breaker                                          *)

(* Mutant of Acquirable: the bound is off by one.                          *)
AcquirableOne(n) == n <= AiMaxConcurrent

Acquirable(n) == n < AiMaxConcurrent
released(n) == IF n <= 1 THEN 0 ELSE n - 1

CircuitState == {"closed", "open", "half_open"}

(* `cool': reset_seconds have passed since opened_at.  failures is counted *)
(* up to the threshold: nothing else is asked of it.                       *)
Circuit == [state: CircuitState, failures: 0..FailureThreshold, cool: BOOLEAN]
Closed == [state |-> "closed", failures |-> 0, cool |-> FALSE]

Lets(c) == c.state = "open" => c.cool
called(c) == IF c.state = "open" THEN [c EXCEPT !.state = "half_open"] ELSE c

(* Mutant of record_failure: the probe in half_open is counted afresh.     *)
record_failure_afresh(c) ==
  IF c.state = "half_open"
  THEN [state |-> "open", failures |-> 1, cool |-> FALSE]
  ELSE LET n == IF c.failures < FailureThreshold THEN c.failures + 1
                                                 ELSE c.failures
       IN IF n >= FailureThreshold
          THEN [state |-> "open", failures |-> n, cool |-> FALSE]
          ELSE [c EXCEPT !.failures = n]

record_failure(c) ==
  LET n == IF c.failures < FailureThreshold THEN c.failures + 1 ELSE c.failures
  IN IF c.state = "half_open" \/ n >= FailureThreshold
     THEN [state |-> "open", failures |-> n, cool |-> FALSE]
     ELSE [c EXCEPT !.failures = n]

-----------------------------------------------------------------------------
(* Answers and evidence                                                    *)

Answer == {{}} \cup {F \cup {Words} : F \in SUBSET Figure}
AiRunStatus == {"succeeded", "limited", "grounding_failed"}

Figures(answer) == answer \ {Words}

verify_answer_grounding(answer, evidence) == Figures(answer) \subseteq evidence

-----------------------------------------------------------------------------
(* Requests                                                                *)

ConversationRow == [status: {"absent", "live", "deleted"}, expired: BOOLEAN]
NoConversation == [status |-> "absent", expired |-> FALSE]
Fresh == [status |-> "live", expired |-> FALSE]

Holding == {"open", "scope", "loop", "calling", "tools", "ground",
            "correct", "correcting", "save"}   \* a question holds a slot

Tx == [pc: {"off", "idle", "slot", "commit"} \cup Holding,
       op: {"ask", "delete", "purge", None},
       id: Conversation \cup {None},
       tools: 0..AiMaxToolCalls,         \* pending_tools
       todo: 0..MaxRequests,             \* tool_requests not yet run
       round: BOOLEAN,                   \* a tool of this round succeeded
       recorded: BOOLEAN,                \* there are evidence records,
       bare: BOOLEAN,                    \* one of them without figures
       evidence: SUBSET Figure,          \* figures of the records
       answer: Answer,
       status: AiRunStatus,
       undelete: BOOLEAN]                \* the UPDATE clears deleted_at

Idle == [pc |-> "idle", op |-> None, id |-> None, tools |-> 0, todo |-> 0,
         round |-> FALSE, recorded |-> FALSE, bare |-> FALSE, evidence |-> {},
         answer |-> {}, status |-> "succeeded", undelete |-> FALSE]
Off == [Idle EXCEPT !.pc = "off"]

Init ==
  /\ conversations = [c \in Conversation |-> NoConversation]
  /\ taken = 0 /\ window = 0 /\ circuit = Closed
  /\ \E pool \in (SUBSET Slot) \ {{}} :
       tx = [s \in Slot |-> IF s \in pool THEN Idle ELSE Off]

Sequential == \E s \in Slot : \A s2 \in Slot \ {s} : tx[s2].pc = "off"

(* The end of a question, answered or failed: the `finally' gives back.    *)
Release == /\ taken' = released(taken) /\ UNCHANGED <<window, circuit>>

Create(c) ==
  /\ conversations[c] = NoConversation
  /\ conversations' = [conversations EXCEPT ![c] = Fresh]
  /\ UNCHANGED <<memory, tx>>

(* Mutant of Ask: the window is not looked at.                             *)
AskUnlimited(s, c) ==
  /\ tx[s].pc = "idle"
  /\ window' = window + 1
  /\ tx' = [tx EXCEPT ![s] = [Idle EXCEPT !.pc = "slot", !.op = "ask", !.id = c]]
  /\ UNCHANGED <<conversations, taken, circuit>>

(* enforce_limit: a refused question is not counted.                       *)
Ask(s, c) ==
  /\ tx[s].pc = "idle"
  /\ window < AiPerMinute
  /\ window' = window + 1
  /\ tx' = [tx EXCEPT ![s] = [Idle EXCEPT !.pc = "slot", !.op = "ask", !.id = c]]
  /\ UNCHANGED <<conversations, taken, circuit>>

AcquireSlot(s) ==
  /\ tx[s].pc = "slot"
  /\ Acquirable(taken)
  /\ taken' = taken + 1
  /\ tx' = [tx EXCEPT ![s].pc = "open"]
  /\ UNCHANGED <<conversations, window, circuit>>

SlotRefused(s) ==
  /\ tx[s].pc = "slot"
  /\ ~Acquirable(taken)
  /\ tx' = [tx EXCEPT ![s] = Idle]
  /\ UNCHANGED <<conversations, memory>>

(* Mutant of OpenConversation: is_deleted is not looked at.                *)
OpenAnyConversation(s) ==
  /\ tx[s].pc = "open"
  /\ conversations[tx[s].id].status # "absent"
  /\ tx' = [tx EXCEPT ![s].pc = "scope"]
  /\ UNCHANGED <<conversations, memory>>

(* get and normalize_message, before the `try': a question that is refused *)
(* here keeps its slot.                                                    *)
OpenConversation(s) ==
  /\ tx[s].pc = "open"
  /\ conversations[tx[s].id].status = "live"
  /\ tx' = [tx EXCEPT ![s].pc = "scope"]
  /\ UNCHANGED <<conversations, memory>>

NotFoundOrInvalid(s) ==
  /\ tx[s].pc = "open"
  /\ tx' = [tx EXCEPT ![s] = Idle]
  /\ UNCHANGED <<conversations, memory>>

(* _query_from_context: without a budget version the question ends.        *)
Scope(s) ==
  /\ tx[s].pc = "scope"
  /\ tx' = [tx EXCEPT ![s].pc = "loop"]
  /\ UNCHANGED <<conversations, memory>>

(* The answer of a question that met a limit.                              *)
Limited(r) == [r EXCEPT !.pc = "save", !.status = "limited", !.answer = {Words}]

TimeIsUp(s) ==
  /\ tx[s].pc = "loop"
  /\ tx' = [tx EXCEPT ![s] = Limited(@)]
  /\ UNCHANGED <<conversations, memory>>

(* CircuitBreaker.call: what happens before and after the operation, for   *)
(* the question itself and for its correction.                             *)
CallProvider(s) ==
  LET r == tx[s] IN
  /\ r.pc \in {"loop", "correct"}
  /\ Lets(circuit)
  /\ circuit' = called(circuit)
  /\ tx' = [tx EXCEPT ![s].pc = IF @ = "loop" THEN "calling" ELSE "correcting"]
  /\ UNCHANGED <<conversations, taken, window>>

CircuitOpen(s) ==
  /\ tx[s].pc \in {"loop", "correct"}
  /\ ~Lets(circuit)
  /\ tx' = [tx EXCEPT ![s] = Idle]
  /\ Release
  /\ UNCHANGED conversations

ProviderFails(s) ==
  /\ tx[s].pc \in {"calling", "correcting"}
  /\ circuit' = record_failure(circuit)
  /\ taken' = released(taken)
  /\ tx' = [tx EXCEPT ![s] = Idle]
  /\ UNCHANGED <<conversations, window>>

ProviderAnswers(s, answer) ==
  /\ tx[s].pc = "calling"
  /\ circuit' = Closed
  /\ tx' = [tx EXCEPT ![s].pc = "ground", ![s].answer = answer]
  /\ UNCHANGED <<conversations, taken, window>>

ProviderRequests(s, n) ==
  LET r == tx[s] IN
  /\ r.pc = "calling"
  /\ circuit' = Closed
  /\ tx' = [tx EXCEPT ![s] =
              IF r.tools >= AiMaxToolCalls THEN Limited(r)
              ELSE [r EXCEPT !.pc = "tools", !.todo = n, !.round = FALSE]]
  /\ UNCHANGED <<conversations, taken, window>>

(* _execute_registered_tool: a tool that is rejected or fails counts as a  *)
(* call and leaves no evidence record.                                     *)
ExecuteTool(s, ok, figures) ==
  LET r == tx[s] IN
  /\ r.pc = "tools" /\ r.todo > 0 /\ r.tools < AiMaxToolCalls
  /\ ~ok => figures = {}
  /\ tx' = [tx EXCEPT ![s] =
              IF ~ok THEN [r EXCEPT !.todo = @ - 1, !.tools = @ + 1]
              ELSE [r EXCEPT !.todo = @ - 1, !.tools = @ + 1, !.round = TRUE,
                             !.recorded = TRUE, !.evidence = @ \cup figures,
                             !.bare = @ \/ figures = {}]]
  /\ UNCHANGED <<conversations, memory>>

(* Mutant of EndRound: the limit is one of each round.                     *)
EndRoundUncounted(s, text) ==
  LET r == tx[s] IN
  /\ r.pc = "tools"
  /\ r.todo = 0 \/ r.tools = AiMaxToolCalls
  /\ tx' = [tx EXCEPT ![s] =
              IF r.tools = AiMaxToolCalls THEN Limited(r)
              ELSE IF r.round THEN [r EXCEPT !.pc = "loop", !.tools = 0]
              ELSE [r EXCEPT !.pc = "ground", !.answer = text]]
  /\ UNCHANGED <<conversations, memory>>

(* The end of a round: the limit, no result at all (the provider's text is *)
(* then the answer), or the results go back to the provider.               *)
EndRound(s, text) ==
  LET r == tx[s] IN
  /\ r.pc = "tools"
  /\ r.todo = 0 \/ r.tools = AiMaxToolCalls
  /\ tx' = [tx EXCEPT ![s] =
              IF r.tools = AiMaxToolCalls THEN Limited(r)
              ELSE IF r.round THEN [r EXCEPT !.pc = "loop"]
              ELSE [r EXCEPT !.pc = "ground", !.answer = text]]
  /\ UNCHANGED <<conversations, memory>>

(* _answer_from_evidence: an empty answer becomes one made of evidence;    *)
(* _ground_answer: without records nothing is compared.                    *)
GroundAnswer(s) ==
  LET r == tx[s]
      answer == IF r.answer = {} /\ r.recorded THEN {Words} \cup r.evidence
                                                  ELSE r.answer
  IN /\ r.pc = "ground"
     /\ tx' = [tx EXCEPT ![s] =
          IF r.recorded /\ r.bare
          THEN [r EXCEPT !.pc = "save", !.answer = {Words}]  \* not can_conclude
          ELSE IF ~r.recorded \/ verify_answer_grounding(answer, r.evidence)
          THEN [r EXCEPT !.pc = "save", !.answer = answer]
          ELSE [r EXCEPT !.pc = "correct", !.answer = answer]]
     /\ UNCHANGED <<conversations, memory>>

Ungrounded(r) == [r EXCEPT !.pc = "save", !.answer = {Words},
                           !.status = "grounding_failed"]

(* No time is left for a correction.                                       *)
NoCorrection(s) ==
  /\ tx[s].pc = "correct"
  /\ tx' = [tx EXCEPT ![s] = Ungrounded(@)]
  /\ UNCHANGED <<conversations, memory>>

(* Mutant of Correction: the second answer is believed.                    *)
CorrectionBelieved(s, text) ==
  /\ tx[s].pc = "correcting"
  /\ circuit' = Closed
  /\ tx' = [tx EXCEPT ![s].pc = "save", ![s].answer = text]
  /\ UNCHANGED <<conversations, taken, window>>

Correction(s, text) ==
  LET r == tx[s]
      retry == IF text = {} THEN {Words} \cup r.evidence ELSE text
  IN /\ r.pc = "correcting"
     /\ circuit' = Closed
     /\ tx' = [tx EXCEPT ![s] =
          IF verify_answer_grounding(retry, r.evidence)
          THEN [r EXCEPT !.pc = "save", !.answer = retry] ELSE Ungrounded(r)]
     /\ UNCHANGED <<conversations, taken, window>>

(* repo.save: a second read of the row.  The copy has no deleted_at, so    *)
(* the UPDATE clears the one a deletion has committed meanwhile.           *)
SaveQuestion(s) ==
  /\ tx[s].pc = "save"
  /\ tx' = [tx EXCEPT ![s].pc = "commit",
              ![s].tools = 0, ![s].todo = 0, ![s].round = FALSE,
              ![s].undelete = conversations[tx[s].id].status = "deleted"]
  /\ Release
  /\ UNCHANGED conversations

CommitQuestion(s) ==
  LET r == tx[s] IN
  /\ r.pc = "commit" /\ r.op = "ask"
  /\ conversations' = [conversations EXCEPT
       ![r.id] = IF r.undelete THEN Fresh ELSE [@ EXCEPT !.expired = FALSE]]
  /\ tx' = [tx EXCEPT ![s] = Idle]
  /\ UNCHANGED memory

(* DELETE /conversations/{id}, and purge_expired_conversations of one      *)
(* conversation (its list and its save are two reads as well).             *)
Delete(s, c) ==
  /\ tx[s].pc = "idle"
  /\ conversations[c].status = "live"
  /\ tx' = [tx EXCEPT ![s] = [Idle EXCEPT !.pc = "commit", !.op = "delete",
                                          !.id = c]]
  /\ UNCHANGED <<conversations, memory>>

Purge(s, c) ==
  /\ tx[s].pc = "idle"
  /\ conversations[c].status = "live" /\ conversations[c].expired
  /\ tx' = [tx EXCEPT ![s] = [Idle EXCEPT !.pc = "commit", !.op = "purge",
                                          !.id = c]]
  /\ UNCHANGED <<conversations, memory>>

(* deleted_at and updated_at are new in any case.                          *)
CommitDelete(s) ==
  LET r == tx[s] IN
  /\ r.pc = "commit" /\ r.op \in {"delete", "purge"}
  /\ conversations' = [conversations EXCEPT
       ![r.id] = [status |-> "deleted", expired |-> FALSE]]
  /\ tx' = [tx EXCEPT ![s] = Idle]
  /\ UNCHANGED memory

(* A scope, a tool result or a commit that fails: the transaction is       *)
(* rolled back, with the audit of the failure, and the slot given back.    *)
Fail(s) ==
  LET pc == tx[s].pc IN
  /\ pc \in {"scope", "ground", "save", "commit"}
  /\ IF pc \in Holding THEN Release ELSE UNCHANGED memory
  /\ tx' = [tx EXCEPT ![s] = Idle]
  /\ UNCHANGED conversations

(* Time                                                                    *)
Forget == /\ window > 0 /\ window' = window - 1
          /\ UNCHANGED <<conversations, taken, circuit, tx>>

CoolDown == /\ circuit.state = "open" /\ ~circuit.cool
            /\ circuit' = [circuit EXCEPT !.cool = TRUE]
            /\ UNCHANGED <<conversations, taken, window, tx>>

(* Calls of the questions of other users pass through the same breaker:    *)
(* one begins, or one begun at some time ends well or fails.               *)
OthersCall ==
  /\ \/ Lets(circuit) /\ circuit' = called(circuit)
     \/ circuit' = Closed
     \/ circuit' = record_failure(circuit)
  /\ UNCHANGED <<conversations, taken, window, tx>>

Expire(c) ==
  /\ conversations[c].status = "live" /\ ~conversations[c].expired
  /\ conversations' = [conversations EXCEPT ![c].expired = TRUE]
  /\ UNCHANGED <<memory, tx>>

Start(s) ==
  \E c \in Conversation : Ask(s, c) \/ Delete(s, c) \/ Purge(s, c)

Provider(s) ==
  \/ CallProvider(s) \/ CircuitOpen(s) \/ ProviderFails(s)
  \/ \E answer \in Answer : ProviderAnswers(s, answer) \/ Correction(s, answer)
  \/ \E n \in 1..MaxRequests : ProviderRequests(s, n)

Continue(s) ==
  \/ AcquireSlot(s) \/ SlotRefused(s) \/ OpenConversation(s)
  \/ NotFoundOrInvalid(s) \/ Scope(s) \/ TimeIsUp(s) \/ Provider(s)
  \/ \E ok \in BOOLEAN, figures \in SUBSET Figure : ExecuteTool(s, ok, figures)
  \/ \E text \in Answer : EndRound(s, text)
  \/ GroundAnswer(s) \/ NoCorrection(s)
  \/ SaveQuestion(s) \/ CommitQuestion(s) \/ CommitDelete(s) \/ Fail(s)

Time == Forget \/ CoolDown \/ OthersCall \/ \E c \in Conversation : Create(c) \/ Expire(c)

Next == Time \/ \E s \in Slot : Start(s) \/ Continue(s)

(* Threads run; a call of the provider ends, by its read_timeout if need.  *)
Spec == Init /\ [][Next]_vars /\ \A s \in Slot : WF_vars(Continue(s))

-----------------------------------------------------------------------------
(* Properties                                                              *)

TypeOK ==
  /\ conversations \in [Conversation -> ConversationRow]
  /\ taken \in Nat /\ window \in 0..AiPerMinute
  /\ circuit \in Circuit
  /\ tx \in [Slot -> Tx]

Asking == {s \in Slot : tx[s].pc \in Holding}

(* At most ai_max_concurrent_conversations questions of the user are being *)
(* answered, whatever was lost or refused before (ConcurrencyLimiter).     *)
AsksWithinLimit == Cardinality(Asking) <= AiMaxConcurrent

(* Once a tool has given evidence, an answer to be committed has figures   *)
(* of the evidence only, through rounds, limits and corrections            *)
(* (_ground_answer).                                                       *)
AnswersGrounded ==
  \A s \in Slot :
    tx[s].pc = "commit" /\ tx[s].recorded
    => Figures(tx[s].answer) \subseteq tx[s].evidence

(* The breaker lets calls through freely exactly while the failures since  *)
(* the last success are below the threshold, although calls of all users   *)
(* overlap and end in any order, in half_open too (CircuitBreaker).        *)
CircuitFollowsFailures ==
  circuit.state = "closed" <=> circuit.failures < FailureThreshold

(* A deleted conversation comes back only by a question that had opened it *)
(* before, never while requests do not overlap (soft_delete, repo.save).   *)
ReturnsOnlyByStaleQuestion ==
  [][\A c \in Conversation :
       conversations[c].status = "deleted" /\ conversations'[c].status = "live"
       => /\ ~Sequential
          /\ \E s \in Slot : tx[s].op = "ask" /\ tx[s].id = c
                             /\ tx[s].pc = "commit" /\ tx[s].undelete]_vars

(* Every question ends, however many tools the provider asks for.          *)
QuestionsEnd == \A s \in Slot : tx[s].pc \in Holding ~> tx[s].pc \notin Holding

(* "Hay demasiadas consultas del copiloto en curso. Espera a que termine   *)
(* una." (rate_limit.py): when none is in progress, no slot is taken.      *)
SlotsReturned ==
  (\A s \in Slot : tx[s].pc \notin Holding) => taken = 0

(* "Grounding checks extract amounts from the answer and compare them to   *)
(* the financial engine." (docs/AI_EVALUATION.md)                          *)
FiguresHaveEvidence ==
  \A s \in Slot :
    tx[s].pc = "commit" => Figures(tx[s].answer) \subseteq tx[s].evidence

-----------------------------------------------------------------------------
(* The inductive invariant behind the safety properties                    *)

(* What the step a request has reached says of its record r.               *)
RequestShape(r) ==
  /\ r.pc \in {"off", "idle"} => r.op = None
  /\ r.pc \notin {"off", "idle"} => r.id \in Conversation
  /\ r.pc \in Holding \cup {"slot"} => r.op = "ask"
  /\ r.pc \in {"save", "commit"} /\ r.recorded
     => Figures(r.answer) \subseteq r.evidence

(* The limiter counts every running question, and those whose slot was     *)
(* never given back.                                                       *)
SlotsCounted ==
  /\ IsFiniteSet(Asking)
  /\ Cardinality(Asking) <= taken
  /\ taken <= AiMaxConcurrent

(* With one thread, an opened conversation is not deleted under r.         *)
Opened == Holding \ {"open"}
FreshRequest(r) ==
  r.op = "ask" => /\ r.pc \in Opened => conversations[r.id].status = "live"
                  /\ r.pc = "commit" => ~r.undelete

IInv ==
  /\ TypeOK
  /\ \A s \in Slot : RequestShape(tx[s])
  /\ SlotsCounted
  /\ CircuitFollowsFailures
  /\ Sequential => \A s \in Slot : FreshRequest(tx[s])
=============================================================================

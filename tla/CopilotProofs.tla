----------------------------- MODULE CopilotProofs -----------------------------
(***************************************************************************)
(* Proofs about Copilot for every number of threads, limits and figures,   *)
(* and for every behaviour of the provider.  A step of a request is        *)
(* reduced to the record t it leaves and to what it does to the slots      *)
(* (Moves); the circuit breaker and time are treated apart.                *)
(***************************************************************************)
EXTENDS Copilot, FiniteSetTheorems, TLAPS

-----------------------------------------------------------------------------
(* Answers, slots and the circuit                                          *)

(* Texts of words and figures are answers, and show their figures.         *)
LEMMA AnswerFacts ==
  /\ {} \in Answer /\ {Words} \in Answer
  /\ \A E \in SUBSET Figure : {Words} \cup E \in Answer
  /\ Figures({Words}) = {}
  /\ \A E : Figures({Words} \cup E) \subseteq E
BY CopilotAssumption DEF Answer, Figures

(* The bounds are positive numbers.                                        *)
LEMMA Bounds ==
  /\ AiMaxToolCalls \in Nat /\ AiMaxToolCalls > 0
  /\ AiMaxConcurrent \in Nat /\ AiMaxConcurrent > 0
  /\ AiPerMinute \in Nat /\ AiPerMinute > 0
  /\ FailureThreshold \in Nat /\ FailureThreshold > 0
  /\ MaxRequests \in Nat /\ MaxRequests > 0
BY CopilotAssumption

(* Whatever call begins or ends, the circuit is closed exactly below the   *)
(* threshold.                                                              *)
LEMMA CircuitStep ==
  ASSUME circuit \in Circuit, CircuitFollowsFailures,
         circuit' \in {circuit, Closed, called(circuit), record_failure(circuit)}
  PROVE  circuit' \in Circuit /\ CircuitFollowsFailures'
<1> USE Bounds DEF Circuit, CircuitState, CircuitFollowsFailures
<1>1. CASE circuit' = circuit
  BY <1>1
<1>2. CASE circuit' = Closed
  BY <1>2 DEF Closed
<1>3. CASE circuit' = called(circuit)
  BY <1>3 DEF called
<1>4. CASE circuit' = record_failure(circuit)
  <2> DEFINE n == IF circuit.failures < FailureThreshold THEN circuit.failures + 1
                                                         ELSE circuit.failures
  <2>1. n \in 0..FailureThreshold
    OBVIOUS
  <2>2. CASE circuit.state = "half_open" \/ n >= FailureThreshold
    <3>1. circuit' = [state |-> "open", failures |-> n, cool |-> FALSE]
      BY <1>4, <2>2 DEF record_failure
    <3>2. n = FailureThreshold
      BY <2>1, <2>2
    <3> QED
      BY <2>1, <3>1, <3>2
  <2>3. CASE ~(circuit.state = "half_open" \/ n >= FailureThreshold)
    <3>1. circuit' = [circuit EXCEPT !.failures = n]
      BY <1>4, <2>3 DEF record_failure
    <3> QED
      BY <2>1, <2>3, <3>1
  <2> QED
    BY <2>2, <2>3
<1> QED
  BY <1>1, <1>2, <1>3, <1>4

(* Slot s does to the counter what it does to the set of running           *)
(* questions, or leaves a slot taken that nobody uses.                     *)
CountsSlot(s, t) ==
  \/ /\ (tx[s].pc \in Holding <=> t.pc \in Holding) /\ taken' = taken
  \/ /\ tx[s].pc \notin Holding /\ t.pc \in Holding
     /\ taken < AiMaxConcurrent /\ taken' = taken + 1
  \/ /\ tx[s].pc \in Holding /\ t.pc \notin Holding
     /\ taken' \in {taken, released(taken)}

LEMMA SlotStep ==
  ASSUME TypeOK, SlotsCounted, NEW s \in Slot, NEW t,
         tx' = [tx EXCEPT ![s] = t], CountsSlot(s, t)
  PROVE  SlotsCounted' /\ taken' \in Nat
<1> USE Bounds DEF TypeOK, SlotsCounted
<1>1. tx'[s] = t /\ \A s2 \in Slot \ {s} : tx'[s2] = tx[s2]
  OBVIOUS
<1>2. Cardinality(Asking) \in Nat
  BY FS_CardinalityType
<1>3. CASE (tx[s].pc \in Holding <=> t.pc \in Holding) /\ taken' = taken
  <2>1. Asking' = Asking
    BY <1>1, <1>3 DEF Asking
  <2> QED
    BY <1>3, <2>1
<1>4. CASE /\ tx[s].pc \notin Holding /\ t.pc \in Holding
           /\ taken < AiMaxConcurrent /\ taken' = taken + 1
  <2>1. Asking' = Asking \cup {s} /\ s \notin Asking
    BY <1>1, <1>4 DEF Asking
  <2>2. IsFiniteSet(Asking') /\ Cardinality(Asking') = Cardinality(Asking) + 1
    BY <2>1, FS_AddElement
  <2> QED
    BY <1>2, <1>4, <2>2
<1>5. CASE /\ tx[s].pc \in Holding /\ t.pc \notin Holding
           /\ taken' \in {taken, released(taken)}
  <2>1. Asking' = Asking \ {s} /\ s \in Asking
    BY <1>1, <1>5 DEF Asking
  <2>2. IsFiniteSet(Asking') /\ Cardinality(Asking') = Cardinality(Asking) - 1
    BY <2>1, FS_RemoveElement
  <2>3. Cardinality(Asking') \in Nat
    BY <2>2, FS_CardinalityType
  <2> QED
    BY <1>2, <1>5, <2>2, <2>3 DEF released
<1> QED
  BY <1>3, <1>4, <1>5 DEF CountsSlot

-----------------------------------------------------------------------------
(* Steps of requests                                                       *)

(* Slot s goes on with record t.                                           *)
Moves(s, t) ==
  /\ tx' = [tx EXCEPT ![s] = t]
  /\ t \in Tx /\ tx[s].pc # "off" /\ t.pc # "off"
  /\ RequestShape(t)
  /\ CountsSlot(s, t)
  /\ window' \in 0..AiPerMinute
  /\ circuit' \in {circuit, Closed, called(circuit), record_failure(circuit)}
  /\ Sequential => FreshRequest(t)

(* What the invariant says of the record of one slot.                      *)
LEMMA Request ==
  ASSUME IInv, NEW s \in Slot
  PROVE  /\ tx[s] \in Tx /\ RequestShape(tx[s])
         /\ Sequential => FreshRequest(tx[s])
         /\ window \in 0..AiPerMinute /\ taken <= AiMaxConcurrent /\ taken \in Nat
         /\ conversations \in [Conversation -> ConversationRow]
BY DEF IInv, TypeOK, SlotsCounted

(* A record that ends its request.                                         *)
LEMMA IdleFacts ==
  /\ Idle \in Tx /\ Idle.pc = "idle" /\ Idle.pc \notin Holding /\ Idle.pc # "off"
  /\ RequestShape(Idle) /\ FreshRequest(Idle)
  /\ \A id \in Conversation : \A op \in {"ask", "delete", "purge"}, pc \in {"slot", "commit"} :
       (pc = "slot" => op = "ask")
       => /\ [Idle EXCEPT !.pc = pc, !.op = op, !.id = id] \in Tx
          /\ RequestShape([Idle EXCEPT !.pc = pc, !.op = op, !.id = id])
          /\ FreshRequest([Idle EXCEPT !.pc = pc, !.op = op, !.id = id])
<1> USE CopilotAssumption, Bounds, AnswerFacts
<1>1. Idle \in Tx
  BY DEF Idle, Tx, AiRunStatus
<1>2. ASSUME NEW id \in Conversation, NEW op \in {"ask", "delete", "purge"},
             NEW pc \in {"slot", "commit"}, pc = "slot" => op = "ask"
      PROVE  LET t == [Idle EXCEPT !.pc = pc, !.op = op, !.id = id]
             IN  t \in Tx /\ RequestShape(t) /\ FreshRequest(t)
  <2> DEFINE t == [Idle EXCEPT !.pc = pc, !.op = op, !.id = id]
  <2>1. t \in Tx
    BY <1>1 DEF Tx, Idle
  <2>2. t.pc = pc /\ t.op = op /\ t.id = id /\ t.recorded = FALSE
        /\ t.undelete = FALSE
    BY DEF Idle
  <2> HIDE DEF t
  <2>3. RequestShape(t) /\ FreshRequest(t)
    BY <1>2, <2>2 DEF RequestShape, FreshRequest, Holding, Opened
  <2> QED
    BY <2>1, <2>3 DEF t
<1>3. RequestShape(Idle) /\ FreshRequest(Idle)
  BY DEF Idle, RequestShape, FreshRequest, Holding
<1>4. Idle.pc = "idle" /\ Idle.pc \notin Holding
  BY DEF Idle, Holding
<1> QED
  BY <1>1, <1>2, <1>3, <1>4

(* Starting, a refusal of the limiter, and every failure: the request ends *)
(* or begins.                                                              *)
LEMMA StartMoves ==
  ASSUME IInv, NEW s \in Slot, Start(s)
  PROVE  \E t : Moves(s, t)
<1> USE Bounds
<1>1. PICK c \in Conversation : Ask(s, c) \/ Delete(s, c) \/ Purge(s, c)
  BY DEF Start
<1>2. tx[s].pc = "idle" /\ tx[s].pc \notin Holding
  BY <1>1 DEF Ask, Delete, Purge, Holding
<1>3. ASSUME NEW op \in {"ask", "delete", "purge"}, NEW pc \in {"slot", "commit"},
             pc = "slot" => op = "ask",
             tx' = [tx EXCEPT ![s] = [Idle EXCEPT !.pc = pc, !.op = op, !.id = c]],
             window' \in 0..AiPerMinute, taken' = taken, circuit' = circuit
      PROVE  \E t : Moves(s, t)
  <2> DEFINE t == [Idle EXCEPT !.pc = pc, !.op = op, !.id = c]
  <2>1. t.pc = pc /\ pc \notin Holding /\ pc # "off"
    BY DEF Idle, Holding
  <2>2. CountsSlot(s, t)
    BY <1>2, <1>3, <2>1 DEF CountsSlot
  <2>3. Moves(s, t)
    BY <1>2, <1>3, <2>1, <2>2, IdleFacts DEF Moves
  <2> QED
    BY <2>3
<1>4. CASE Ask(s, c)
  BY <1>3, <1>4, Request DEF Ask
<1>5. CASE Delete(s, c)
  BY <1>3, <1>5, Request DEF Delete, memory
<1>6. CASE Purge(s, c)
  BY <1>3, <1>6, Request DEF Purge, memory
<1> QED
  BY <1>1, <1>4, <1>5, <1>6

LEMMA EndMoves ==
  ASSUME IInv, NEW s \in Slot,
         \/ SlotRefused(s) \/ NotFoundOrInvalid(s) \/ CircuitOpen(s)
         \/ ProviderFails(s) \/ CommitQuestion(s) \/ CommitDelete(s) \/ Fail(s)
  PROVE  \E t : Moves(s, t)
<1>1. tx' = [tx EXCEPT ![s] = Idle] /\ tx[s].pc # "off"
  BY DEF SlotRefused, NotFoundOrInvalid, CircuitOpen, ProviderFails, CommitQuestion,
         CommitDelete, Fail
<1>2. CountsSlot(s, Idle)
  <2>1. Idle.pc \notin Holding
    BY IdleFacts
  <2>2. CASE SlotRefused(s) \/ CommitQuestion(s) \/ CommitDelete(s)
    BY <2>1, <2>2 DEF SlotRefused, CommitQuestion, CommitDelete, CountsSlot, memory, Holding
  <2>3. CASE NotFoundOrInvalid(s) \/ CircuitOpen(s) \/ ProviderFails(s)
    BY <2>1, <2>3 DEF NotFoundOrInvalid, CircuitOpen, ProviderFails, Release, CountsSlot,
                      memory, Holding
  <2>4. CASE Fail(s)
    BY <2>1, <2>4 DEF Fail, Release, CountsSlot, memory
  <2> QED
    BY <2>2, <2>3, <2>4
<1>3. /\ window' \in 0..AiPerMinute
      /\ circuit' \in {circuit, Closed, called(circuit), record_failure(circuit)}
  BY Request DEF SlotRefused, NotFoundOrInvalid, CircuitOpen, ProviderFails,
                 CommitQuestion, CommitDelete, Fail, Release, memory
<1>4. Moves(s, Idle)
  BY <1>1, <1>2, <1>3, IdleFacts DEF Moves
<1> QED
  BY <1>4

(* A question that goes on keeps its slot, its conversation, and an answer *)
(* to be saved has evidence.                                               *)
LEMMA GoesOn ==
  ASSUME IInv, NEW s \in Slot, NEW t \in Tx, tx' = [tx EXCEPT ![s] = t],
         tx[s].pc \in Holding, t.pc \in Holding,
         t.pc = "open" \/ tx[s].pc # "open" \/ conversations[t.id].status = "live",
         t.op = tx[s].op, t.id = tx[s].id,
         t.pc = "save" /\ t.recorded => Figures(t.answer) \subseteq t.evidence,
         UNCHANGED <<taken, window>>,
         circuit' \in {circuit, Closed, called(circuit), record_failure(circuit)}
  PROVE  Moves(s, t)
<1>1. /\ tx[s].pc \notin {"off", "idle"} /\ t.pc \notin {"off", "idle", "commit"}
      /\ t.pc # "open" <=> t.pc \in Opened
      /\ tx[s].pc # "open" <=> tx[s].pc \in Opened
  BY DEF Holding, Opened
<1>2. RequestShape(t)
  BY <1>1, Request DEF RequestShape
<1>3. Sequential => FreshRequest(t)
  BY <1>1, Request DEF RequestShape, FreshRequest
<1> QED
  BY <1>1, <1>2, <1>3, Request DEF Moves, CountsSlot

(* Up to the first call of the provider.                                   *)
LEMMA OpeningMoves ==
  ASSUME IInv, NEW s \in Slot,
         AcquireSlot(s) \/ OpenConversation(s) \/ Scope(s) \/ TimeIsUp(s)
  PROVE  \E t : Moves(s, t)
<1> DEFINE r == tx[s]
<1>1. r \in Tx
  BY Request
<1>2. CASE AcquireSlot(s)
  <2> DEFINE t == [r EXCEPT !.pc = "open"]
  <2>1. /\ t \in Tx /\ t.pc = "open" /\ t.op = r.op /\ t.id = r.id
        /\ tx' = [tx EXCEPT ![s] = t] /\ r.pc = "slot"
    BY <1>1, <1>2 DEF AcquireSlot, Tx, Holding
  <2> HIDE DEF t
  <2>2. RequestShape(t)
    BY <1>1, <2>1, Request DEF RequestShape, Tx, Holding
  <2>3. Sequential => FreshRequest(t)
    BY <2>1 DEF FreshRequest, Opened
  <2>4. CountsSlot(s, t)
    BY <1>2, <2>1 DEF AcquireSlot, CountsSlot, Acquirable, Holding
  <2>5. Moves(s, t)
    BY <1>2, <2>1, <2>2, <2>3, <2>4, Request DEF AcquireSlot, Moves
  <2> QED
    BY <2>5
<1>3. ASSUME NEW pc \in {"scope", "loop"}, r.pc \in Holding,
             r.pc # "open" \/ conversations[r.id].status = "live",
             tx' = [tx EXCEPT ![s] = [r EXCEPT !.pc = pc]],
             UNCHANGED memory
      PROVE  \E t : Moves(s, t)
  <2> DEFINE t == [r EXCEPT !.pc = pc]
  <2>1. t \in Tx /\ t.pc = pc /\ t.op = r.op /\ t.id = r.id
    BY <1>1 DEF Tx, Holding
  <2>2. pc \in Holding /\ pc \notin {"open", "save"}
    BY DEF Holding
  <2> HIDE DEF t
  <2>3. tx' = [tx EXCEPT ![s] = t]
    BY <1>3 DEF t
  <2>4. UNCHANGED <<taken, window, circuit>>
    BY <1>3 DEF memory
  <2>5. Moves(s, t)
    BY <1>3, <2>1, <2>2, <2>3, <2>4, GoesOn
  <2> QED
    BY <2>5
<1>4. CASE OpenConversation(s)
  <2>1. tx' = [tx EXCEPT ![s] = [r EXCEPT !.pc = "scope"]]
    BY <1>4 DEF OpenConversation
  <2> QED
    BY <1>3, <1>4, <2>1 DEF OpenConversation, Holding
<1>5. CASE Scope(s)
  <2>1. tx' = [tx EXCEPT ![s] = [r EXCEPT !.pc = "loop"]]
    BY <1>5 DEF Scope
  <2> QED
    BY <1>3, <1>5, <2>1 DEF Scope, Holding
<1>6. CASE TimeIsUp(s)
  <2> DEFINE t == Limited(r)
  <2>1. /\ t \in Tx /\ t.pc = "save" /\ t.op = r.op /\ t.id = r.id
        /\ t.answer = {Words} /\ r.pc = "loop" /\ tx' = [tx EXCEPT ![s] = t]
    BY <1>1, <1>6, AnswerFacts DEF TimeIsUp, Limited, Tx, Holding, AiRunStatus
  <2> HIDE DEF t
  <2>2. r.pc \in Holding /\ t.pc \in Holding /\ Figures(t.answer) \subseteq t.evidence
    BY <2>1, AnswerFacts DEF Holding
  <2>3. UNCHANGED <<taken, window, circuit>>
    BY <1>6 DEF TimeIsUp, memory
  <2>4. Moves(s, t)
    BY <2>1, <2>2, <2>3, GoesOn
  <2> QED
    BY <2>4
<1> QED
  BY <1>2, <1>4, <1>5, <1>6

(* The provider answers, requests tools, or is given results; answers are  *)
(* compared with the evidence.                                             *)
LEMMA ProviderMoves ==
  ASSUME IInv, NEW s \in Slot,
         \/ CallProvider(s)
         \/ \E answer \in Answer : ProviderAnswers(s, answer) \/ Correction(s, answer)
         \/ \E n \in 1..MaxRequests : ProviderRequests(s, n)
  PROVE  \E t : Moves(s, t)
<1> DEFINE r == tx[s]
<1>1. r \in Tx
  BY Request
<1>2. CASE CallProvider(s)
  <2> DEFINE t == [r EXCEPT !.pc = IF @ = "loop" THEN "calling" ELSE "correcting"]
  <2>1. /\ t \in Tx /\ t.pc \in {"calling", "correcting"} /\ t.op = r.op /\ t.id = r.id
        /\ r.pc \in {"loop", "correct"} /\ tx' = [tx EXCEPT ![s] = t]
    BY <1>1, <1>2 DEF CallProvider, Tx, Holding
  <2> HIDE DEF t
  <2>2. r.pc \in Holding /\ t.pc \in Holding
    BY <2>1 DEF Holding
  <2>3. Moves(s, t)
    BY <1>2, <2>1, <2>2, GoesOn DEF CallProvider
  <2> QED
    BY <2>3
<1>3. ASSUME NEW answer \in Answer, ProviderAnswers(s, answer)
      PROVE  \E t : Moves(s, t)
  <2> DEFINE t == [r EXCEPT !.pc = "ground", !.answer = answer]
  <2>1. /\ t \in Tx /\ t.pc = "ground" /\ t.op = r.op /\ t.id = r.id
        /\ r.pc = "calling" /\ tx' = [tx EXCEPT ![s] = t]
    BY <1>1, <1>3 DEF ProviderAnswers, Tx, Holding
  <2> HIDE DEF t
  <2>2. r.pc \in Holding /\ t.pc \in Holding
    BY <2>1 DEF Holding
  <2>3. Moves(s, t)
    BY <1>3, <2>1, <2>2, GoesOn DEF ProviderAnswers
  <2> QED
    BY <2>3
<1>4. ASSUME NEW text \in Answer, Correction(s, text)
      PROVE  \E t : Moves(s, t)
  <2> DEFINE retry == IF text = {} THEN {Words} \cup r.evidence ELSE text
             t == IF verify_answer_grounding(retry, r.evidence)
                  THEN [r EXCEPT !.pc = "save", !.answer = retry] ELSE Ungrounded(r)
  <2>1. retry \in Answer
    BY <1>1, AnswerFacts DEF Tx
  <2>2. /\ [r EXCEPT !.pc = "save", !.answer = retry] \in Tx
        /\ Ungrounded(r) \in Tx
    BY <1>1, <2>1, AnswerFacts DEF Ungrounded, Tx, Holding, AiRunStatus
  <2>3. /\ t \in Tx /\ t.pc = "save" /\ t.op = r.op /\ t.id = r.id
        /\ Figures(t.answer) \subseteq t.evidence
    <3>1. CASE verify_answer_grounding(retry, r.evidence)
      <4>1. t = [r EXCEPT !.pc = "save", !.answer = retry]
        BY <3>1
      <4>2. t.answer = retry /\ t.evidence = r.evidence
        BY <1>1, <4>1 DEF Tx
      <4> QED
        BY <1>1, <2>2, <3>1, <4>1, <4>2 DEF Tx, verify_answer_grounding
    <3>2. CASE ~verify_answer_grounding(retry, r.evidence)
      <4>1. t = Ungrounded(r)
        BY <3>2
      <4>2. /\ Ungrounded(r).answer = {Words} /\ Ungrounded(r).pc = "save"
            /\ Ungrounded(r).op = r.op /\ Ungrounded(r).id = r.id
        BY <1>1 DEF Ungrounded, Tx
      <4> HIDE DEF t, retry
      <4> QED
        BY <2>2, <4>1, <4>2, AnswerFacts
    <3> QED
      BY <3>1, <3>2
  <2>4. r.pc = "correcting" /\ tx' = [tx EXCEPT ![s] = t]
    BY <1>4 DEF Correction
  <2> HIDE DEF t
  <2>5. r.pc \in Holding /\ t.pc \in Holding
    BY <2>3, <2>4 DEF Holding
  <2>6. Moves(s, t)
    BY <1>4, <2>3, <2>4, <2>5, GoesOn DEF Correction
  <2> QED
    BY <2>6
<1>5. ASSUME NEW n \in 1..MaxRequests, ProviderRequests(s, n)
      PROVE  \E t : Moves(s, t)
  <2> DEFINE t == IF r.tools >= AiMaxToolCalls THEN Limited(r)
                  ELSE [r EXCEPT !.pc = "tools", !.todo = n, !.round = FALSE]
  <2>1. Limited(r) \in Tx
    BY <1>1, AnswerFacts DEF Limited, Tx, Holding, AiRunStatus
  <2>2. [r EXCEPT !.pc = "tools", !.todo = n, !.round = FALSE] \in Tx
    <3>1. n \in 0..MaxRequests
      BY Bounds
    <3> QED
      BY <1>1, <3>1 DEF Tx, Holding
  <2>3. /\ t.pc \in {"save", "tools"} /\ t.op = r.op /\ t.id = r.id
        /\ t.pc = "save" => t.answer = {Words}
    BY <1>1 DEF Limited, Tx
  <2>4. r.pc = "calling" /\ tx' = [tx EXCEPT ![s] = t] /\ t \in Tx
    BY <1>5, <2>1, <2>2 DEF ProviderRequests
  <2> HIDE DEF t
  <2>5. /\ r.pc \in Holding /\ t.pc \in Holding
        /\ t.pc = "save" => Figures(t.answer) \subseteq t.evidence
    BY <2>3, <2>4, AnswerFacts DEF Holding
  <2>6. Moves(s, t)
    BY <1>5, <2>3, <2>4, <2>5, GoesOn DEF ProviderRequests
  <2> QED
    BY <2>6
<1> QED
  BY <1>2, <1>3, <1>4, <1>5

(* Tools run and rounds end.                                               *)
LEMMA ToolMoves ==
  ASSUME IInv, NEW s \in Slot,
         \/ \E ok \in BOOLEAN, figures \in SUBSET Figure : ExecuteTool(s, ok, figures)
         \/ \E text \in Answer : EndRound(s, text)
  PROVE  \E t : Moves(s, t)
<1> DEFINE r == tx[s]
<1>1. r \in Tx
  BY Request
<1>2. ASSUME NEW t \in Tx, r.pc = "tools", tx' = [tx EXCEPT ![s] = t],
             t.pc \in {"tools", "loop", "ground", "save"}, t.op = r.op, t.id = r.id,
             t.pc = "save" => t.answer = {Words}, UNCHANGED memory
      PROVE  Moves(s, t)
  <2>1. /\ r.pc \in Holding /\ t.pc \in Holding
        /\ t.pc = "save" => Figures(t.answer) \subseteq t.evidence
    BY <1>2, AnswerFacts DEF Holding
  <2>2. UNCHANGED <<taken, window, circuit>>
    BY <1>2 DEF memory
  <2> QED
    BY <1>2, <2>1, <2>2, GoesOn
<1>3. ASSUME NEW ok \in BOOLEAN, NEW figures \in SUBSET Figure, ExecuteTool(s, ok, figures)
      PROVE  \E t : Moves(s, t)
  <2> DEFINE failed == [r EXCEPT !.todo = @ - 1, !.tools = @ + 1]
             done == [r EXCEPT !.todo = @ - 1, !.tools = @ + 1, !.round = TRUE,
                               !.recorded = TRUE, !.evidence = @ \cup figures,
                               !.bare = @ \/ figures = {}]
             t == IF ~ok THEN failed ELSE done
  <2>1. r.todo - 1 \in 0..MaxRequests /\ r.tools + 1 \in 0..AiMaxToolCalls
    <3>1. r.todo \in 0..MaxRequests /\ r.tools \in 0..AiMaxToolCalls
      BY <1>1 DEF Tx
    <3>2. r.todo > 0 /\ r.tools < AiMaxToolCalls
      BY <1>3 DEF ExecuteTool
    <3> QED
      BY <3>1, <3>2, Bounds
  <2>2. failed \in Tx /\ failed.pc = r.pc /\ failed.op = r.op /\ failed.id = r.id
    BY <1>1, <2>1 DEF Tx
  <2>3. done \in Tx /\ done.pc = r.pc /\ done.op = r.op /\ done.id = r.id
    BY <1>1, <2>1 DEF Tx
  <2>4. r.pc = "tools" /\ tx' = [tx EXCEPT ![s] = t] /\ UNCHANGED memory
    BY <1>3 DEF ExecuteTool
  <2>5. t \in Tx /\ t.pc = r.pc /\ t.op = r.op /\ t.id = r.id
    BY <2>2, <2>3
  <2> HIDE DEF t
  <2>6. Moves(s, t)
    BY <1>2, <2>4, <2>5
  <2> QED
    BY <2>6
<1>4. ASSUME NEW text \in Answer, EndRound(s, text)
      PROVE  \E t : Moves(s, t)
  <2> DEFINE back == [r EXCEPT !.pc = "loop"]
             final == [r EXCEPT !.pc = "ground", !.answer = text]
             t == IF r.tools = AiMaxToolCalls THEN Limited(r)
                  ELSE IF r.round THEN back ELSE final
  <2>1. /\ Limited(r) \in Tx /\ Limited(r).pc = "save" /\ Limited(r).op = r.op
        /\ Limited(r).id = r.id /\ Limited(r).answer = {Words}
    BY <1>1, AnswerFacts DEF Limited, Tx, Holding, AiRunStatus
  <2>2. /\ back \in Tx /\ back.pc = "loop" /\ back.op = r.op /\ back.id = r.id
        /\ final \in Tx /\ final.pc = "ground" /\ final.op = r.op /\ final.id = r.id
    BY <1>1 DEF Tx, Holding
  <2>3. r.pc = "tools" /\ tx' = [tx EXCEPT ![s] = t] /\ UNCHANGED memory
    BY <1>4 DEF EndRound
  <2> HIDE DEF back, final
  <2>4. /\ t \in Tx /\ t.pc \in {"tools", "loop", "ground", "save"} /\ t.op = r.op
        /\ t.id = r.id
        /\ t.pc = "save" => t.answer = {Words}
    BY <2>1, <2>2
  <2> HIDE DEF t
  <2>5. Moves(s, t)
    BY <1>2, <2>3, <2>4
  <2> QED
    BY <2>5
<1> QED
  BY <1>3, <1>4

(* Answers are compared with the evidence; those that fail twice are       *)
(* replaced by words.                                                      *)
LEMMA GroundMoves ==
  ASSUME IInv, NEW s \in Slot, GroundAnswer(s) \/ NoCorrection(s)
  PROVE  \E t : Moves(s, t)
<1> DEFINE r == tx[s]
<1>1. r \in Tx
  BY Request
<1>2. ASSUME NEW t \in Tx, r.pc \in {"ground", "correct"}, tx' = [tx EXCEPT ![s] = t],
             t.pc \in {"correct", "save"}, t.op = r.op, t.id = r.id,
             t.pc = "save" /\ t.recorded => Figures(t.answer) \subseteq t.evidence,
             UNCHANGED memory
      PROVE  Moves(s, t)
  <2>1. r.pc \in Holding /\ t.pc \in Holding
    BY <1>2 DEF Holding
  <2>2. UNCHANGED <<taken, window, circuit>>
    BY <1>2 DEF memory
  <2> QED
    BY <1>2, <2>1, <2>2, GoesOn
<1>3. CASE GroundAnswer(s)
  <2> DEFINE answer == IF r.answer = {} /\ r.recorded THEN {Words} \cup r.evidence
                                                      ELSE r.answer
             bare == [r EXCEPT !.pc = "save", !.answer = {Words}]
             saved == [r EXCEPT !.pc = "save", !.answer = answer]
             again == [r EXCEPT !.pc = "correct", !.answer = answer]
             t == IF r.recorded /\ r.bare THEN bare
                  ELSE IF ~r.recorded \/ verify_answer_grounding(answer, r.evidence)
                  THEN saved ELSE again
  <2>1. answer \in Answer
    BY <1>1, AnswerFacts DEF Tx
  <2> HIDE DEF answer
  <2>2. /\ bare \in Tx /\ bare.pc = "save" /\ bare.op = r.op /\ bare.id = r.id
        /\ bare.answer = {Words}
    BY <1>1, AnswerFacts DEF Tx, Holding
  <2>3. /\ saved \in Tx /\ saved.pc = "save" /\ saved.op = r.op /\ saved.id = r.id
        /\ saved.answer = answer /\ saved.recorded = r.recorded
        /\ saved.evidence = r.evidence
        /\ again \in Tx /\ again.pc = "correct" /\ again.op = r.op /\ again.id = r.id
    BY <1>1, <2>1 DEF Tx, Holding
  <2>4. r.pc = "ground" /\ tx' = [tx EXCEPT ![s] = t] /\ UNCHANGED memory
    BY <1>3 DEF GroundAnswer, answer
  <2> HIDE DEF bare, saved, again
  <2>5. /\ t \in Tx /\ t.pc \in {"correct", "save"} /\ t.op = r.op /\ t.id = r.id
        /\ t.pc = "save" /\ t.recorded => Figures(t.answer) \subseteq t.evidence
    BY <2>2, <2>3, AnswerFacts DEF verify_answer_grounding
  <2> HIDE DEF t
  <2>6. Moves(s, t)
    BY <1>2, <2>4, <2>5
  <2> QED
    BY <2>6
<1>4. CASE NoCorrection(s)
  <2>1. /\ Ungrounded(r) \in Tx /\ Ungrounded(r).pc = "save"
        /\ Ungrounded(r).op = r.op /\ Ungrounded(r).id = r.id
        /\ Ungrounded(r).answer = {Words}
    BY <1>1, AnswerFacts DEF Ungrounded, Tx, Holding, AiRunStatus
  <2>2. Moves(s, Ungrounded(r))
    BY <1>2, <1>4, <2>1, AnswerFacts DEF NoCorrection
  <2> QED
    BY <2>2
<1> QED
  BY <1>3, <1>4

(* The save gives the slot back and keeps the answer.                      *)
LEMMA SaveMoves ==
  ASSUME IInv, NEW s \in Slot, SaveQuestion(s)
  PROVE  \E t : Moves(s, t)
<1> DEFINE r == tx[s]
           gone == conversations[r.id].status = "deleted"
           t == [r EXCEPT !.pc = "commit", !.tools = 0, !.todo = 0, !.round = FALSE,
                          !.undelete = gone]
<1>1. r \in Tx /\ r.pc = "save" /\ RequestShape(r) /\ (Sequential => FreshRequest(r))
  BY Request DEF SaveQuestion
<1>2. /\ t \in Tx /\ t.pc = "commit" /\ t.op = r.op /\ t.id = r.id
      /\ t.recorded = r.recorded /\ t.answer = r.answer /\ t.evidence = r.evidence
      /\ t.undelete = gone
  <2>1. 0 \in 0..AiMaxToolCalls /\ 0 \in 0..MaxRequests /\ gone \in BOOLEAN
    BY Bounds
  <2> HIDE DEF gone
  <2> QED
    BY <1>1, <2>1 DEF Tx
<1>3. tx' = [tx EXCEPT ![s] = t]
  BY <1>1 DEF SaveQuestion
<1> HIDE DEF t
<1>4. r.pc \in Opened /\ r.pc \in Holding /\ t.pc \notin Opened /\ t.pc \notin Holding
  BY <1>1, <1>2 DEF Holding, Opened
<1>5. RequestShape(t)
  BY <1>1, <1>2, <1>4 DEF RequestShape
<1>6. Sequential => FreshRequest(t)
  BY <1>1, <1>2, <1>4 DEF FreshRequest
<1>7. Moves(s, t)
  BY <1>1, <1>2, <1>3, <1>4, <1>5, <1>6, Request DEF Moves, CountsSlot, SaveQuestion, Release
<1> QED
  BY <1>7

(* Every step of a request is one of these.                                *)
LEMMA StepMoves ==
  ASSUME IInv, NEW s \in Slot, Start(s) \/ Continue(s)
  PROVE  \E t : Moves(s, t)
BY StartMoves, EndMoves, OpeningMoves, ProviderMoves, ToolMoves, GroundMoves, SaveMoves
   DEF Continue, Provider

-----------------------------------------------------------------------------
(* The invariant                                                           *)

LEMMA InitInv == Init => IInv
<1> SUFFICES ASSUME Init PROVE IInv
  OBVIOUS
<1> USE Bounds
<1>1. Idle \in Tx /\ Off \in Tx /\ Off.pc = "off" /\ Off.op = None
  <2>1. \A t \in Tx : [t EXCEPT !.pc = "off"] \in Tx
    BY DEF Tx
  <2>2. Off.pc = "off" /\ Off.op = None
    BY DEF Off, Idle
  <2> QED
    BY <2>1, <2>2, IdleFacts DEF Off
<1>2. \A s \in Slot : tx[s] \in {Idle, Off}
  BY DEF Init
<1>3. TypeOK
  BY <1>1 DEF Init, TypeOK, ConversationRow, NoConversation, Circuit, CircuitState, Closed
<1>4. \A s \in Slot : /\ tx[s].pc \in {"off", "idle"} /\ tx[s].op = None
                     /\ tx[s].pc \notin Holding
  BY <1>1, <1>2 DEF Idle, Holding
<1>5. \A s \in Slot : RequestShape(tx[s]) /\ FreshRequest(tx[s])
  BY <1>4, CopilotAssumption DEF RequestShape, FreshRequest, Holding
<1>6. Asking = {}
  BY <1>4 DEF Asking
<1>7. SlotsCounted
  BY <1>6, FS_EmptySet DEF Init, SlotsCounted
<1>8. CircuitFollowsFailures
  BY DEF Init, Closed, CircuitFollowsFailures
<1> QED
  BY <1>3, <1>5, <1>7, <1>8 DEF IInv

(* Only the end of a request writes conversations.                         *)
LEMMA RequestWrites ==
  ASSUME IInv, NEW s \in Slot, Start(s) \/ Continue(s)
  PROVE  /\ conversations' \in [Conversation -> ConversationRow]
         /\ UNCHANGED conversations \/ tx' = [tx EXCEPT ![s] = Idle]
<1>1. CASE CommitQuestion(s)
  <2>1. /\ Fresh \in ConversationRow
        /\ \A row \in ConversationRow : [row EXCEPT !.expired = FALSE] \in ConversationRow
    BY DEF Fresh, ConversationRow
  <2> QED
    BY <1>1, <2>1, Request DEF CommitQuestion
<1>2. CASE CommitDelete(s)
  <2>1. [status |-> "deleted", expired |-> FALSE] \in ConversationRow
    BY DEF ConversationRow
  <2> QED
    BY <1>2, <2>1, Request DEF CommitDelete
<1>3. CASE ~CommitQuestion(s) /\ ~CommitDelete(s)
  <2>1. UNCHANGED conversations
    BY <1>3 DEF Start, Continue, Provider, Ask, Delete, Purge, AcquireSlot, SlotRefused,
                OpenConversation, NotFoundOrInvalid, Scope, TimeIsUp, CallProvider,
                CircuitOpen, ProviderFails, ProviderAnswers, Correction, ProviderRequests,
                ExecuteTool, EndRound, GroundAnswer, NoCorrection, SaveQuestion, Fail
  <2> QED
    BY <2>1, Request
<1> QED
  BY <1>1, <1>2, <1>3

LEMMA RequestInv ==
  ASSUME IInv, NEW s \in Slot, Start(s) \/ Continue(s)
  PROVE  IInv'
<1>1. PICK t : Moves(s, t)
  BY StepMoves
<1>2. /\ tx' \in [Slot -> Tx] /\ tx'[s] = t
      /\ \A s2 \in Slot \ {s} : tx'[s2] = tx[s2]
  BY <1>1 DEF Moves, IInv, TypeOK
<1>3. SlotsCounted' /\ taken' \in Nat
  BY <1>1, SlotStep DEF Moves, IInv
<1>4. circuit' \in Circuit /\ CircuitFollowsFailures'
  BY <1>1, CircuitStep DEF Moves, IInv, TypeOK
<1>5. TypeOK'
  BY <1>1, <1>2, <1>3, <1>4, RequestWrites DEF Moves, TypeOK
<1>6. \A s2 \in Slot : RequestShape(tx'[s2])
  BY <1>1, <1>2 DEF Moves, IInv
<1>7. ASSUME Sequential', NEW s2 \in Slot PROVE FreshRequest(tx[s2])'
  <2>1. Sequential /\ \A s3 \in Slot \ {s} : tx[s3].pc = "off"
    BY <1>1, <1>2, <1>7 DEF Moves, Sequential
  <2>2. CASE s2 # s
    BY <1>2, <2>1, <2>2, Request, CopilotAssumption DEF RequestShape, FreshRequest
  <2>3. CASE s2 = s
    <3>1. CASE UNCHANGED conversations
      BY <1>1, <1>2, <2>1, <2>3, <3>1 DEF Moves, FreshRequest
    <3>2. CASE tx' = [tx EXCEPT ![s] = Idle]
      <4>1. tx'[s] = Idle
        BY <3>2 DEF IInv, TypeOK
      <4> QED
        BY <2>3, <4>1, CopilotAssumption DEF FreshRequest, Idle
    <3> QED
      BY <3>1, <3>2, RequestWrites
  <2> QED
    BY <2>2, <2>3
<1>8. \A s2 \in Slot : RequestShape(tx[s2])'
  BY <1>6 DEF RequestShape
<1> QED
  BY <1>3, <1>4, <1>5, <1>7, <1>8 DEF IInv

(* Time and the questions of others leave requests and slots alone, and    *)
(* delete no conversation.                                                 *)
LEMMA TimeInv ==
  ASSUME IInv, Time
  PROVE  IInv'
<1>1. /\ conversations' \in [Conversation -> ConversationRow]
      /\ \A c \in Conversation : conversations[c].status = "live"
                                 => conversations'[c].status = "live"
  <2>1. /\ Fresh \in ConversationRow /\ Fresh.status = "live"
        /\ \A row \in ConversationRow : [row EXCEPT !.expired = TRUE] \in ConversationRow
        /\ \A row \in ConversationRow : [row EXCEPT !.expired = TRUE].status = row.status
    BY DEF Fresh, ConversationRow
  <2>2. CASE \E c \in Conversation : Create(c)
    BY <2>1, <2>2 DEF Create, IInv, TypeOK
  <2>3. CASE \E c \in Conversation : Expire(c)
    BY <2>1, <2>3 DEF Expire, IInv, TypeOK
  <2>4. CASE Forget \/ CoolDown \/ OthersCall
    BY <2>4 DEF Forget, CoolDown, OthersCall, IInv, TypeOK
  <2> QED
    BY <2>2, <2>3, <2>4 DEF Time
<1>2. UNCHANGED <<taken, tx>> /\ window' \in 0..AiPerMinute
  BY Bounds DEF Time, Forget, CoolDown, OthersCall, Create, Expire, memory, IInv, TypeOK
<1>3. circuit' \in Circuit /\ CircuitFollowsFailures'
  <2>1. CASE CoolDown
    BY <2>1 DEF CoolDown, IInv, TypeOK, Circuit, CircuitFollowsFailures
  <2>2. CASE ~CoolDown
    BY <2>2, CircuitStep DEF Time, Forget, OthersCall, Create, Expire, memory, IInv, TypeOK
  <2> QED
    BY <2>1, <2>2
<1>4. TypeOK' /\ SlotsCounted'
  BY <1>1, <1>2, <1>3 DEF IInv, TypeOK, SlotsCounted, Asking
<1>5. ASSUME NEW s \in Slot
      PROVE  RequestShape(tx[s])' /\ (Sequential' => FreshRequest(tx[s])')
  <2>1. RequestShape(tx[s])'
    BY <1>2, Request DEF RequestShape
  <2>2. Sequential' <=> Sequential
    BY <1>2 DEF Sequential
  <2>3. tx[s].op = "ask" /\ tx[s].pc \in Opened => tx[s].id \in Conversation
    BY Request DEF RequestShape, Opened, Holding
  <2>4. Sequential' => FreshRequest(tx[s])'
    BY <1>1, <1>2, <2>2, <2>3, Request DEF FreshRequest
  <2> QED
    BY <2>1, <2>4
<1> QED
  BY <1>3, <1>4, <1>5 DEF IInv

LEMMA StepInv == IInv /\ [Next]_vars => IInv'
<1>1. ASSUME IInv, UNCHANGED vars PROVE IInv'
  BY <1>1 DEF vars, IInv, TypeOK, RequestShape, SlotsCounted, Asking,
              CircuitFollowsFailures, Sequential, FreshRequest
<1> QED
  BY <1>1, RequestInv, TimeInv DEF Next

(* The invariant holds of every state, for any provider.                   *)
THEOREM Invariance == Spec => []IInv
BY InitInv, StepInv, PTL DEF Spec

(* Rows, limits and requests keep their shape.                             *)
THEOREM TypeCorrect == Spec => []TypeOK
<1>1. IInv => TypeOK
  BY DEF IInv
<1> QED
  BY <1>1, Invariance, PTL

(* The limiter never lets more questions of a user run than it is set to,  *)
(* for any number of threads and whatever failed before                    *)
(* (ConcurrencyLimiter).                                                   *)
THEOREM LimitKept == Spec => []AsksWithinLimit
<1>1. IInv => AsksWithinLimit
  <2> SUFFICES ASSUME IInv PROVE AsksWithinLimit
    OBVIOUS
  <2>1. Cardinality(Asking) \in Nat
    BY FS_CardinalityType DEF IInv, SlotsCounted
  <2> QED
    BY <2>1, Bounds DEF IInv, TypeOK, SlotsCounted, AsksWithinLimit
<1> QED
  BY <1>1, Invariance, PTL

(* No sequence of rounds, tool results, empty answers and corrections ends *)
(* in a figure that no tool gave, once a tool gave any (_ground_answer).   *)
THEOREM GroundedAnswers == Spec => []AnswersGrounded
<1>1. IInv => AnswersGrounded
  BY DEF IInv, RequestShape, AnswersGrounded
<1> QED
  BY <1>1, Invariance, PTL

(* The breaker is closed exactly below its threshold of failures, however  *)
(* the calls of all users overlap (CircuitBreaker).                        *)
THEOREM CircuitCounts == Spec => []CircuitFollowsFailures
<1>1. IInv => CircuitFollowsFailures
  BY DEF IInv
<1> QED
  BY <1>1, Invariance, PTL

(* A deleted conversation returns only by a question that had opened it    *)
(* before the deletion (soft_delete, repo.save).                           *)
THEOREM DeletionsStay == Spec => ReturnsOnlyByStaleQuestion
<1> DEFINE Returns ==
      \A c \in Conversation :
        conversations[c].status = "deleted" /\ conversations'[c].status = "live"
        => /\ ~Sequential
           /\ \E s \in Slot : tx[s].op = "ask" /\ tx[s].id = c
                              /\ tx[s].pc = "commit" /\ tx[s].undelete
<1>1. ASSUME IInv, [Next]_vars, NEW c \in Conversation,
             conversations[c].status = "deleted", conversations'[c].status = "live"
      PROVE  /\ ~Sequential
             /\ \E s \in Slot : tx[s].op = "ask" /\ tx[s].id = c
                                /\ tx[s].pc = "commit" /\ tx[s].undelete
  <2>1. conversations[c] \in ConversationRow
    BY <1>1 DEF IInv, TypeOK
  <2>2. ~Time
    BY <1>1, <2>1 DEF Time, Forget, CoolDown, OthersCall, Create, Expire, NoConversation,
                      ConversationRow, IInv, TypeOK
  <2>3. PICK s \in Slot : Start(s) \/ Continue(s)
    BY <1>1, <2>2 DEF Next, vars
  <2>4. ~CommitDelete(s)
    BY <1>1 DEF CommitDelete, IInv, TypeOK
  <2>5. CommitQuestion(s)
    BY <1>1, <2>3, <2>4
       DEF Start, Continue, Provider, Ask, Delete, Purge, AcquireSlot, SlotRefused,
           OpenConversation, NotFoundOrInvalid, Scope, TimeIsUp, CallProvider,
           CircuitOpen, ProviderFails, ProviderAnswers, Correction, ProviderRequests,
           ExecuteTool, EndRound, GroundAnswer, NoCorrection, SaveQuestion, Fail
  <2>6. tx[s].op = "ask" /\ tx[s].pc = "commit" /\ tx[s].id = c /\ tx[s].undelete
    BY <1>1, <2>1, <2>5 DEF CommitQuestion, ConversationRow, IInv, TypeOK
  <2>7. ~Sequential
    BY <1>1, <2>6, Request DEF FreshRequest
  <2> QED
    BY <2>6, <2>7
<1>2. IInv /\ [Next]_vars => Returns
  BY <1>1
<1> HIDE DEF Returns
<1>3. Spec => [][Returns]_vars
  BY <1>2, Invariance, PTL DEF Spec
<1> QED
  BY <1>3, PTL DEF Returns, ReturnsOnlyByStaleQuestion
=============================================================================

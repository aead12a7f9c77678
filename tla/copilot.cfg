SPECIFICATION Spec
CONSTANTS
  None = None
  Words = Words
  Conversation = {c1}
  Slot = {s1, s2}
  Figure = {f1, f2}
  AiMaxToolCalls = 2
  AiMaxConcurrent = 1
  AiPerMinute = 2
  FailureThreshold = 2
  MaxRequests = 2
INVARIANTS AsksWithinLimit AnswersGrounded CircuitFollowsFailures
PROPERTIES ReturnsOnlyByStaleQuestion QuestionsEnd

SPECIFICATION Spec
CONSTANTS
  Events <- MCEvents
  MaxEvents = 3
INVARIANTS
  AnswerIsReported
PROPERTIES
  AnswerEndsIt

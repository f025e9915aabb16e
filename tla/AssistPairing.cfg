SPECIFICATION AssistSpec
CONSTANT MaxTries = 3
INVARIANTS
  PairWhenReady
  AgentScoped
  SuccessIsBonded
PROPERTIES
  AssistEnds

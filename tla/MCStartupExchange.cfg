SPECIFICATION Spec
CONSTANTS
  Payloads <- MCPayloads
  WriteAddresses <- MCWriteAddresses
  RpcAddresses <- MCRpcAddresses
  Items <- MCItems
  MaxItems = 2
  Cuts = TRUE
CHECK_DEADLOCK FALSE
INVARIANTS
  AnswersMatch
  CommandsMatch

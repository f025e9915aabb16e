SPECIFICATION Spec
CONSTANT MaxAttempts = 3
INVARIANTS
  PairingRetained
  ConnectWhenReady
  TargetFresh
  BodySecured
PROPERTY FlowEnds

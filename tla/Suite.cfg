SPECIFICATION Spec
CONSTANTS
  Targets <- Compared
  Scenarios <- Ids
  Pin <- PinOf
  Unmet <- Unanswerable
  Repeat = 2
  Cap = 4
  UnitCaps <- Modes
  Debts = {0, 1}
  ModelMaps <- MCModelMaps
  PinLines <- MCLines
  EndpointMaps <- MCEndpointMaps
  ReadableSets <- MCReadable
INVARIANTS GateRefusesWhatFails SweepWithinCap SkipsAreExplained
CHECK_DEADLOCK FALSE

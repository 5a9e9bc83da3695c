SPECIFICATION JudgedSpec
CONSTANTS
  MaxIterations = 2
  RecoveryAttempts = 1
  ReworkAttempts = 1
  Graphs <- Pipeline
  Outcomes <- PhaseOutcomes
  Agreed <- BuildAgrees
  Undone <- UndoneOutputs
  Armed = TRUE
  Requires <- PipelineRequires
  Careless = {}
  Dissents <- SomeDissents
  Panels <- SomePanels
  Role = {lead, tester, architect}
  Domain = {d1, d2}
INVARIANTS ReviewedByAnother ToldWhy RevisionHasGround NoObjectionDelivered PhasesAreExact

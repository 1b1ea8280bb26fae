\* Clients of a router in front of an npu-server with one permit.
CONSTANTS
  Requests = {"c1", "c2", "c3"}
  MaxConcurrent = 1
  Characters <- MCCharacters
  MaxMatch = 2
  IdCount = 256
  MaxPrompt = 4
  MaxTokens = 1
  Files <- MCFiles
  Bodies <- MCBodies
  Prints <- MCPrints
  Order <- MCOrder
  Npu = "npu"
  Kinds <- MCKinds
SPECIFICATION FairSpec
CHECK_DEADLOCK FALSE
INVARIANTS
  TypeOK
  PermitsConserved
  WaitersInQueue
  EnginesBounded
  KnownTextSurvives
  ShutdownCutsNothing
  ModelsComplete
PROPERTIES
  AnswerContinuesPrompt
  DrainEnds
  WaitingEnds

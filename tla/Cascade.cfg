\* Events whole or cut anywhere, confident and uncertain tokens, KV handoff,
\* under fairness.
CONSTANTS
  LogProbs <- MCLogProbs
  Threshold <- MCThreshold
  Window = 2
  Capacity = 1
  Networks <- MCNetworks
  MaxGpuEvents = 2
  KvIds = TRUE
  CallsPanic = TRUE
SPECIFICATION FairSpec
CHECK_DEADLOCK FALSE
INVARIANTS
  TypeOK
  SwitchesAtFirstLow
  HandoffContextComplete
  AlignedDataDelivered
  AlignedDataOnce
  StreamInOrder
PROPERTIES
  KeepsClientPromise
  SessionEnds

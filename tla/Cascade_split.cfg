\* Half an event to a chunk.
CONSTANTS
  LogProbs <- MCLow
  Threshold <- MCThreshold
  Window = 3
  Capacity = 2
  Networks <- MCHalves
  MaxGpuEvents = 1
  KvIds = FALSE
  CallsPanic = TRUE
SPECIFICATION Spec
CHECK_DEADLOCK FALSE
INVARIANTS
  NpuDataDelivered

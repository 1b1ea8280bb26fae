\* One event to a chunk.
CONSTANTS
  LogProbs <- MCLow
  Threshold <- MCThreshold
  Window = 2
  Capacity = 2
  Networks <- MCOneEvent
  MaxGpuEvents = 1
  KvIds = FALSE
  CallsPanic = TRUE
SPECIFICATION Spec
CHECK_DEADLOCK FALSE
INVARIANTS
  SeamlessHandoff

\* A single user of the permits.
CONSTANTS
  b1 = b1
  b2 = b2
  k1 = k1
  a1 = a1
  Backends = {b1}
  NumShards = 1
  ShardOf <- MCShardOf
  MaxConcurrent = 1
  Workers = 2
  Status = {}
  Callers = {}
  Askers = {a1}
  Checker = k1
  MaxSamples = 1
SPECIFICATION PFairSpec
CHECK_DEADLOCK FALSE
PROPERTIES
  TryAnswers

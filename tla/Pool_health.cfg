\* Two backends in shards of their own, whose health checks end one after the
\* other, a caller, and a status request that passes through both shards.  How
\* many samples a latency averages does not matter here: none is counted.
CONSTANTS
  b1 = b1
  b2 = b2
  s1 = s1
  c1 = c1
  k1 = k1
  Backends = {b1, b2}
  NumShards = 2
  ShardOf <- MCTwoShards
  MaxConcurrent = 1
  Workers = 2
  Status = {s1}
  Callers = {c1}
  Askers = {}
  Checker = k1
  MaxSamples = 0
SPECIFICATION FairSpec
CHECK_DEADLOCK FALSE
PROPERTIES
  ServerProgress
  HealthConverges

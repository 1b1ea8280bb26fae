\* Two status requests, a caller and the health check loop.
CONSTANTS
  b1 = b1
  b2 = b2
  s1 = s1
  s2 = s2
  c1 = c1
  k1 = k1
  Backends = {b1}
  NumShards = 2
  ShardOf <- MCShardOf
  MaxConcurrent = 1
  Workers = 3
  Status = {s1, s2}
  Callers = {c1}
  Askers = {}
  Checker = k1
  MaxSamples = 1
SPECIFICATION FairSpec
CHECK_DEADLOCK FALSE
INVARIANTS
  TypeOK
  StatusIsFresh
PROPERTIES
  LatencyGoesForward
  ServerProgress

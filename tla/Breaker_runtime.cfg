\* Two callers on the runtime's own threads.
CONSTANTS
  r1 = r1
  r2 = r2
  Requests = {r1, r2}
  Polls = {}
  FailureThreshold = 2
  Cooldown = 1
  MaxAge = 1
  OnRuntime = {r1, r2}
SPECIFICATION HFairSpec
PROPERTIES
  OpensAfterThreshold

\* Two callers off the runtime, a poll on it.
CONSTANTS
  r1 = r1
  r2 = r2
  p1 = p1
  Requests = {r1, r2}
  Polls = {p1}
  FailureThreshold = 2
  Cooldown = 1
  MaxAge = 2
  OnRuntime = {p1}
SPECIFICATION HFairSpec
INVARIANTS
  TypeOK
  OpenHasFailureTime
  NoSpuriousOpen
PROPERTIES
  NeverWedged
  OpensAfterThreshold
  Recovers

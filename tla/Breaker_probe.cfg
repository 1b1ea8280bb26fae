\* Two callers against a half-open circuit.
CONSTANTS
  r1 = r1
  r2 = r2
  Requests = {r1, r2}
  Polls = {}
  FailureThreshold = 2
  Cooldown = 1
  MaxAge = 1
  OnRuntime = {}
SPECIFICATION HSpec
INVARIANTS
  SingleProbe

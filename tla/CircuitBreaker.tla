--------------------------- MODULE CircuitBreaker ---------------------------
(***************************************************************************)
(* The circuit breaker every BackendClient wraps its calls in              *)
(* (src/backend/client.rs, CircuitBreaker and request_with_circuit), as it *)
(* is run by the tasks of a multi-threaded server: each atomic load, store *)
(* and lock acquisition is a step of its own, so that two requests, or a   *)
(* request and a status poll, interleave between any two of them.          *)
(*                                                                         *)
(* A task is a slot: it serves one request (or poll) and then the next.    *)
(* Times are ages: how long ago the instant lies, saturating at MaxAge, as *)
(* the code only ever compares an age with the cooldown.  The failure      *)
(* counter saturates at the threshold for the same reason.                 *)
(***************************************************************************)
EXTENDS Naturals

CONSTANTS
  Requests,          \* tasks that send requests to the backend
  Polls,             \* tasks that only ask is_available()
  FailureThreshold,  \* failure_threshold
  Cooldown,          \* cooldown_secs, in ticks of the clock
  MaxAge,            \* ages are not told apart beyond this one
  OnRuntime          \* the tasks that run on a Tokio runtime's own threads

ASSUME BreakerAssumption ==
  /\ Requests \cap Polls = {}
  /\ FailureThreshold \in Nat \ {0}
  /\ Cooldown \in Nat
  /\ MaxAge \in Nat
  /\ MaxAge >= Cooldown
  /\ OnRuntime \subseteq Requests \cup Polls

VARIABLES
  consecutive_failures,  \* AtomicU64, saturating at FailureThreshold
  last_failure_time,     \* age of the recorded instant, or NoTime
  is_open,               \* AtomicBool
  pc,                    \* where each task is
  tally,                 \* what the task's fetch_add returned, plus one
  stamp                  \* age of the instant the task read, not yet stored

vars == <<consecutive_failures, last_failure_time, is_open, pc, tally, stamp>>

Tasks == Requests \cup Polls
NoTime == MaxAge + 1
Ages == 0 .. MaxAge
Counts == 0 .. FailureThreshold

(***************************************************************************)
(* Places a task can be at between two steps:                              *)
(*   idle      no request in the slot                                      *)
(*   cooling   allow_request saw the circuit open                          *)
(*   probing   allow_request found the cooldown over, is_open not stored   *)
(*   calling   awaiting the backend's answer                               *)
(*   closing   record_success reset the counter, is_open not yet stored    *)
(*   counted   record_failure counted the failure                          *)
(*   stamped   ... and read the clock, about to take the write lock        *)
(*   opening   ... and stored the instant, about to store is_open          *)
(*   panicked  the blocking lock panicked, the task is being torn down     *)
(***************************************************************************)
Places == {"idle", "cooling", "probing", "calling", "closing",
           "counted", "stamped", "opening", "panicked"}

Count(n) == IF n < FailureThreshold THEN n + 1 ELSE n
Older(a) == IF a < MaxAge THEN a + 1 ELSE a

Goto(t, from, to) ==
  /\ pc[t] = from
  /\ pc' = [pc EXCEPT ![t] = to]

Init ==
  /\ consecutive_failures = 0
  /\ last_failure_time = NoTime
  /\ is_open = FALSE
  /\ pc = [t \in Tasks |-> "idle"]
  /\ tally = [t \in Tasks |-> 0]
  /\ stamp = [t \in Tasks |-> 0]

-----------------------------------------------------------------------------
(* allow_request                                                           *)

(* The task finds the circuit closed; a poll that does changes nothing.    *)
AdmitClosed(t) ==
  /\ t \in Requests
  /\ ~is_open
  /\ Goto(t, "idle", "calling")
  /\ UNCHANGED <<consecutive_failures, last_failure_time, is_open, tally, stamp>>

(* The task finds the circuit open and goes on to look at the cooldown.    *)
SeeOpen(t) ==
  /\ is_open
  /\ Goto(t, "idle", "cooling")
  /\ UNCHANGED <<consecutive_failures, last_failure_time, is_open, tally, stamp>>

CooldownElapsed ==
  last_failure_time # NoTime /\ last_failure_time >= Cooldown

(* blocking_read of last_failure_time: too early, or never, is a refusal.  *)
CheckCooldown(t) ==
  /\ t \notin OnRuntime
  /\ Goto(t, "cooling", IF CooldownElapsed THEN "probing" ELSE "idle")
  /\ UNCHANGED <<consecutive_failures, last_failure_time, is_open, tally, stamp>>

(* Mutant of HalfOpen: the store is forgotten.                             *)
HalfOpenForgotten(t) ==
  /\ Goto(t, "probing", IF t \in Requests THEN "calling" ELSE "idle")
  /\ UNCHANGED <<consecutive_failures, last_failure_time, is_open, tally, stamp>>

(* The half-open store; a poll stops here, a request goes on to its call.  *)
HalfOpen(t) ==
  /\ Goto(t, "probing", IF t \in Requests THEN "calling" ELSE "idle")
  /\ is_open' = FALSE
  /\ UNCHANGED <<consecutive_failures, last_failure_time, tally, stamp>>

-----------------------------------------------------------------------------
(* request_with_circuit after the await                                    *)

(* Mutants of AnswerOk: a success takes one failure back, where there may  *)
(* be none; it does not reset the counter.                                 *)
AnswerOkTakesBack(t) ==
  /\ Goto(t, "calling", "closing")
  /\ consecutive_failures' = consecutive_failures - 1
  /\ UNCHANGED <<last_failure_time, is_open, tally, stamp>>
AnswerOkKeepsCount(t) ==
  /\ Goto(t, "calling", "closing")
  /\ UNCHANGED <<consecutive_failures, last_failure_time, is_open, tally, stamp>>

(* The call succeeded: record_success resets the counter first ...         *)
AnswerOk(t) ==
  /\ Goto(t, "calling", "closing")
  /\ consecutive_failures' = 0
  /\ UNCHANGED <<last_failure_time, is_open, tally, stamp>>

(* ... and closes the circuit next, whatever happened in between.          *)
Close(t) ==
  /\ Goto(t, "closing", "idle")
  /\ is_open' = FALSE
  /\ UNCHANGED <<consecutive_failures, last_failure_time, tally, stamp>>

(* Mutant of AnswerErr: the circuit opens before the instant is stored.    *)
AnswerErrOpensFirst(t) ==
  /\ Goto(t, "calling", IF Count(consecutive_failures) >= FailureThreshold
                        THEN "opening" ELSE "counted")
  /\ consecutive_failures' = Count(consecutive_failures)
  /\ tally' = [tally EXCEPT ![t] = Count(consecutive_failures)]
  /\ UNCHANGED <<last_failure_time, is_open, stamp>>

(* The call failed or timed out: record_failure counts it ...              *)
AnswerErr(t) ==
  /\ Goto(t, "calling", "counted")
  /\ consecutive_failures' = Count(consecutive_failures)
  /\ tally' = [tally EXCEPT ![t] = Count(consecutive_failures)]
  /\ UNCHANGED <<last_failure_time, is_open, stamp>>

(* ... reads the clock: the right-hand side is evaluated before the lock   *)
(* is taken, so the instant may be old by the time it is stored ...        *)
ReadClock(t) ==
  /\ Goto(t, "counted", "stamped")
  /\ stamp' = [stamp EXCEPT ![t] = 0]
  /\ UNCHANGED <<consecutive_failures, last_failure_time, is_open, tally>>

(* Mutants of StoreFailureTime: the threshold is off by one; the instant   *)
(* is not stored.                                                          *)
StoreOffByOne(t) ==
  /\ t \notin OnRuntime
  /\ Goto(t, "stamped", IF tally[t] > FailureThreshold THEN "opening" ELSE "idle")
  /\ last_failure_time' = stamp[t]
  /\ UNCHANGED <<consecutive_failures, is_open, tally, stamp>>
StoreLost(t) ==
  /\ t \notin OnRuntime
  /\ Goto(t, "stamped", IF tally[t] >= FailureThreshold THEN "opening" ELSE "idle")
  /\ UNCHANGED <<consecutive_failures, last_failure_time, is_open, tally, stamp>>

(* ... stores the instant under the write lock ...                         *)
StoreFailureTime(t) ==
  /\ t \notin OnRuntime
  /\ Goto(t, "stamped", IF tally[t] >= FailureThreshold THEN "opening" ELSE "idle")
  /\ last_failure_time' = stamp[t]
  /\ UNCHANGED <<consecutive_failures, is_open, tally, stamp>>

(* ... and opens the circuit if its own count reached the threshold.       *)
Open(t) ==
  /\ Goto(t, "opening", "idle")
  /\ is_open' = TRUE
  /\ UNCHANGED <<consecutive_failures, last_failure_time, tally, stamp>>

(* The client went away: the future is dropped at its await, and neither   *)
(* record_success nor record_failure runs.                                 *)
Cancel(t) ==
  /\ Goto(t, "calling", "idle")
  /\ UNCHANGED <<consecutive_failures, last_failure_time, is_open, tally, stamp>>

-----------------------------------------------------------------------------
(* The world around the breaker                                            *)

(* tokio::sync::RwLock::blocking_read and blocking_write panic on a thread *)
(* that is driving a runtime.                                              *)
BlockingPanic(t) ==
  /\ t \in OnRuntime
  /\ pc[t] \in {"cooling", "stamped"}
  /\ pc' = [pc EXCEPT ![t] = "panicked"]
  /\ UNCHANGED <<consecutive_failures, last_failure_time, is_open, tally, stamp>>

(* The runtime catches the panic and drops the task; the slot is free.     *)
TearDown(t) ==
  /\ Goto(t, "panicked", "idle")
  /\ UNCHANGED <<consecutive_failures, last_failure_time, is_open, tally, stamp>>

(* The clock advances: every instant, stored or still in a task, ages.     *)
Tick ==
  /\ last_failure_time' = IF last_failure_time = NoTime THEN NoTime
                          ELSE Older(last_failure_time)
  /\ stamp' = [t \in Tasks |-> IF pc[t] = "stamped" THEN Older(stamp[t]) ELSE stamp[t]]
  /\ UNCHANGED <<consecutive_failures, is_open, pc, tally>>

(* What a task does by itself once it has begun.                           *)
Step(t) ==
  \/ CheckCooldown(t)
  \/ HalfOpen(t)
  \/ Close(t)
  \/ ReadClock(t)
  \/ StoreFailureTime(t)
  \/ Open(t)
  \/ BlockingPanic(t)
  \/ TearDown(t)

Arrive(t) == AdmitClosed(t) \/ SeeOpen(t)
Answer(t) == AnswerOk(t) \/ AnswerErr(t) \/ Cancel(t)

Next ==
  \/ Tick
  \/ \E t \in Tasks : Arrive(t) \/ Answer(t) \/ Step(t)

Spec == Init /\ [][Next]_vars

(***************************************************************************)
(* Threads run (Step), time passes (Tick), every call is answered within   *)
(* the 600 s timeout of the HTTP client (Answer), and traffic goes on      *)
(* (Arrive of the requests; polls need not come).                          *)
(***************************************************************************)
Fairness ==
  /\ WF_vars(Tick)
  /\ \A t \in Tasks : WF_vars(Step(t))
  /\ \A t \in Requests : WF_vars(Answer(t)) /\ WF_vars(Arrive(t))

FairSpec == Spec /\ Fairness

-----------------------------------------------------------------------------
(* Properties                                                              *)

(* Every variable has the type its declaration gives it.                   *)
TypeOK ==
  /\ consecutive_failures \in Counts
  /\ last_failure_time \in Ages \cup {NoTime}
  /\ is_open \in BOOLEAN
  /\ pc \in [Tasks -> Places]
  /\ tally \in [Tasks -> Counts]
  /\ stamp \in [Tasks -> Ages]

(* An open circuit has a failure time to measure its cooldown from:        *)
(* allow_request refuses for ever when it finds none (client.rs:52-59), so *)
(* record_failure must store the instant before it opens the circuit.      *)
OpenHasFailureTime == is_open => last_failure_time # NoTime

(* When all requests run on a runtime, as those of the server do, none     *)
(* ever finds the circuit open: record_failure panics on its lock          *)
(* (client.rs:71) before the store that opens it (client.rs:77).           *)
NeverOpensOnRuntime == Requests \subseteq OnRuntime => ~is_open

(* A circuit that is open lets a request through again at some time, as    *)
(* long as requests keep coming: late failures of calls begun before it    *)
(* opened may push the cooldown back, but not for ever.                    *)
NeverWedged == is_open ~> ~is_open

(* The failure that reaches the threshold does open the circuit            *)
(* (client.rs:6-7: "after N consecutive failures, the circuit opens").     *)
OpensAfterThreshold ==
  \A t \in Requests :
    (pc[t] = "counted" /\ tally[t] >= FailureThreshold) ~> is_open

(* Once the backend stops failing, the circuit is closed for good, even if *)
(* every client cancels and no success is ever recorded: no thread is left *)
(* behind that opens it again.                                             *)
Recovers ==
  <>[][\A t \in Requests : ~AnswerErr(t)]_vars => <>[]~is_open

=============================================================================

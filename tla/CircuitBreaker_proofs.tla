------------------------ MODULE CircuitBreaker_proofs ------------------------
(***************************************************************************)
(* What holds of the circuit breaker for every set of tasks, threshold and *)
(* cooldown: its types, that an open circuit has a time to cool down from, *)
(* that it never opens under a runtime, and, with the history variables of *)
(* BreakerHistory, that each opening has a full streak of failures behind. *)
(***************************************************************************)
EXTENDS BreakerHistory, TLAPS

(***************************************************************************)
(* Typing.  The ages and the counter stay in their ranges because Older    *)
(* and Count saturate.                                                     *)
(***************************************************************************)

(* Count and Older stay within the bounds their callers keep.              *)
LEMMA SaturatingCounters ==
  /\ \A n \in Counts : Count(n) \in Counts
  /\ \A a \in Ages : Older(a) \in Ages
BY BreakerAssumption DEF Counts, Ages, Count, Older

(* The initial values have their types.                                    *)
LEMMA TypeInit == Init => TypeOK
<1>1. 0 \in Counts /\ 0 \in Ages
  BY BreakerAssumption DEF Counts, Ages
<1> QED BY <1>1 DEF Init, TypeOK, Places

(* Every step keeps every variable in its type.                            *)
LEMMA TypeStep == TypeOK /\ [Next]_vars => TypeOK'
<1> SUFFICES ASSUME TypeOK, [Next]_vars PROVE TypeOK'
  OBVIOUS
<1> USE SaturatingCounters DEF TypeOK
<1>1. CASE UNCHANGED vars
  BY <1>1 DEF vars
<1>2. CASE Tick
  BY <1>2 DEF Tick
<1>3. ASSUME NEW t \in Tasks, Arrive(t) PROVE TypeOK'
  <2>1. CASE AdmitClosed(t)
    BY <2>1 DEF AdmitClosed, Goto, Places
  <2>2. CASE SeeOpen(t)
    BY <2>2 DEF SeeOpen, Goto, Places
  <2> QED BY <1>3, <2>1, <2>2 DEF Arrive
<1>4. ASSUME NEW t \in Tasks, Answer(t) PROVE TypeOK'
  <2>1. CASE AnswerOk(t)
    BY <2>1, BreakerAssumption DEF AnswerOk, Goto, Places, Counts
  <2>2. CASE AnswerErr(t)
    BY <2>2 DEF AnswerErr, Goto, Places
  <2>3. CASE Cancel(t)
    BY <2>3 DEF Cancel, Goto, Places
  <2> QED BY <1>4, <2>1, <2>2, <2>3 DEF Answer
<1>5. ASSUME NEW t \in Tasks, Step(t) PROVE TypeOK'
  <2>1. CASE CheckCooldown(t)
    BY <2>1 DEF CheckCooldown, Goto, Places
  <2>2. CASE HalfOpen(t)
    BY <2>2 DEF HalfOpen, Goto, Places
  <2>3. CASE Close(t)
    BY <2>3 DEF Close, Goto, Places
  <2>4. CASE ReadClock(t)
    BY <2>4, BreakerAssumption DEF ReadClock, Goto, Places, Ages
  <2>5. CASE StoreFailureTime(t)
    BY <2>5 DEF StoreFailureTime, Goto, Places
  <2>6. CASE Open(t)
    BY <2>6 DEF Open, Goto, Places
  <2>7. CASE BlockingPanic(t)
    BY <2>7 DEF BlockingPanic, Places
  <2>8. CASE TearDown(t)
    BY <2>8 DEF TearDown, Goto, Places
  <2> QED BY <1>5, <2>1, <2>2, <2>3, <2>4, <2>5, <2>6, <2>7, <2>8 DEF Step
<1> QED BY <1>1, <1>2, <1>3, <1>4, <1>5 DEF Next

(* Every variable of the breaker always has the type declared for it.      *)
THEOREM TypeCorrect == Spec => []TypeOK
BY TypeInit, TypeStep, PTL DEF Spec

-----------------------------------------------------------------------------
(***************************************************************************)
(* An open circuit has a failure time.  Inductive once the task that is    *)
(* about to open the circuit is known to have stored its instant.          *)
(***************************************************************************)
FailureTimeInv ==
  /\ OpenHasFailureTime
  /\ \A t \in Tasks : pc[t] = "opening" => last_failure_time # NoTime

(* No step opens the circuit, or goes to open it, without a stored time.   *)
LEMMA FailureTimeStep ==
  TypeOK /\ FailureTimeInv /\ [Next]_vars => FailureTimeInv'
<1> SUFFICES ASSUME TypeOK, FailureTimeInv, [Next]_vars PROVE FailureTimeInv'
  OBVIOUS
<1> USE DEF FailureTimeInv, OpenHasFailureTime, TypeOK
<1>age. \A a \in Ages : a # NoTime /\ Older(a) # NoTime
  BY BreakerAssumption DEF Ages, Older, NoTime
<1>1. CASE UNCHANGED vars
  BY <1>1 DEF vars
<1>2. CASE Tick
  BY <1>2, <1>age DEF Tick
<1>3. ASSUME NEW t \in Tasks, Arrive(t) PROVE FailureTimeInv'
  BY <1>3 DEF Arrive, AdmitClosed, SeeOpen, Goto
<1>4. ASSUME NEW t \in Tasks, Answer(t) PROVE FailureTimeInv'
  BY <1>4 DEF Answer, AnswerOk, AnswerErr, Cancel, Goto
<1>5. ASSUME NEW t \in Tasks, Step(t) PROVE FailureTimeInv'
  <2>1. CASE StoreFailureTime(t)
    <3>1. last_failure_time' # NoTime
      BY <2>1, <1>age DEF StoreFailureTime
    <3> QED BY <3>1
  <2>2. CASE Open(t)
    BY <2>2 DEF Open, Goto
  <2>3. CASE CheckCooldown(t)
    BY <2>3 DEF CheckCooldown, Goto
  <2>4. CASE HalfOpen(t)
    BY <2>4 DEF HalfOpen, Goto
  <2>5. CASE Close(t) \/ ReadClock(t) \/ BlockingPanic(t) \/ TearDown(t)
    BY <2>5 DEF Close, ReadClock, BlockingPanic, TearDown, Goto
  <2> QED BY <1>5, <2>1, <2>2, <2>3, <2>4, <2>5 DEF Step
<1> QED BY <1>1, <1>2, <1>3, <1>4, <1>5 DEF Next

(* Whenever the circuit is open, a cooldown can be measured: allow_request *)
(* never refuses for want of a failure time.                               *)
THEOREM OpenHasFailureTimeHolds == Spec => []OpenHasFailureTime
<1>1. Init => FailureTimeInv
  BY DEF Init, FailureTimeInv, OpenHasFailureTime
<1>2. FailureTimeInv => OpenHasFailureTime
  BY DEF FailureTimeInv
<1> QED BY <1>1, <1>2, FailureTimeStep, TypeCorrect, PTL DEF Spec

-----------------------------------------------------------------------------
(***************************************************************************)
(* Under a runtime no request gets past the blocking lock, so none is ever *)
(* where the circuit is opened, and no task finds it open.                 *)
(***************************************************************************)
InertInv ==
  Requests \subseteq OnRuntime =>
    /\ ~is_open
    /\ \A t \in Tasks : pc[t] \notin {"cooling", "probing", "opening"}
    /\ \A t \in Tasks \ Requests : pc[t] = "idle"

(* The circuit breaker of the server never opens, whatever the backends    *)
(* do: the panic comes before the store.                                   *)
THEOREM NeverOpensOnRuntimeHolds == Spec => []NeverOpensOnRuntime
<1>1. Init => InertInv
  BY DEF Init, InertInv
<1>2. TypeOK /\ InertInv /\ [Next]_vars => InertInv'
  <2> SUFFICES ASSUME TypeOK, InertInv, [Next]_vars, Requests \subseteq OnRuntime
               PROVE  InertInv'
    BY DEF InertInv
  <2> USE DEF InertInv, TypeOK
  <2>1. CASE UNCHANGED vars \/ Tick
    BY <2>1 DEF vars, Tick
  <2>2. ASSUME NEW t \in Tasks, Arrive(t) PROVE InertInv'
    BY <2>2 DEF Arrive, AdmitClosed, SeeOpen, Goto
  <2>3. ASSUME NEW t \in Tasks, Answer(t) PROVE InertInv'
    BY <2>3 DEF Answer, AnswerOk, AnswerErr, Cancel, Goto
  <2>4. ASSUME NEW t \in Tasks, Step(t) PROVE InertInv'
    BY <2>4 DEF Step, CheckCooldown, HalfOpen, Close, ReadClock,
                StoreFailureTime, Open, BlockingPanic, TearDown, Goto
  <2> QED BY <2>1, <2>2, <2>3, <2>4 DEF Next
<1>3. InertInv => NeverOpensOnRuntime
  BY DEF InertInv, NeverOpensOnRuntime
<1> QED BY <1>1, <1>2, <1>3, TypeCorrect, PTL DEF Spec

-----------------------------------------------------------------------------
(***************************************************************************)
(* The counter is exactly the current streak, since AnswerOk resets both   *)
(* and nothing else lowers either; so a task's tally is the streak that    *)
(* its own failure was the last of, as long as the task has not opened the *)
(* circuit; and only a task whose tally reached the threshold gets to the  *)
(* store that opens it.                                                    *)
(***************************************************************************)
StreakInv ==
  /\ streak = consecutive_failures
  /\ backed = tally
  /\ \A t \in Tasks : pc[t] = "opening" => tally[t] >= FailureThreshold
  /\ is_open => opened = FailureThreshold

(* A step of the history module is a step of the breaker.                  *)
LEMMA HistoryWatches == [HNext]_hvars => [Next]_vars
BY DEF HNext, HQuiet, HAdmitClosed, HHalfOpen, HAnswerOk, HAnswerErr, HCancel,
       HClose, HOpen, hvars, Next, Arrive, Answer, Step

(* Every step keeps the streak, the tallies and the circuit in agreement.  *)
LEMMA StreakStep == TypeOK /\ StreakInv /\ [HNext]_hvars => StreakInv'
<1> SUFFICES ASSUME TypeOK, StreakInv, [HNext]_hvars PROVE StreakInv'
  OBVIOUS
<1> USE BreakerAssumption DEF StreakInv, TypeOK, Counts
<1>1. CASE UNCHANGED hvars
  BY <1>1 DEF hvars, vars, history
<1>2. CASE HQuiet
  <2>1. CASE Tick
    BY <1>2, <2>1 DEF HQuiet, history, Tick
  <2>2. ASSUME NEW t \in Tasks,
               SeeOpen(t) \/ CheckCooldown(t) \/ ReadClock(t) \/ BlockingPanic(t)
                 \/ TearDown(t)
        PROVE StreakInv'
    BY <1>2, <2>2 DEF HQuiet, history, SeeOpen, CheckCooldown, ReadClock,
                      BlockingPanic, TearDown, Goto
  <2>3. ASSUME NEW t \in Tasks, StoreFailureTime(t) PROVE StreakInv'
    BY <1>2, <2>3 DEF HQuiet, history, StoreFailureTime, Goto
  <2> QED BY <1>2, <2>1, <2>2, <2>3 DEF HQuiet
<1>3. ASSUME NEW t \in Tasks, HAdmitClosed(t) \/ HHalfOpen(t) \/ HCancel(t)
      PROVE StreakInv'
  BY <1>3 DEF HAdmitClosed, AdmitClosed, HHalfOpen, HalfOpen, HCancel, Cancel, Goto
<1>4. ASSUME NEW t \in Tasks, HAnswerOk(t) PROVE StreakInv'
  BY <1>4 DEF HAnswerOk, AnswerOk, Goto
<1>5. ASSUME NEW t \in Tasks, HAnswerErr(t) PROVE StreakInv'
  <2>1. streak' = consecutive_failures' /\ backed' = tally'
    BY <1>5 DEF HAnswerErr, AnswerErr
  <2>2. \A u \in Tasks : pc'[u] = "opening" => tally'[u] >= FailureThreshold
    BY <1>5 DEF HAnswerErr, AnswerErr, Goto
  <2>3. is_open' => opened' = FailureThreshold
    BY <1>5 DEF HAnswerErr, AnswerErr
  <2> QED BY <2>1, <2>2, <2>3
<1>6. ASSUME NEW t \in Tasks, HClose(t) PROVE StreakInv'
  BY <1>6 DEF HClose, Close, Goto
<1>7. ASSUME NEW t \in Tasks, HOpen(t) PROVE StreakInv'
  <2>1. backed[t] = FailureThreshold
    BY <1>7 DEF HOpen, Open, Goto
  <2> QED BY <1>7, <2>1 DEF HOpen, Open, Goto
<1> QED BY <1>1, <1>2, <1>3, <1>4, <1>5, <1>6, <1>7 DEF HNext

(* Whatever the interleaving of successes, failures and cancellations, the *)
(* failure that opened an open circuit was the last of FailureThreshold    *)
(* answered in a row.                                                      *)
THEOREM NoSpuriousOpenHolds == HSpec => []NoSpuriousOpen
<1>1. HInit => TypeOK /\ StreakInv
  <2>1. HInit => StreakInv
    BY BreakerAssumption DEF HInit, Init, StreakInv, Counts
  <2> QED BY <2>1, TypeInit DEF HInit
<1>2. TypeOK /\ StreakInv /\ [HNext]_hvars => TypeOK' /\ StreakInv'
  BY StreakStep, TypeStep, HistoryWatches
<1>3. StreakInv => NoSpuriousOpen
  BY DEF StreakInv, NoSpuriousOpen
<1> QED BY <1>1, <1>2, <1>3, PTL DEF HSpec

=============================================================================

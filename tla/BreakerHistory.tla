--------------------------- MODULE BreakerHistory ---------------------------
(***************************************************************************)
(* CircuitBreaker with history variables: what the properties about the    *)
(* order of answers, openings and probes need to remember.  The breaker's  *)
(* own steps are those of CircuitBreaker, unchanged; the history only      *)
(* watches them.                                                           *)
(***************************************************************************)
EXTENDS CircuitBreaker, FiniteSets

VARIABLES
  streak,    \* failures answered since the last success, up to the threshold
  backed,    \* the streak that each task's own failure was the last of
  opened,    \* the streak behind the opening store that was last to come
  halfOpen,  \* did a cooldown end, with no probe's result recorded since?
  probes     \* requests in flight that were admitted while half-open

history == <<streak, backed, opened, halfOpen, probes>>
hvars == <<vars, history>>

HInit ==
  /\ Init
  /\ streak = 0 /\ backed = [t \in Tasks |-> 0] /\ opened = 0
  /\ halfOpen = FALSE /\ probes = {}

HAdmitClosed(t) ==
  /\ AdmitClosed(t)
  /\ probes' = IF halfOpen THEN probes \cup {t} ELSE probes
  /\ UNCHANGED <<streak, backed, opened, halfOpen>>

HHalfOpen(t) ==
  /\ HalfOpen(t)
  /\ halfOpen' = TRUE
  /\ probes' = probes \cup ({t} \cap Requests)
  /\ UNCHANGED <<streak, backed, opened>>

HAnswerOk(t) ==
  /\ AnswerOk(t)
  /\ streak' = 0
  /\ probes' = probes \ {t}
  /\ UNCHANGED <<backed, opened, halfOpen>>

HAnswerErr(t) ==
  /\ AnswerErr(t)
  /\ streak' = Count(streak)
  /\ backed' = [backed EXCEPT ![t] = Count(streak)]
  /\ probes' = probes \ {t}
  /\ UNCHANGED <<opened, halfOpen>>

HCancel(t) ==
  /\ Cancel(t)
  /\ probes' = probes \ {t}
  /\ UNCHANGED <<streak, backed, opened, halfOpen>>

HClose(t) ==
  /\ Close(t)
  /\ halfOpen' = FALSE
  /\ probes' = {}
  /\ UNCHANGED <<streak, backed, opened>>

HOpen(t) ==
  /\ Open(t)
  /\ opened' = backed[t]
  /\ halfOpen' = FALSE
  /\ probes' = {}
  /\ UNCHANGED <<streak, backed>>

(* Steps the history does not record.                                      *)
HQuiet ==
  /\ \/ Tick
     \/ \E t \in Tasks : SeeOpen(t) \/ CheckCooldown(t) \/ ReadClock(t)
                         \/ StoreFailureTime(t) \/ BlockingPanic(t) \/ TearDown(t)
  /\ UNCHANGED history

HNext ==
  \/ HQuiet
  \/ \E t \in Tasks :
       \/ HAdmitClosed(t) \/ HHalfOpen(t)
       \/ HAnswerOk(t) \/ HAnswerErr(t) \/ HCancel(t)
       \/ HClose(t) \/ HOpen(t)

HSpec == HInit /\ [][HNext]_hvars
HFairSpec == HSpec /\ Fairness

-----------------------------------------------------------------------------
(* Every time the circuit opens, the failure that opened it was the last   *)
(* of FailureThreshold answered in a row, with no success between them     *)
(* (client.rs:63-79): it may open after a success that was answered since, *)
(* but never on failures from both sides of one.                           *)
NoSpuriousOpen == is_open => opened = FailureThreshold

(* While the circuit is half-open one request probes the backend           *)
(* (client.rs:54: "Half-open: allow one probe request").                   *)
SingleProbe == halfOpen => Cardinality(probes) <= 1

=============================================================================

---------------------------- MODULE BackendPool ----------------------------
(***************************************************************************)
(* The backend pool (src/backend/mod.rs) under the tasks of the server:    *)
(* status requests refresh the pool's metrics and copy them, calls that    *)
(* succeed record their latency, the background loop checks the backends'  *)
(* health.  The tasks that ask for permits, which no request of the server *)
(* does, are in PoolPermits.                                               *)
(*                                                                         *)
(* Two kinds of waiting meet here.  The map of backends is a DashMap: its  *)
(* shards are under read-write locks that block the thread, and a guard is *)
(* held as long as the entry or the iterator it came from.  The latency of *)
(* a backend is under a fair Tokio lock, at which a task is suspended and  *)
(* gives its thread to another; so it does while it waits for an answer.   *)
(* There are Workers threads: a task that runs, or is blocked, holds one.  *)
(*                                                                         *)
(* The locks' state is not stored: which guards a task holds follows from  *)
(* its place.  A latency is told by the number of samples it averages.     *)
(***************************************************************************)
EXTENDS Naturals, Sequences, FiniteSets

CONSTANTS
  Backends,      \* the configured backends
  NumShards,     \* shards of the map, visited in order
  ShardOf,       \* the shard each backend is hashed to
  MaxConcurrent, \* permits of each backend's semaphore
  Workers,       \* worker threads of the runtime
  Status,        \* tasks of requests for router_status or router_metrics
  Callers,       \* tasks of requests that call a backend
  Askers,        \* tasks that ask for a permit
  Checker,       \* the task of the health check loop
  MaxSamples     \* bound: samples are not counted beyond this

Tasks == Status \cup Callers \cup Askers \cup {Checker}
Shards == 1 .. NumShards

ASSUME PoolAssumption ==
  /\ NumShards \in Nat \ {0} /\ ShardOf \in [Backends -> Shards]
  /\ MaxConcurrent \in Nat /\ Workers \in Nat \ {0} /\ MaxSamples \in Nat
  /\ Checker \notin Status \cup Callers \cup Askers
  /\ Status \cap Callers = {} /\ (Status \cup Callers) \cap Askers = {}

VARIABLES
  pc,       \* where each task is
  running,  \* tasks that hold a worker thread
  at,       \* the shard whose guard an iterating task holds, or 0
  left,     \* entries of that shard the iteration has yet to visit
  target,   \* the backend a task is concerned with
  latency,  \* the queue at each latency lock; its head holds the lock
  samples,  \* samples in each client's latency (BackendClient.latency)
  got,      \* what a status task read there
  shown,    \* samples in the pool's copy of it (latency_ema_ms)
  asked,    \* samples there were when a status request came
  healthy,  \* BackendState.healthy
  probe,    \* each backend's health check: none, sent, or its result
  permits   \* permits left in each semaphore

metrics == <<samples, got, shown, asked>>
health == <<healthy, probe>>
vars == <<pc, running, at, left, target, latency, metrics, health, permits>>

(***************************************************************************)
(* Places.  A status task goes through refreshing, reading, storing and    *)
(* copying; a caller through calling, answered and recording; the checker  *)
(* through listing and checking; an asker through trying or acquiring,     *)
(* awaiting_permit and counting (see PoolPermits).                         *)
(***************************************************************************)
Places == {"idle", "refreshing", "reading", "storing", "copying",
           "calling", "answered", "recording", "listing", "checking",
           "trying", "acquiring", "awaiting_permit", "counting"}

(* Mutants of WriteGuards: the guard is given up while the latency is      *)
(* awaited; it is kept until the copy is made.                             *)
WriteGuardsNotAwaiting(s) == {t \in Tasks : pc[t] = "storing" /\ at[t] = s}
WriteGuardsKept(s) ==
  {t \in Tasks : pc[t] \in {"refreshing", "reading", "storing"} /\ at[t] = s}
    \cup {t \in Tasks : pc[t] = "copying" /\ s = NumShards}

(* iter_mut: held over the await of the latency as well.                   *)
WriteGuards(s) ==
  {t \in Tasks : pc[t] \in {"refreshing", "reading", "storing"} /\ at[t] = s}

(* iter, and the get of acquire_permit and try_acquire_permit.             *)
ReadGuards(s) ==
  {t \in Tasks : pc[t] \in {"copying", "listing"} /\ at[t] = s}
    \cup {t \in Tasks : pc[t] \in {"awaiting_permit", "counting"} /\ ShardOf[target[t]] = s}

MayRead(s) == WriteGuards(s) = {}
MayWrite(s) == WriteGuards(s) \cup ReadGuards(s) = {}

Nothing == [b \in Backends |-> 0]
Goto(t, from, to) == pc[t] = from /\ pc' = [pc EXCEPT ![t] = to]
Runs(t) == t \in running /\ UNCHANGED running
Suspends(t) == t \in running /\ running' = running \ {t}
Holds(t) == Len(latency[target[t]]) > 0 /\ Head(latency[target[t]]) = t

(* The server begins to serve: the first health checks have been made.     *)
Init ==
  /\ pc = [t \in Tasks |-> "idle"]
  /\ running = {}
  /\ at = [t \in Tasks |-> 0]
  /\ left = [t \in Tasks |-> {}]
  /\ target \in {[t \in Tasks |-> b] : b \in Backends}
  /\ latency = [b \in Backends |-> <<>>]
  /\ samples = [b \in Backends |-> 0]
  /\ got = [t \in Status |-> 0]
  /\ shown = [b \in Backends |-> 0]
  /\ asked = [t \in Status |-> Nothing]
  /\ healthy \in [Backends -> BOOLEAN]
  /\ probe = [b \in Backends |-> "none"]
  /\ permits = [b \in Backends |-> MaxConcurrent]

-----------------------------------------------------------------------------
(* The runtime                                                             *)

(* What a suspended task waits for has come.                               *)
Awake(t) ==
  \/ pc[t] = "answered"
  \/ pc[t] \in {"reading", "recording"} /\ Holds(t)
  \/ pc[t] = "checking" /\ \E b \in Backends : probe[b] \in {"ok", "err"}

Poll(t) ==
  /\ t \notin running
  /\ Awake(t)
  /\ Cardinality(running) < Workers
  /\ running' = running \cup {t}
  /\ UNCHANGED <<pc, at, left, target, latency, metrics, health, permits>>

(* A request arrives, or the checker's sleep is over.                      *)
Begin(t) ==
  /\ t \notin running
  /\ Cardinality(running) < Workers
  /\ running' = running \cup {t}
  /\ \/ t \in Status /\ Goto(t, "idle", "refreshing")
     \/ t = Checker /\ Goto(t, "idle", "listing")
  /\ asked' = IF t \in Status THEN [asked EXCEPT ![t] = samples] ELSE asked
  /\ UNCHANGED <<at, left, target, latency, samples, got, shown, health, permits>>

(* The client of a suspended request goes away: the future is dropped, and *)
(* with it the guards it holds and its place in a queue.                   *)
Cancel(t) ==
  /\ t \notin running
  /\ \/ /\ pc[t] \in {"calling", "answered", "awaiting_permit"}
        /\ UNCHANGED latency
     \/ /\ pc[t] \in {"reading", "recording"}
        /\ \E i \in 1 .. Len(latency[target[t]]) :
             /\ latency[target[t]][i] = t
             /\ latency' = [latency EXCEPT ![target[t]] =
                              SubSeq(@, 1, i - 1) \o SubSeq(@, i + 1, Len(@))]
  /\ pc' = [pc EXCEPT ![t] = "idle"]
  /\ at' = [at EXCEPT ![t] = 0]
  /\ left' = [left EXCEPT ![t] = {}]
  /\ asked' = IF t \in Status THEN [asked EXCEPT ![t] = Nothing] ELSE asked
  /\ UNCHANGED <<running, target, samples, got, shown, health, permits>>

-----------------------------------------------------------------------------
(* Iterating over the map: refresh_metrics, all_states, backend_ids        *)

(* The iterator takes the next shard's lock, then lets go of the last.     *)
NextShard(t) ==
  /\ Runs(t)
  /\ at[t] < NumShards /\ left[t] = {}
  /\ \/ /\ pc[t] = "refreshing" /\ MayWrite(at[t] + 1)
        /\ left' = [left EXCEPT ![t] = {b \in Backends : ShardOf[b] = at[t] + 1}]
     \/ /\ pc[t] \in {"copying", "listing"} /\ MayRead(at[t] + 1)
        /\ UNCHANGED left
  /\ at' = [at EXCEPT ![t] = @ + 1]
  /\ UNCHANGED <<pc, target, latency, metrics, health, permits>>

(* Mutant of EndRefresh: the last shard is not visited.                    *)
EndRefreshEarly(t) ==
  /\ Runs(t)
  /\ Goto(t, "refreshing", "copying")
  /\ at[t] + 1 >= NumShards /\ left[t] = {}
  /\ at' = [at EXCEPT ![t] = 0]
  /\ UNCHANGED <<left, target, latency, metrics, health, permits>>

(* refresh_metrics returns, and all_states begins.                         *)
EndRefresh(t) ==
  /\ Runs(t)
  /\ Goto(t, "refreshing", "copying")
  /\ at[t] = NumShards /\ left[t] = {}
  /\ at' = [at EXCEPT ![t] = 0]
  /\ UNCHANGED <<left, target, latency, metrics, health, permits>>

(* all_states returns, and the request is answered.                        *)
EndCopy(t) ==
  /\ Suspends(t)
  /\ Goto(t, "copying", "idle")
  /\ at[t] = NumShards
  /\ at' = [at EXCEPT ![t] = 0]
  /\ asked' = [asked EXCEPT ![t] = Nothing]
  /\ UNCHANGED <<left, target, latency, samples, got, shown, health, permits>>

-----------------------------------------------------------------------------
(* The latency of a backend                                                *)

(* Queueing at the lock: the first in the queue goes on, others suspend.   *)
(* Readers could share it, but the shard's guard admits one at a time.     *)
Join(t, b) ==
  /\ latency' = [latency EXCEPT ![b] = Append(@, t)]
  /\ IF latency[b] = <<>> THEN Runs(t) ELSE Suspends(t)

(* client.latency.current().await for an entry of the shard.               *)
JoinLatency(t) ==
  /\ Goto(t, "refreshing", "reading")
  /\ \E b \in left[t] :
       /\ Join(t, b)
       /\ target' = [target EXCEPT ![t] = b]
       /\ left' = [left EXCEPT ![t] = @ \ {b}]
  /\ UNCHANGED <<at, metrics, health, permits>>

ReadLatency(t) ==
  /\ Runs(t)
  /\ Goto(t, "reading", "storing")
  /\ Holds(t)
  /\ got' = [got EXCEPT ![t] = samples[target[t]]]
  /\ latency' = [latency EXCEPT ![target[t]] = Tail(@)]
  /\ UNCHANGED <<at, left, target, samples, shown, asked, health, permits>>

(* Mutant of StoreMetrics: the latency is added to the copy (+= for =).    *)
StoreMetricsAdds(t) ==
  /\ Runs(t)
  /\ Goto(t, "storing", "refreshing")
  /\ shown' = [shown EXCEPT ![target[t]] = @ + got[t]]
  /\ got' = [got EXCEPT ![t] = 0]
  /\ UNCHANGED <<at, left, target, latency, samples, asked, health, permits>>

(* The entry is updated.  Its circuit_open stays FALSE: on the runtime the *)
(* circuit never opens (see CircuitBreaker).                               *)
StoreMetrics(t) ==
  /\ Runs(t)
  /\ Goto(t, "storing", "refreshing")
  /\ shown' = [shown EXCEPT ![target[t]] = got[t]]
  /\ got' = [got EXCEPT ![t] = 0]
  /\ UNCHANGED <<at, left, target, latency, samples, asked, health, permits>>

(* A request is sent to a backend, and suspended at once.                  *)
Call(t) ==
  /\ t \in Callers
  /\ Goto(t, "idle", "calling")
  /\ \E b \in Backends : target' = [target EXCEPT ![t] = b]
  /\ UNCHANGED <<running, at, left, latency, metrics, health, permits>>

(* It is answered, or fails: a failure records no latency.                 *)
Answer(t) ==
  /\ Goto(t, "calling", "answered") \/ Goto(t, "calling", "idle")
  /\ UNCHANGED <<running, at, left, target, latency, metrics, health, permits>>

JoinRecord(t) ==
  /\ Goto(t, "answered", "recording")
  /\ Join(t, target[t])
  /\ UNCHANGED <<at, left, target, metrics, health, permits>>

(* LatencyTracker::record.                                                 *)
Record(t) ==
  /\ Suspends(t)
  /\ Goto(t, "recording", "idle")
  /\ Holds(t)
  /\ samples' = [samples EXCEPT ![target[t]] = IF @ < MaxSamples THEN @ + 1 ELSE @]
  /\ latency' = [latency EXCEPT ![target[t]] = Tail(@)]
  /\ UNCHANGED <<at, left, target, got, shown, asked, health, permits>>

-----------------------------------------------------------------------------
(* health_check_all                                                        *)

(* backend_ids returns, and all health checks are sent.                    *)
SendProbes ==
  /\ Suspends(Checker)
  /\ Goto(Checker, "listing", "checking")
  /\ at[Checker] = NumShards
  /\ at' = [at EXCEPT ![Checker] = 0]
  /\ probe' = [b \in Backends |-> "sent"]
  /\ UNCHANGED <<left, target, latency, metrics, healthy, permits>>

(* Mutant of AnswerProbe: no time limit, and a backend that is down hangs. *)
AnswerProbeIfUp(b) ==
  /\ probe[b] = "sent" /\ healthy[b]
  /\ \E r \in {"ok", "err"} : probe' = [probe EXCEPT ![b] = r]
  /\ UNCHANGED <<pc, running, at, left, target, latency, metrics, healthy, permits>>

(* A backend answers, or its health check times out.                       *)
AnswerProbe(b) ==
  /\ probe[b] = "sent"
  /\ \E r \in {"ok", "err"} : probe' = [probe EXCEPT ![b] = r]
  /\ UNCHANGED <<pc, running, at, left, target, latency, metrics, healthy, permits>>

(* Mutant of StoreHealth: the first check that fails ends the round, as    *)
(* try_join_all would, and the other checks are dropped.                   *)
StoreHealthEndsRound(b) ==
  /\ Runs(Checker)
  /\ pc[Checker] = "checking"
  /\ probe[b] \in {"ok", "err"}
  /\ MayWrite(ShardOf[b])
  /\ healthy' = [healthy EXCEPT ![b] = (probe[b] = "ok")]
  /\ probe' = IF probe[b] = "err" THEN [c \in Backends |-> "none"]
              ELSE [probe EXCEPT ![b] = "none"]
  /\ UNCHANGED <<pc, at, left, target, latency, metrics, permits>>

(* Its result is stored; the thread is blocked until the shard is free.    *)
StoreHealth(b) ==
  /\ Runs(Checker)
  /\ pc[Checker] = "checking"
  /\ probe[b] \in {"ok", "err"}
  /\ MayWrite(ShardOf[b])
  /\ healthy' = [healthy EXCEPT ![b] = (probe[b] = "ok")]
  /\ probe' = [probe EXCEPT ![b] = "none"]
  /\ UNCHANGED <<pc, at, left, target, latency, metrics, permits>>

(* join_all waits for the next result, or has them all.                    *)
JoinAll ==
  /\ Suspends(Checker)
  /\ pc[Checker] = "checking"
  /\ \A b \in Backends : probe[b] \in {"none", "sent"}
  /\ pc' = [pc EXCEPT ![Checker] =
              IF \A b \in Backends : probe[b] = "none" THEN "idle" ELSE @]
  /\ UNCHANGED <<at, left, target, latency, metrics, health, permits>>

-----------------------------------------------------------------------------
StatusStep(t) ==
  \/ NextShard(t) \/ EndRefresh(t) \/ EndCopy(t)
  \/ JoinLatency(t) \/ ReadLatency(t) \/ StoreMetrics(t)
CallerStep(t) == JoinRecord(t) \/ Record(t)
CheckerStep == NextShard(Checker) \/ SendProbes \/ JoinAll \/ \E b \in Backends : StoreHealth(b)

Next ==
  \/ \E t \in Tasks : Begin(t) \/ Poll(t) \/ Cancel(t)
  \/ \E t \in Status : StatusStep(t)
  \/ \E t \in Callers : Call(t) \/ Answer(t) \/ CallerStep(t)
  \/ CheckerStep
  \/ \E b \in Backends : AnswerProbe(b)

Spec == Init /\ [][Next]_vars

(***************************************************************************)
(* The runtime polls every task that is awake, threads run and the locks   *)
(* of the shards starve none of them (SF), the timeouts of the HTTP client *)
(* end every wait for a backend, and the checker's sleep ends.  Requests   *)
(* need not come, and clients need not leave.                              *)
(***************************************************************************)
Fairness ==
  /\ \A t \in Status : SF_vars(Poll(t) \/ StatusStep(t))
  /\ \A t \in Callers : SF_vars(Poll(t) \/ CallerStep(t)) /\ WF_vars(Answer(t))
  /\ SF_vars(Poll(Checker) \/ CheckerStep \/ Begin(Checker))
  /\ \A b \in Backends : WF_vars(AnswerProbe(b))

FairSpec == Spec /\ Fairness

-----------------------------------------------------------------------------
(* Properties                                                              *)

(* Every variable has the type its declaration gives it; what is shown of  *)
(* a backend averages no more samples than were recorded (mod.rs:196).     *)
TypeOK ==
  /\ pc \in [Tasks -> Places]
  /\ running \subseteq Tasks /\ Cardinality(running) <= Workers
  /\ at \in [Tasks -> 0 .. NumShards]
  /\ left \in [Tasks -> SUBSET Backends]
  /\ target \in [Tasks -> Backends]
  /\ latency \in [Backends -> Seq(Tasks)]
  /\ samples \in [Backends -> 0 .. MaxSamples]
  /\ got \in [Status -> 0 .. MaxSamples]
  /\ shown \in [Backends -> 0 .. MaxSamples]
  /\ \A b \in Backends : shown[b] <= samples[b]
  /\ asked \in [Status -> [Backends -> 0 .. MaxSamples]]
  /\ healthy \in [Backends -> BOOLEAN]
  /\ probe \in [Backends -> {"none", "sent", "ok", "err"}]
  /\ permits \in [Backends -> 0 .. MaxConcurrent]

(* The latency shown for a backend never goes back to an older one         *)
(* (mod.rs:196): of two status requests at once, the one that read first   *)
(* does not store last, because the shard's guard is held over the await.  *)
LatencyGoesForward ==
  [][\A b \in Backends : shown'[b] >= shown[b]]_shown

(* A status request is answered with latencies that count every sample     *)
(* recorded before it came (mod.rs:190: "from live client metrics").       *)
StatusIsFresh ==
  \A t \in Status : pc[t] = "copying" => \A b \in Backends : shown[b] >= asked[t][b]

(* Every status request comes to an end, and so does every round of health *)
(* checks: guards held over an await, tasks blocked with their threads and *)
(* clients that leave do not add up to a deadlock, when there is a thread  *)
(* for every task that touches the map and nobody asks for a permit.       *)
ServerProgress ==
  \A t \in Status \cup {Checker} : (pc[t] # "idle") ~> (pc[t] = "idle")

(* A backend whose health checks fail from some time on is shown unhealthy *)
(* for good, and one that passes them is shown healthy, whatever the       *)
(* status requests do and however late, or badly, the checks of the other  *)
(* backends end (mod.rs:161-187).                                          *)
HealthConverges ==
  \A b \in Backends :
    /\ <>[](probe[b] # "ok") => <>[]~healthy[b]
    /\ <>[](probe[b] # "err") => <>[]healthy[b]

=============================================================================

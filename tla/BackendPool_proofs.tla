------------------------- MODULE BackendPool_proofs -------------------------
(***************************************************************************)
(* What holds of the backend pool for every number of backends, shards,    *)
(* threads and tasks: its types, that the latency it shows of a backend    *)
(* never goes back to an older one, and that a status request is answered  *)
(* with latencies no older than itself.                                    *)
(***************************************************************************)
EXTENDS BackendPool, FiniteSetTheorems, SequenceTheorems, TLAPS

Writing(t) == pc[t] \in {"refreshing", "reading", "storing"}
Midway(t) == pc[t] \in {"reading", "storing"}

(* The types of all but the threads and the queues.                        *)
DataType ==
  /\ pc \in [Tasks -> Places]
  /\ at \in [Tasks -> 0 .. NumShards]
  /\ left \in [Tasks -> SUBSET Backends]
  /\ target \in [Tasks -> Backends]
  /\ samples \in [Backends -> 0 .. MaxSamples]
  /\ got \in [Status -> 0 .. MaxSamples]
  /\ shown \in [Backends -> 0 .. MaxSamples]
  /\ asked \in [Status -> [Backends -> 0 .. MaxSamples]]
  /\ healthy \in [Backends -> BOOLEAN]
  /\ probe \in [Backends -> {"none", "sent", "ok", "err"}]
  /\ permits \in [Backends -> 0 .. MaxConcurrent]

ThreadsType ==
  /\ running \subseteq Tasks
  /\ IsFiniteSet(running)
  /\ Cardinality(running) <= Workers

QueuesType == latency \in [Backends -> Seq(Tasks)]

(* One task at a time is in a shard with a write guard.                    *)
Exclusive ==
  \A t, u \in Tasks :
    Writing(t) /\ Writing(u) /\ at[t] = at[u] /\ at[t] # 0 => t = u

(* An iterator is in the shard of the entries it visits.                   *)
Placed ==
  \A t \in Tasks :
    /\ left[t] \subseteq {b \in Backends : ShardOf[b] = at[t]}
    /\ ~Writing(t) => left[t] = {}
    /\ Midway(t) => at[t] = ShardOf[target[t]] /\ target[t] \notin left[t]
    /\ ~Writing(t) /\ pc[t] \notin {"copying", "listing"} => at[t] = 0

(* What a task has read is newer than what is shown, and not yet stored.   *)
Ordered ==
  /\ \A b \in Backends : shown[b] <= samples[b]
  /\ \A t \in Status : pc[t] = "storing" =>
       shown[target[t]] <= got[t] /\ got[t] <= samples[target[t]]

Visited(t, b) ==
  \/ ShardOf[b] < at[t]
  \/ ShardOf[b] = at[t] /\ b \notin left[t] /\ ~(Midway(t) /\ target[t] = b)

(* The entries a status request has visited show what it asked for.        *)
Fresh ==
  \A t \in Status :
    /\ \A b \in Backends : asked[t][b] <= samples[b]
    /\ Writing(t) => \A b \in Backends : Visited(t, b) => asked[t][b] <= shown[b]
    /\ pc[t] = "storing" => asked[t][target[t]] <= got[t]
    /\ pc[t] = "copying" => \A b \in Backends : asked[t][b] <= shown[b]

Core == DataType /\ Exclusive /\ Placed /\ Ordered /\ Fresh
IInv == Core /\ ThreadsType /\ QueuesType

coreVars == <<pc, at, left, target, samples, got, shown, asked>>

-----------------------------------------------------------------------------
(* Threads are taken one at a time, while there are any, and given back.   *)
LEMMA ThreadsKeep ==
  ASSUME ThreadsType,
         \/ running' = running
         \/ \E t \in Tasks : running' = running \ {t}
         \/ \E t \in Tasks : Cardinality(running) < Workers /\ running' = running \cup {t}
  PROVE  ThreadsType'
<1>1. Cardinality(running) \in Nat /\ Workers \in Nat
  BY FS_CardinalityType, PoolAssumption DEF ThreadsType
<1>2. CASE running' = running
  BY <1>2 DEF ThreadsType
<1>3. ASSUME NEW t \in Tasks, running' = running \ {t} PROVE ThreadsType'
  <2>1. IsFiniteSet(running') /\ Cardinality(running') <= Cardinality(running)
    BY <1>1, <1>3, FS_RemoveElement DEF ThreadsType
  <2>2. Cardinality(running') \in Nat
    BY <2>1, FS_CardinalityType
  <2> QED BY <1>1, <1>3, <2>1, <2>2 DEF ThreadsType
<1>4. ASSUME NEW t \in Tasks, Cardinality(running) < Workers, running' = running \cup {t}
      PROVE  ThreadsType'
  <2>0. /\ IsFiniteSet(running \cup {t})
        /\ Cardinality(running \cup {t}) =
             IF t \in running THEN Cardinality(running) ELSE Cardinality(running) + 1
    BY FS_AddElement DEF ThreadsType
  <2>1. IsFiniteSet(running') /\ Cardinality(running') <= Cardinality(running) + 1
    BY <1>1, <1>4, <2>0
  <2>2. Cardinality(running') \in Nat
    BY <2>1, FS_CardinalityType
  <2> QED BY <1>1, <1>4, <2>1, <2>2 DEF ThreadsType
<1> QED BY <1>2, <1>3, <1>4

(* A task that joins a queue, or leaves it as its head or from within.     *)
LEMMA QueuesKeep ==
  ASSUME QueuesType, NEW b \in Backends, NEW t \in Tasks,
         \/ latency' = latency
         \/ latency' = [latency EXCEPT ![b] = Append(@, t)]
         \/ Len(latency[b]) > 0 /\ latency' = [latency EXCEPT ![b] = Tail(@)]
         \/ \E i \in 1 .. Len(latency[b]) :
              latency' = [latency EXCEPT ![b] =
                            SubSeq(@, 1, i - 1) \o SubSeq(@, i + 1, Len(@))]
  PROVE  QueuesType'
<1>1. latency[b] \in Seq(Tasks)
  BY DEF QueuesType
<1>2. ASSUME NEW q \in Seq(Tasks), latency' = [latency EXCEPT ![b] = q] PROVE QueuesType'
  BY <1>2 DEF QueuesType
<1>3. Append(latency[b], t) \in Seq(Tasks)
  BY <1>1
<1>4. Len(latency[b]) > 0 => Tail(latency[b]) \in Seq(Tasks)
  BY <1>1
<1>5. ASSUME NEW i \in 1 .. Len(latency[b])
      PROVE  SubSeq(latency[b], 1, i - 1) \o SubSeq(latency[b], i + 1, Len(latency[b])) \in Seq(Tasks)
  <2>1. \A k \in 1 .. Len(latency[b]) : latency[b][k] \in Tasks
    BY <1>1
  <2>2. SubSeq(latency[b], 1, i - 1) \in Seq(Tasks)
    BY <1>1, <2>1, SubSeqProperties
  <2>3. SubSeq(latency[b], i + 1, Len(latency[b])) \in Seq(Tasks)
    BY <1>1, <2>1, SubSeqProperties
  <2> QED BY <2>2, <2>3, ConcatProperties
<1> QED BY <1>2, <1>3, <1>4, <1>5 DEF QueuesType

-----------------------------------------------------------------------------
(* The kinds of tasks are apart, and a shard's number is not 0.            *)
LEMMA Kinds ==
  /\ Status \subseteq Tasks /\ Callers \subseteq Tasks /\ Checker \in Tasks
  /\ Checker \notin Status /\ Status \cap Callers = {}
  /\ NumShards \in Nat /\ NumShards > 0 /\ MaxSamples \in Nat
  /\ \A b \in Backends : ShardOf[b] \in 1 .. NumShards
  /\ \A n \in 0 .. MaxSamples : n \in Nat
BY PoolAssumption DEF Tasks, Shards

(* A step that moves no task and records no latency keeps the core.        *)
LEMMA FrameKeeps ==
  ASSUME Core, UNCHANGED coreVars,
         healthy' \in [Backends -> BOOLEAN],
         probe' \in [Backends -> {"none", "sent", "ok", "err"}],
         permits' \in [Backends -> 0 .. MaxConcurrent]
  PROVE  Core'
<1>1. DataType'
  BY DEF Core, DataType, coreVars
<1>2. Exclusive'
  BY DEF Core, Exclusive, Writing, coreVars
<1>3. Placed'
  BY DEF Core, Placed, Writing, Midway, coreVars
<1>4. Ordered'
  BY DEF Core, Ordered, coreVars
<1>5. Fresh'
  BY DEF Core, Fresh, Visited, Writing, Midway, coreVars
<1> QED BY <1>1, <1>2, <1>3, <1>4, <1>5 DEF Core

(* A task comes to rest, or goes from one place that holds no guard to     *)
(* another.                                                                *)
LEMMA IdleKeeps ==
  ASSUME Core, NEW t \in Tasks, NEW p \in Places,
         p \notin {"refreshing", "reading", "storing", "copying"},
         pc' = [pc EXCEPT ![t] = p], at' = [at EXCEPT ![t] = 0],
         left' = [left EXCEPT ![t] = {}],
         target' \in [Tasks -> Backends],
         \A u \in Tasks : u # t => target'[u] = target[u],
         samples' \in [Backends -> 0 .. MaxSamples],
         \A b \in Backends : samples[b] <= samples'[b],
         asked' \in [Status -> [Backends -> 0 .. MaxSamples]],
         \A u \in Status : asked'[u] = asked[u] \/ asked'[u] = Nothing,
         \A u \in Status : u # t => asked'[u] = asked[u],
         probe' \in [Backends -> {"none", "sent", "ok", "err"}],
         UNCHANGED <<got, shown, healthy, permits>>
  PROVE  Core'
<1> USE DEF Core
<1>1. DataType'
  <2>1. pc' \in [Tasks -> Places]
    BY DEF DataType
  <2>2. at' \in [Tasks -> 0 .. NumShards]
    BY Kinds DEF DataType
  <2>3. left' \in [Tasks -> SUBSET Backends]
    BY DEF DataType
  <2> QED BY <2>1, <2>2, <2>3 DEF DataType
<1>2. Exclusive'
  BY DEF DataType, Exclusive, Writing
<1>3. Placed'
  BY Kinds DEF DataType, Placed, Writing, Midway
<1>4. Ordered'
  BY Kinds DEF DataType, Ordered
<1>5. Fresh'
  BY Kinds DEF DataType, Fresh, Visited, Writing, Midway, Nothing
<1> QED BY <1>1, <1>2, <1>3, <1>4, <1>5

(* The write guard of the next shard is taken when nobody is in it.        *)
LEMMA NextRefreshKeeps ==
  ASSUME Core, NEW t \in Tasks, NextShard(t), pc[t] = "refreshing"
  PROVE  Core'
<1> USE DEF Core
<1>0. /\ at[t] < NumShards /\ left[t] = {}
      /\ left' = [left EXCEPT ![t] = {b \in Backends : ShardOf[b] = at[t] + 1}]
      /\ at' = [at EXCEPT ![t] = at[t] + 1]
      /\ \A u \in Tasks : ~(Writing(u) /\ at[u] = at[t] + 1)
      /\ UNCHANGED <<pc, target, samples, got, shown, asked, healthy, probe, permits>>
  BY DEF NextShard, metrics, health, MayWrite, WriteGuards, Writing
<1>1. DataType'
  BY <1>0, Kinds DEF DataType, Places
<1>2. Exclusive'
  BY <1>0, Kinds DEF DataType, Exclusive, Writing
<1>3. Placed'
  BY <1>0, Kinds DEF DataType, Placed, Writing, Midway
<1>4. Ordered'
  BY <1>0, Kinds DEF DataType, Ordered
<1>5. Fresh'
  <2> SUFFICES ASSUME NEW u \in Status
               PROVE  /\ \A b \in Backends : asked'[u][b] <= samples'[b]
                      /\ Writing(u)' => \A b \in Backends : Visited(u, b)' => asked'[u][b] <= shown'[b]
                      /\ pc'[u] = "storing" => asked'[u][target'[u]] <= got'[u]
                      /\ pc'[u] = "copying" => \A b \in Backends : asked'[u][b] <= shown'[b]
    BY DEF Fresh
  <2>1. CASE u # t
    BY <1>0, <2>1, Kinds DEF DataType, Fresh, Visited, Writing, Midway
  <2>2. CASE u = t
    <3>1. ASSUME NEW b \in Backends, Visited(t, b)' PROVE Visited(t, b)
      <4>1. ShardOf[b] \in Nat /\ at[t] \in Nat
        BY Kinds DEF DataType
      <4>2. at'[t] = at[t] + 1 /\ (ShardOf[b] = at[t] + 1 => b \in left'[t])
        BY <1>0 DEF DataType
      <4>3. ShardOf[b] < at[t] + 1
        BY <3>1, <4>2 DEF Visited
      <4>4. ShardOf[b] < at[t] \/ ShardOf[b] = at[t]
        BY <4>1, <4>3
      <4> QED BY <1>0, <4>4 DEF Visited, Midway
    <3> QED BY <1>0, <2>2, <3>1, Kinds DEF DataType, Fresh, Writing
  <2> QED BY <2>1, <2>2
<1> QED BY <1>1, <1>2, <1>3, <1>4, <1>5

(* A reader goes on to the next shard.                                     *)
LEMMA NextCopyKeeps ==
  ASSUME Core, NEW t \in Tasks, NextShard(t), pc[t] \in {"copying", "listing"}
  PROVE  Core'
<1> USE DEF Core
<1>0. /\ at[t] < NumShards /\ left[t] = {}
      /\ at' = [at EXCEPT ![t] = at[t] + 1]
      /\ UNCHANGED <<pc, left, target, samples, got, shown, asked, healthy, probe, permits>>
  BY DEF NextShard, metrics, health
<1>1. DataType'
  BY <1>0, Kinds DEF DataType, Places
<1>2. Exclusive'
  BY <1>0, Kinds DEF DataType, Exclusive, Writing
<1>3. Placed'
  BY <1>0, Kinds DEF DataType, Placed, Writing, Midway
<1>4. Ordered'
  BY <1>0, Kinds DEF DataType, Ordered
<1>5. Fresh'
  BY <1>0, Kinds DEF DataType, Fresh, Visited, Writing, Midway
<1> QED BY <1>1, <1>2, <1>3, <1>4, <1>5

(* All shards have been visited when the copy begins.                      *)
LEMMA EndRefreshKeeps ==
  ASSUME Core, NEW t \in Status, EndRefresh(t)
  PROVE  Core'
<1> USE DEF Core
<1>0. /\ pc[t] = "refreshing" /\ at[t] = NumShards /\ left[t] = {}
      /\ pc' = [pc EXCEPT ![t] = "copying"] /\ at' = [at EXCEPT ![t] = 0]
      /\ UNCHANGED <<left, target, samples, got, shown, asked, healthy, probe, permits>>
  BY DEF EndRefresh, Goto, metrics, health
<1>1. DataType'
  BY <1>0, Kinds DEF DataType, Places
<1>2. Exclusive'
  BY <1>0, Kinds DEF DataType, Exclusive, Writing
<1>3. Placed'
  BY <1>0, Kinds DEF DataType, Placed, Writing, Midway
<1>4. Ordered'
  BY <1>0, Kinds DEF DataType, Ordered
<1>5. Fresh'
  <2> SUFFICES ASSUME NEW u \in Status
               PROVE  /\ \A b \in Backends : asked'[u][b] <= samples'[b]
                      /\ Writing(u)' => \A b \in Backends : Visited(u, b)' => asked'[u][b] <= shown'[b]
                      /\ pc'[u] = "storing" => asked'[u][target'[u]] <= got'[u]
                      /\ pc'[u] = "copying" => \A b \in Backends : asked'[u][b] <= shown'[b]
    BY DEF Fresh
  <2>1. CASE u # t
    BY <1>0, <2>1, Kinds DEF DataType, Fresh, Visited, Writing, Midway
  <2>2. CASE u = t
    <3>1. ASSUME NEW b \in Backends PROVE Visited(t, b)
      <4>1. ShardOf[b] \in 1 .. NumShards /\ NumShards \in Nat
        BY Kinds
      <4>2. ShardOf[b] < NumShards \/ ShardOf[b] = NumShards
        BY <4>1
      <4> QED BY <1>0, <4>2 DEF Visited, Midway
    <3> QED BY <1>0, <2>2, <3>1, Kinds DEF DataType, Fresh, Writing
  <2> QED BY <2>1, <2>2
<1> QED BY <1>1, <1>2, <1>3, <1>4, <1>5

(* An entry of the shard is taken, and its latency awaited.                *)
LEMMA JoinLatencyKeeps ==
  ASSUME Core, NEW t \in Status, JoinLatency(t)
  PROVE  Core'
<1> USE DEF Core
<1>0. /\ pc[t] = "refreshing" /\ pc' = [pc EXCEPT ![t] = "reading"]
      /\ \E b \in left[t] :
           /\ target' = [target EXCEPT ![t] = b]
           /\ left' = [left EXCEPT ![t] = left[t] \ {b}]
      /\ UNCHANGED <<at, samples, got, shown, asked, healthy, probe, permits>>
  BY DEF JoinLatency, Goto, metrics, health
<1>1. DataType'
  BY <1>0, Kinds DEF DataType, Places
<1>2. Exclusive'
  BY <1>0, Kinds DEF DataType, Exclusive, Writing
<1>3. Placed'
  BY <1>0, Kinds DEF DataType, Placed, Writing, Midway
<1>4. Ordered'
  BY <1>0, Kinds DEF DataType, Ordered
<1>5. Fresh'
  BY <1>0, Kinds DEF DataType, Fresh, Visited, Writing, Midway
<1> QED BY <1>1, <1>2, <1>3, <1>4, <1>5

(* What is read is as new as any sample.                                   *)
LEMMA ReadLatencyKeeps ==
  ASSUME Core, NEW t \in Status, ReadLatency(t)
  PROVE  Core'
<1> USE DEF Core
<1>0. /\ pc[t] = "reading" /\ pc' = [pc EXCEPT ![t] = "storing"]
      /\ got' = [got EXCEPT ![t] = samples[target[t]]]
      /\ UNCHANGED <<at, left, target, samples, shown, asked, healthy, probe, permits>>
  BY DEF ReadLatency, Goto, health
<1>1. DataType'
  BY <1>0, Kinds DEF DataType, Places
<1>2. Exclusive'
  BY <1>0, Kinds DEF DataType, Exclusive, Writing
<1>3. Placed'
  BY <1>0, Kinds DEF DataType, Placed, Writing, Midway
<1>4. Ordered'
  BY <1>0, Kinds DEF DataType, Ordered
<1>5. Fresh'
  BY <1>0, Kinds DEF DataType, Fresh, Visited, Writing, Midway
<1> QED BY <1>1, <1>2, <1>3, <1>4, <1>5

(* What is stored is as new as what is shown, and no other task has read.  *)
LEMMA StoreMetricsKeeps ==
  ASSUME Core, NEW t \in Status, StoreMetrics(t)
  PROVE  Core'
<1> USE DEF Core
<1>0. /\ pc[t] = "storing" /\ pc' = [pc EXCEPT ![t] = "refreshing"]
      /\ shown' = [shown EXCEPT ![target[t]] = got[t]]
      /\ got' = [got EXCEPT ![t] = 0]
      /\ UNCHANGED <<at, left, target, samples, asked, healthy, probe, permits>>
  BY DEF StoreMetrics, Goto, health
<1>1. /\ target[t] \in Backends /\ got[t] \in Nat
      /\ shown[target[t]] <= got[t] /\ got[t] <= samples[target[t]]
  BY <1>0, Kinds DEF DataType, Ordered
<1>2. \A b \in Backends : shown'[b] = IF b = target[t] THEN got[t] ELSE shown[b]
  BY <1>0, <1>1 DEF DataType
<1>3. \A b \in Backends : shown[b] <= shown'[b]
  BY <1>1, <1>2, Kinds DEF DataType
<1>4. \A u \in Status : u # t /\ pc[u] = "storing" => target[u] # target[t]
  BY <1>0, <1>1, Kinds DEF Exclusive, Placed, Writing, Midway
<1>5. DataType'
  BY <1>0, Kinds DEF DataType, Places
<1>6. Exclusive'
  BY <1>0, Kinds DEF DataType, Exclusive, Writing
<1>7. Placed'
  BY <1>0, Kinds DEF DataType, Placed, Writing, Midway
<1>8. Ordered'
  <2>1. \A b \in Backends : shown'[b] <= samples'[b]
    BY <1>0, <1>1, <1>2 DEF Ordered
  <2>2. ASSUME NEW u \in Status, pc'[u] = "storing"
        PROVE  shown'[target'[u]] <= got'[u] /\ got'[u] <= samples'[target'[u]]
    <3>1. u # t /\ pc[u] = "storing" /\ got'[u] = got[u] /\ target[u] \in Backends
      BY <1>0, <2>2, Kinds DEF DataType
    <3> QED BY <1>0, <1>2, <1>4, <3>1 DEF Ordered
  <2> QED BY <2>1, <2>2 DEF Ordered
<1>9. Fresh'
  <2> SUFFICES ASSUME NEW u \in Status
               PROVE  /\ \A b \in Backends : asked'[u][b] <= samples'[b]
                      /\ Writing(u)' => \A b \in Backends : Visited(u, b)' => asked'[u][b] <= shown'[b]
                      /\ pc'[u] = "storing" => asked'[u][target'[u]] <= got'[u]
                      /\ pc'[u] = "copying" => \A b \in Backends : asked'[u][b] <= shown'[b]
    BY DEF Fresh
  <2>1. CASE u # t
    <3>1. Visited(u, target[t])' => Visited(u, target[t])
      BY <1>0, <2>1, Kinds DEF DataType, Visited, Midway
    <3>2. \A b \in Backends : asked[u][b] \in Nat /\ shown[b] \in Nat /\ shown'[b] \in Nat
      BY <1>1, <1>2, Kinds DEF DataType
    <3>3. \A b \in Backends : Visited(u, b)' => Visited(u, b)
      BY <1>0, <2>1, Kinds DEF DataType, Visited, Midway
    <3>4. pc'[u] = pc[u] /\ got'[u] = got[u] /\ asked' = asked /\ target' = target /\ samples' = samples
      BY <1>0, <2>1, Kinds DEF DataType
    <3>5. Writing(u)' => Writing(u)
      BY <3>4 DEF Writing
    <3>6. ASSUME NEW b \in Backends, asked[u][b] <= shown[b] PROVE asked[u][b] <= shown'[b]
      BY <1>3, <3>2, <3>6
    <3> QED BY <3>3, <3>4, <3>5, <3>6 DEF Fresh
  <2>2. CASE u = t
    <3>1. asked[t][target[t]] <= got[t]
      BY <1>0 DEF Fresh
    <3>2. \A b \in Backends : b # target[t] /\ Visited(t, b)' => Visited(t, b)
      BY <1>0, Kinds DEF DataType, Visited, Midway
    <3>3. \A b \in Backends : Visited(t, b)' => asked[t][b] <= shown'[b]
      BY <1>0, <1>2, <3>1, <3>2 DEF Fresh, Writing
    <3> QED BY <1>0, <2>2, <3>3, Kinds DEF DataType, Fresh
  <2> QED BY <2>1, <2>2
<1> QED BY <1>5, <1>6, <1>7, <1>8, <1>9

(* A status request asks for all samples there are.                        *)
LEMMA BeginStatusKeeps ==
  ASSUME Core, NEW t \in Status, Begin(t)
  PROVE  Core'
<1> USE DEF Core
<1>0. /\ pc[t] = "idle" /\ pc' = [pc EXCEPT ![t] = "refreshing"]
      /\ asked' = [asked EXCEPT ![t] = samples]
      /\ UNCHANGED <<at, left, target, samples, got, shown, healthy, probe, permits>>
  BY Kinds DEF Begin, Goto, health
<1>1. DataType'
  BY <1>0, Kinds DEF DataType, Places
<1>2. Exclusive'
  BY <1>0, Kinds DEF DataType, Exclusive, Placed, Writing
<1>3. Placed'
  BY <1>0, Kinds DEF DataType, Placed, Writing, Midway
<1>4. Ordered'
  BY <1>0, Kinds DEF DataType, Ordered
<1>5. Fresh'
  <2> SUFFICES ASSUME NEW u \in Status
               PROVE  /\ \A b \in Backends : asked'[u][b] <= samples'[b]
                      /\ Writing(u)' => \A b \in Backends : Visited(u, b)' => asked'[u][b] <= shown'[b]
                      /\ pc'[u] = "storing" => asked'[u][target'[u]] <= got'[u]
                      /\ pc'[u] = "copying" => \A b \in Backends : asked'[u][b] <= shown'[b]
    BY DEF Fresh
  <2>1. CASE u # t
    BY <1>0, <2>1, Kinds DEF DataType, Fresh, Visited, Writing, Midway
  <2>2. CASE u = t
    <3>1. at[t] = 0
      BY <1>0, Kinds DEF Placed, Writing
    <3>2. \A b \in Backends : ~Visited(t, b)'
      BY <1>0, <3>1, Kinds DEF DataType, Visited
    <3>3. asked'[t] = samples /\ pc'[t] = "refreshing"
      BY <1>0, Kinds DEF DataType
    <3> QED BY <1>0, <2>2, <3>2, <3>3, Kinds DEF DataType
  <2> QED BY <2>1, <2>2
<1> QED BY <1>1, <1>2, <1>3, <1>4, <1>5

(* A task without a write guard has no entries left to visit; one that is  *)
(* not iterating is in no shard.                                           *)
LEMMA AtRest ==
  ASSUME Core, NEW t \in Tasks, ~Writing(t)
  PROVE  /\ left = [left EXCEPT ![t] = {}]
         /\ pc[t] \notin {"copying", "listing"} => at = [at EXCEPT ![t] = 0]
BY DEF Core, DataType, Placed

(* The steps of the runtime keep the core.                                 *)
LEMMA RuntimeKeeps ==
  ASSUME Core, NEW t \in Tasks, Begin(t) \/ Poll(t) \/ Cancel(t)
  PROVE  Core'
<1> USE DEF Core
<1>1. CASE Begin(t) /\ t \in Status
  BY <1>1, BeginStatusKeeps
<1>2. CASE Begin(t) /\ t \notin Status
  <2>1. /\ pc[t] = "idle" /\ pc' = [pc EXCEPT ![t] = "listing"] /\ asked' = asked
        /\ UNCHANGED <<at, left, target, samples, got, shown, healthy, probe, permits>>
    BY <1>2 DEF Begin, Goto, health
  <2>2. at' = [at EXCEPT ![t] = 0] /\ left' = [left EXCEPT ![t] = {}]
    BY <2>1, AtRest DEF Writing
  <2>3. \A b \in Backends : samples[b] <= samples'[b]
    BY <2>1, Kinds DEF DataType
  <2> QED BY <2>1, <2>2, <2>3, IdleKeeps DEF DataType, Places
<1>3. CASE Poll(t)
  BY <1>3, FrameKeeps DEF Poll, DataType, coreVars, metrics, health
<1>4. CASE Cancel(t)
  <2>1. /\ pc' = [pc EXCEPT ![t] = "idle"]
        /\ at' = [at EXCEPT ![t] = 0] /\ left' = [left EXCEPT ![t] = {}]
        /\ asked' = IF t \in Status THEN [asked EXCEPT ![t] = Nothing] ELSE asked
        /\ UNCHANGED <<target, samples, got, shown, healthy, probe, permits>>
    BY <1>4 DEF Cancel, health
  <2>2. \A b \in Backends : samples[b] <= samples'[b]
    BY <2>1, Kinds DEF DataType
  <2>3. Nothing \in [Backends -> 0 .. MaxSamples]
    BY Kinds DEF Nothing
  <2> QED BY <2>1, <2>2, <2>3, IdleKeeps DEF DataType, Places
<1> QED BY <1>1, <1>2, <1>3, <1>4

(* A status request's own steps keep the core.                             *)
LEMMA StatusKeeps ==
  ASSUME Core, NEW t \in Status, StatusStep(t)
  PROVE  Core'
<1> USE DEF Core
<1>1. CASE NextShard(t)
  BY <1>1, NextRefreshKeeps, NextCopyKeeps, Kinds DEF NextShard
<1>2. CASE EndCopy(t)
  <2>1. /\ pc[t] = "copying" /\ pc' = [pc EXCEPT ![t] = "idle"]
        /\ at' = [at EXCEPT ![t] = 0] /\ asked' = [asked EXCEPT ![t] = Nothing]
        /\ UNCHANGED <<left, target, samples, got, shown, healthy, probe, permits>>
    BY <1>2 DEF EndCopy, Goto, health
  <2>2. left' = [left EXCEPT ![t] = {}]
    BY <2>1, AtRest, Kinds DEF Writing
  <2>3. \A b \in Backends : samples[b] <= samples'[b]
    BY <2>1, Kinds DEF DataType
  <2>4. Nothing \in [Backends -> 0 .. MaxSamples]
    BY Kinds DEF Nothing
  <2> QED BY <2>1, <2>2, <2>3, <2>4, IdleKeeps, Kinds DEF DataType, Places
<1> QED BY <1>1, <1>2, EndRefreshKeeps, JoinLatencyKeeps, ReadLatencyKeeps,
           StoreMetricsKeeps DEF StatusStep

(* So do those of a caller; a sample more makes no request stale.          *)
LEMMA CallerKeeps ==
  ASSUME Core, NEW t \in Callers, Call(t) \/ Answer(t) \/ CallerStep(t)
  PROVE  Core'
<1> USE DEF Core
<1>1. PICK p \in {"idle", "calling", "answered", "recording"} :
        /\ pc[t] \in {"idle", "calling", "answered", "recording"}
        /\ pc' = [pc EXCEPT ![t] = p]
        /\ UNCHANGED <<at, left, got, shown, asked, healthy, probe, permits>>
  BY DEF Call, Answer, CallerStep, JoinRecord, Record, Goto, metrics, health
<1>2. at' = [at EXCEPT ![t] = 0] /\ left' = [left EXCEPT ![t] = {}]
  BY <1>1, AtRest, Kinds DEF Writing
<1>3. \/ \E b \in Backends : target' = [target EXCEPT ![t] = b]
      \/ target' = target
  BY DEF Call, Answer, CallerStep, JoinRecord, Record
<1>4. \/ samples' = samples
      \/ samples' = [samples EXCEPT ![target[t]] = IF @ < MaxSamples THEN @ + 1 ELSE @]
  BY DEF Call, Answer, CallerStep, JoinRecord, Record, metrics
<1>5. /\ samples' \in [Backends -> 0 .. MaxSamples]
      /\ \A b \in Backends : samples[b] <= samples'[b]
  <2>1. /\ samples \in [Backends -> 0 .. MaxSamples] /\ target[t] \in Backends
        /\ MaxSamples \in Nat
    BY Kinds DEF DataType
  <2>2. CASE samples' = samples
    BY <2>1, <2>2
  <2>3. CASE samples' = [samples EXCEPT ![target[t]] = IF @ < MaxSamples THEN @ + 1 ELSE @]
    <3> DEFINE old == samples[target[t]]
               new == IF old < MaxSamples THEN old + 1 ELSE old
    <3>1. old \in 0 .. MaxSamples
      BY <2>1
    <3> HIDE DEF old
    <3>2. new \in 0 .. MaxSamples /\ old <= new
      BY <2>1, <3>1
    <3>3. samples' = [samples EXCEPT ![target[t]] = new]
      BY <2>3 DEF old
    <3> HIDE DEF new
    <3>4. \A b \in Backends : samples'[b] = IF b = target[t] THEN new ELSE samples[b]
      BY <2>1, <3>3
    <3>5. \A b \in Backends : samples[b] \in Nat /\ samples[b] <= samples'[b]
      BY <2>1, <3>2, <3>4, Kinds DEF old
    <3>6. samples' \in [Backends -> 0 .. MaxSamples]
      BY <2>1, <3>2, <3>3
    <3> QED BY <3>5, <3>6
  <2> QED BY <1>4, <2>2, <2>3
<1>6. /\ target' \in [Tasks -> Backends]
      /\ \A u \in Tasks : u # t => target'[u] = target[u]
  BY <1>3, Kinds DEF DataType
<1> QED BY <1>1, <1>2, <1>5, <1>6, IdleKeeps, Kinds DEF DataType, Places

(* And those of the health check loop.                                     *)
LEMMA CheckerKeeps ==
  ASSUME Core, CheckerStep
  PROVE  Core'
<1> USE DEF Core
<1>1. CASE NextShard(Checker)
  BY <1>1, NextRefreshKeeps, NextCopyKeeps, Kinds DEF NextShard
<1>2. CASE SendProbes
  <2>1. /\ pc[Checker] = "listing" /\ pc' = [pc EXCEPT ![Checker] = "checking"]
        /\ at' = [at EXCEPT ![Checker] = 0]
        /\ probe' \in [Backends -> {"none", "sent", "ok", "err"}]
        /\ UNCHANGED <<left, target, samples, got, shown, asked, healthy, permits>>
    BY <1>2 DEF SendProbes, Goto, metrics
  <2>2. left' = [left EXCEPT ![Checker] = {}]
    BY <2>1, AtRest, Kinds DEF Writing
  <2>3. \A b \in Backends : samples[b] <= samples'[b]
    BY <2>1, Kinds DEF DataType
  <2> QED BY <2>1, <2>2, <2>3, IdleKeeps, Kinds DEF DataType, Places
<1>3. CASE JoinAll
  <2>1. PICK p \in {"idle", "checking"} : pc' = [pc EXCEPT ![Checker] = p]
    BY <1>3 DEF JoinAll
  <2>2. /\ pc[Checker] = "checking"
        /\ UNCHANGED <<at, left, target, samples, got, shown, asked, healthy, probe, permits>>
    BY <1>3 DEF JoinAll, metrics, health
  <2>3. at' = [at EXCEPT ![Checker] = 0] /\ left' = [left EXCEPT ![Checker] = {}]
    BY <2>2, AtRest, Kinds DEF Writing
  <2>4. \A b \in Backends : samples[b] <= samples'[b]
    BY <2>2, Kinds DEF DataType
  <2> QED BY <2>1, <2>2, <2>3, <2>4, IdleKeeps, Kinds DEF DataType, Places
<1>4. ASSUME NEW b \in Backends, StoreHealth(b) PROVE Core'
  BY <1>4, FrameKeeps DEF StoreHealth, DataType, coreVars, metrics
<1> QED BY <1>1, <1>2, <1>3, <1>4 DEF CheckerStep

-----------------------------------------------------------------------------
(* The invariant holds initially.                                          *)
LEMMA InitHolds == Init => IInv
<1> SUFFICES ASSUME Init PROVE IInv
  OBVIOUS
<1>1. DataType
  BY Kinds, PoolAssumption DEF Init, DataType, Places, Nothing
<1>2. Exclusive /\ Placed
  BY DEF Init, Exclusive, Placed, Writing, Midway
<1>3. Ordered /\ Fresh
  BY Kinds DEF Init, Ordered, Fresh, Writing, Nothing
<1>4. ThreadsType
  BY FS_EmptySet, PoolAssumption DEF Init, ThreadsType
<1>5. QueuesType
  BY DEF Init, QueuesType
<1> QED BY <1>1, <1>2, <1>3, <1>4, <1>5 DEF IInv, Core

(* Every step keeps the core.                                              *)
LEMMA CoreStep == Core /\ Next => Core'
<1> SUFFICES ASSUME Core, Next PROVE Core'
  OBVIOUS
<1>1. ASSUME NEW b \in Backends, AnswerProbe(b) PROVE Core'
  <2>1. probe' \in [Backends -> {"none", "sent", "ok", "err"}]
    BY <1>1 DEF AnswerProbe, Core, DataType
  <2> QED BY <1>1, <2>1, FrameKeeps DEF AnswerProbe, Core, DataType, coreVars, metrics
<1> QED BY <1>1, RuntimeKeeps, StatusKeeps, CallerKeeps, CheckerKeeps DEF Next

(* Every step takes at most one thread, and only one that is free.         *)
LEMMA ThreadsStep == ThreadsType /\ Next => ThreadsType'
<1> SUFFICES ASSUME ThreadsType, Next PROVE ThreadsType'
  OBVIOUS
<1>1. ASSUME NEW t \in Tasks, Begin(t) \/ Poll(t) \/ Cancel(t) PROVE ThreadsType'
  BY <1>1, ThreadsKeep DEF Begin, Poll, Cancel
<1>2. ASSUME NEW t \in Tasks, NEW b, Join(t, b) PROVE ThreadsType'
  BY <1>2, ThreadsKeep DEF Join, Runs, Suspends
<1>3. ASSUME NEW t \in Status, StatusStep(t) PROVE ThreadsType'
  <2>1. CASE JoinLatency(t)
    BY <1>2, <2>1, Kinds DEF JoinLatency
  <2>2. CASE ~JoinLatency(t)
    BY <1>3, <2>2, ThreadsKeep, Kinds DEF StatusStep, NextShard, EndRefresh, EndCopy,
       ReadLatency, StoreMetrics, Runs, Suspends
  <2> QED BY <2>1, <2>2
<1>4. ASSUME NEW t \in Callers, Call(t) \/ Answer(t) \/ CallerStep(t) PROVE ThreadsType'
  <2>1. CASE JoinRecord(t)
    BY <1>2, <2>1, Kinds DEF JoinRecord
  <2>2. CASE ~JoinRecord(t)
    BY <1>4, <2>2, ThreadsKeep, Kinds DEF CallerStep, Call, Answer, Record, Suspends
  <2> QED BY <2>1, <2>2
<1>5. CASE CheckerStep
  BY <1>5, ThreadsKeep, Kinds DEF CheckerStep, NextShard, SendProbes, JoinAll, StoreHealth,
     Runs, Suspends
<1>6. ASSUME NEW b \in Backends, AnswerProbe(b) PROVE ThreadsType'
  BY <1>6, ThreadsKeep DEF AnswerProbe
<1> QED BY <1>1, <1>3, <1>4, <1>5, <1>6 DEF Next

(* Every step changes the queue at one lock at most.                       *)
LEMMA QueuesStep == Core /\ QueuesType /\ Next => QueuesType'
<1> SUFFICES ASSUME Core, QueuesType, Next PROVE QueuesType'
  OBVIOUS
<1>1. \A t \in Tasks : target[t] \in Backends /\ left[t] \subseteq Backends
  BY DEF Core, DataType
<1>2. CASE latency' = latency
  BY <1>2 DEF QueuesType
<1>3. ASSUME NEW t \in Tasks, Begin(t) \/ Poll(t) \/ Cancel(t) PROVE QueuesType'
  <2>1. CASE latency' # latency
    <3>1. PICK i \in 1 .. Len(latency[target[t]]) :
            latency' = [latency EXCEPT ![target[t]] =
                          SubSeq(@, 1, i - 1) \o SubSeq(@, i + 1, Len(@))]
      BY <1>3, <2>1 DEF Begin, Poll, Cancel
    <3> QED BY <1>1, <3>1, QueuesKeep
  <2> QED BY <1>2, <2>1
<1>4. ASSUME NEW t \in Status, StatusStep(t) PROVE QueuesType'
  <2>1. CASE JoinLatency(t)
    BY <1>1, <2>1, QueuesKeep, Kinds DEF JoinLatency, Join
  <2>2. CASE ReadLatency(t)
    BY <1>1, <2>2, QueuesKeep, Kinds DEF ReadLatency, Holds
  <2> QED BY <1>2, <1>4, <2>1, <2>2
        DEF StatusStep, NextShard, EndRefresh, EndCopy, StoreMetrics
<1>5. ASSUME NEW t \in Callers, Call(t) \/ Answer(t) \/ CallerStep(t) PROVE QueuesType'
  <2>1. CASE JoinRecord(t)
    BY <1>1, <2>1, QueuesKeep, Kinds DEF JoinRecord, Join
  <2>2. CASE Record(t)
    BY <1>1, <2>2, QueuesKeep, Kinds DEF Record, Holds
  <2> QED BY <1>2, <1>5, <2>1, <2>2 DEF CallerStep, Call, Answer
<1>6. CASE CheckerStep
  BY <1>2, <1>6 DEF CheckerStep, NextShard, SendProbes, JoinAll, StoreHealth
<1>7. ASSUME NEW b \in Backends, AnswerProbe(b) PROVE QueuesType'
  BY <1>2, <1>7 DEF AnswerProbe
<1> QED BY <1>3, <1>4, <1>5, <1>6, <1>7 DEF Next

(* The invariant is kept by every step, and by a stutter.                  *)
LEMMA StepKeeps == IInv /\ [Next]_vars => IInv'
<1>1. IInv /\ Next => IInv'
  BY CoreStep, ThreadsStep, QueuesStep DEF IInv
<1>2. IInv /\ UNCHANGED vars => IInv'
  <2> SUFFICES ASSUME IInv, UNCHANGED vars PROVE IInv'
    OBVIOUS
  <2>1. Core'
    BY FrameKeeps DEF IInv, Core, DataType, vars, metrics, health, coreVars
  <2> QED BY <2>1 DEF IInv, ThreadsType, QueuesType, vars
<1> QED BY <1>1, <1>2

(* The invariant of the pool holds in every reachable state.               *)
LEMMA IInvHolds == Spec => []IInv
BY InitHolds, StepKeeps, PTL DEF Spec

-----------------------------------------------------------------------------
(* Every variable of the pool keeps its type, and no more tasks run than   *)
(* there are threads.                                                      *)
THEOREM TypeCorrect == Spec => []TypeOK
<1>1. IInv => TypeOK
  BY DEF IInv, Core, DataType, Ordered, ThreadsType, QueuesType, TypeOK
<1> QED BY <1>1, IInvHolds, PTL

(* However many status requests refresh the pool at once, each is answered *)
(* with latencies that count every sample recorded before it came.         *)
THEOREM StatusIsFreshHolds == Spec => []StatusIsFresh
<1>1. IInv => StatusIsFresh
  <2> SUFFICES ASSUME IInv, NEW t \in Status, pc[t] = "copying", NEW b \in Backends
               PROVE  shown[b] >= asked[t][b]
    BY DEF StatusIsFresh
  <2>1. shown[b] \in Nat /\ asked[t][b] \in Nat /\ asked[t][b] <= shown[b]
    BY Kinds DEF IInv, Core, DataType, Fresh
  <2> QED BY <2>1
<1> QED BY <1>1, IInvHolds, PTL

(* Of two status requests, the one that read a latency first never stores  *)
(* it last: what is shown is never replaced by an older latency.           *)
THEOREM LatencyGoesForwardHolds == Spec => LatencyGoesForward
<1> DEFINE Forward == \A b \in Backends : shown'[b] >= shown[b]
<1>1. ASSUME IInv, NEW t \in Status, StoreMetrics(t) PROVE Forward
  <2>1. /\ target[t] \in Backends /\ shown[target[t]] \in Nat /\ got[t] \in Nat
        /\ shown[target[t]] <= got[t]
    BY <1>1, Kinds DEF IInv, Core, DataType, Ordered, StoreMetrics, Goto
  <2>2. /\ shown \in [Backends -> 0 .. MaxSamples]
        /\ shown' = [shown EXCEPT ![target[t]] = got[t]]
    BY <1>1 DEF IInv, Core, DataType, StoreMetrics
  <2> QED BY <2>1, <2>2, Kinds
<1>2. ASSUME Next, \A t \in Status : ~StoreMetrics(t) PROVE UNCHANGED shown
  BY <1>2 DEF Next, StatusStep, CallerStep, CheckerStep, Begin, Poll, Cancel, NextShard,
     EndRefresh, EndCopy, JoinLatency, ReadLatency, Call, Answer, JoinRecord, Record,
     SendProbes, JoinAll, StoreHealth, AnswerProbe, metrics
<1>3. IInv /\ [Next]_vars => [Forward]_shown
  BY <1>1, <1>2 DEF vars, metrics
<1> QED BY <1>3, IInvHolds, PTL DEF Spec, LatencyGoesForward

=============================================================================

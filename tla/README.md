# A verification project for token-router

token-router is an HTTP server in Rust (axum on Tokio) that speaks the OpenAI
chat API and hands each request to one of several inference backends.  This
directory holds TLA+ modules that model its core, configurations that
model-check them with TLC on small instances, and proofs checked by TLAPS that
hold for every value of the constants.  Source positions below are relative to
`src/` of the repository (`client.rs` is `src/backend/client.rs`, `mod.rs` is
`src/backend/mod.rs`, `npu-server.rs` is `src/bin/npu-server.rs`).

Contents: 1 the system; 2 modules and the code; 3 runs; 4 fairness; 5 proofs;
6 disagreements between code and documents; 7 what is not modelled; 8 plan.

## 1. The system

| Part | State | Operations | Talks to |
|---|---|---|---|
| circuit breaker (`client.rs` 26-80, 148-180) | failure count (atomic), time of the last failure (async lock), open flag (atomic) | `allow_request`, `record_success`, `record_failure`, `request_with_circuit` | every call of a backend; the status poll |
| latency tracker (`client.rs` 82-107) | moving average under an async lock | `record`, `current` | successful calls write, status requests read |
| backend pool (`mod.rs`) | a DashMap of backend states (health, latency, circuit, counters) and one of clients | `client`, `backend_ids`, `all_states`, `refresh_metrics`, `health_check`, `health_check_all` | status and metrics requests; the health check loop of `run_server` |
| concurrency permits (`mod.rs` 115-152) | a semaphore and a counter per backend | `acquire_permit`, `try_acquire_permit`, `release_permit` | nobody: no handler uses them |
| chat completion (`handlers.rs` 304-614) | none between requests | `chat_completion`, `proxy_single`, `proxy_request`, `cascade_nonstreaming` | strategies, pool, clients, the cascade |
| strategies and configuration (`strategy/`, `config.rs`) | constant after start | `build_strategy`, `validate_config`, `route` | chat completion |
| cascade (`cascade.rs`, `stream.rs` 51-82) | one task per session: event buffer, text so far, window of log-probabilities; a bounded channel to the client | `run_cascade`, `start_gpu`, `forward_gpu` | two clients; the response body |
| KV handoff (`kv_cache.rs`) | none | `export`, `import`, `handoff` | called by a cascade session between NPU and GPU |
| other endpoints (`handlers.rs` 143-173, 617-667) | none | `list_models`, `completions` | clients |
| server lifecycle (`main.rs`, `handlers.rs` 801-884) | signal handlers, listener, open connections | start, health check loop, signals, graceful shutdown | everything |
| NPU engine server (`bin/npu-server.rs`) | a tokenizer, an engine semaphore | `load`, `encode`, `decode`, `infer`, a chat endpoint of its own that runs an inference process per request | is a backend of the router, over HTTP |

What is hard in it, and what makes each part correct:

- **Circuit breaker.** Three pieces of state under three disciplines, read and
  written by many tasks without one lock around them.  It is correct if it
  opens after a full streak of failures and only then, if an open circuit always
  has a failure time to cool down from, if it lets requests through again, and
  if it stays closed once the backend has recovered.
- **Cascade.** Two streams cut into chunks by the network are joined into one
  on the way to a client that may be slow or leave.  It is correct if it
  switches at the first uncertain token, if the GPU is given exactly the text
  so far, if the client sees each piece once and in order with one end marker,
  and if the session ends.
- **Pool.** A lock that blocks the thread is held while another that suspends
  the task is awaited.  It is correct if nobody waits for ever, if what is
  shown is fresh and does not go back, and if health follows the checks.
- **Chat completion.** Two or three calls, each of which may fail, with a
  fallback for most failures.  It is correct if an answer at hand is given
  rather than an error, under the name of the backend it came from, if no
  backend is asked twice, and if an unsure answer is followed by a second one.
- **NPU engine server.**  A request is a future that is dropped when its client
  leaves: in the queue, with a permit it has not used yet, or while its engine,
  which nobody kills, goes on.  It is correct if permits are neither lost nor
  given twice, if nobody waits for ever, and if the answer is what the request's
  own engine generated after a prompt that may have been cut off.
- **Lifecycle.**  A shutdown waits for requests that may hang on an engine.  It
  is correct if it breaks no connection and yet ends.
- **Other endpoints.**  The list of models is made of one call after another,
  each of which may fail; it must have the models of all that answered.

## 2. Modules and the code

| Module | Models | Notes |
|---|---|---|
| `CircuitBreaker` | the breaker and the tasks that run `request_with_circuit` | each atomic access and each lock acquisition is a step |
| `BreakerHistory` | the same with history variables | remembers streaks, the failure behind each opening, and half-open probes for two properties |
| `Cascade` | one streaming session, its channel and its client, the KV handoff | the NPU's answer is a sequence of events cut into halves; a chunk is a range of halves |
| `ClientStream` | what a session promises its client | abstract; `Cascade` implements it by `Client == INSTANCE ClientStream WITH ...`.  Its theorems are in the module |
| `BackendPool` | pool, latency trackers, health checks, worker threads | which guard a task holds follows from its place (`WriteGuards`, `ReadGuards`) |
| `PoolPermits` | `BackendPool` with tasks that ask for permits | extends it by three actions |
| `ChatCompletion` | one request under any configuration | strategies as functions of configuration and request |
| `Tokenizer` | the tokenizer and the chat template of npu-server | functions; no state |
| `NpuServer` | requests, semaphore and engines of npu-server | a specification of its own (`NpuSpec`) |
| `Deployment` | the router's process, its clients and the other endpoints, in front of an npu-server | extends `NpuServer`; `Spec` implements `NpuSpec` |
| `MCBreaker`, `MCCascade`, `MCPool`, `MCChat`, `MCDeployment` | - | values of constants for TLC |
| `DataInduction` | - | induction over numbers and finite sets, and what follows from it for recursive functions; theorems without a system |
| `CircuitBreaker_proofs`, `Cascade_proofs`, `BackendPool_proofs`, `ChatCompletion_proofs`, `NpuServer_proofs`, `Deployment_proofs` | - | theorems (section 5) |

How they fit together.  A request of `ChatCompletion` that takes the streaming
cascade becomes a session of `Cascade`; each of its calls is a request of
`CircuitBreaker`, and the latency of those that succeed is recorded by a caller
of `BackendPool`.  They are checked apart: the interface between them is the
outcome of a call.  What `CircuitBreaker` shows of it (a call ends in `Ok`, in
`Err`, or in a panic that drops the task) is what `ChatCompletion` (`Outcomes`)
and `Cascade` (`CallsPanic`) take as given.  `Deployment` composes the two
programs: a chat request of the router is the request of the same name at
npu-server, and what the handlers do in between is left to the models above.

**CircuitBreaker.**  `consecutive_failures`, `last_failure_time` and `is_open`
are the fields of the struct; `pc` is where each task is between two accesses,
`tally` and `stamp` what it holds in its hands (the result of `fetch_add`, the
instant read).  `AdmitClosed`, `SeeOpen`, `CheckCooldown` and `HalfOpen` are
`allow_request`; `AnswerOk` and `Close` are `record_success`; `AnswerErr`,
`ReadClock`, `StoreFailureTime` and `Open` are `record_failure`; `Cancel` is the
future being dropped at the await.  Times are ages, as the code compares them
with the cooldown and nothing else; `Tick` lets all instants age.  The
constant `OnRuntime` names the tasks that run on the runtime's own threads:
there Tokio's `blocking_read` and `blocking_write` panic (`BlockingPanic`,
`TearDown`).  The server runs every request like this, so there the circuit
never opens; the theorem `NeverOpensOnRuntimeHolds` says so.  A program that
calls the crate from threads of its own has the breaker the code describes, and
the passing run is about that one.

**Cascade.**  `phase` is where `run_cascade` is; `received`, `chunk` and `npu`
stand for `sse_buf`; `accumulated` and `recent_logprobs` are the code's
variables; `sent`, `taken` and `connected` are the channel.  `ParseEvent` is the
body of the event loop, `ForwardChunk` the send of the chunk after it, `KvExport`
and `KvImport` the two calls of the handoff, `StartGpu`, `GpuEvent`,
`ForwardGpu` and `SendGpuDone` the GPU's part; `Take` and `Leave` are the
client.  An error before the GPU's part (the NPU's stream breaks, the GPU cannot
be started, a call panics) leads to the phase "broken", from which `Abandon`
drops the sender without a marker.  `ClientStream` tells the two ends of the
NPU's part apart ("complete" and "broken"): a marker comes after a complete
answer only.  The server itself gives no backend ids, so it never tries a KV handoff
(`KvIds = FALSE`); a user of the crate may.

**BackendPool.**  A status task goes through `refreshing` (iterating over the
map with `iter_mut`), `reading` (queued at a latency lock), `storing` and
`copying` (`all_states`); a caller through `calling`, `answered` and
`recording`; the checker through `listing` (`backend_ids`) and `checking`
(`join_all`).  `running` is the set of tasks that hold a worker thread: a task
that waits for a shard keeps its thread, a task that waits for a latency lock or
an answer gives it back and needs a thread again to go on (`Poll`).  The latency
lock lets readers share it; as the shard's guard admits one refresher at a time
there are never two readers, and a queue is enough.  A latency is told by how
many samples it averages.  `Cancel` drops the future of a request.
The variables' initial values are those at which the server begins to serve,
after the first health checks.

**ChatCompletion.**  `config` is any configuration, `strategy` what
`build_strategy` makes of it.  `RouteSingle`, `RouteStream` and `RoutePlain` are
the three branches of `chat_completion`; `NpuAnswers`, `NpuFails`, `GpuAnswers`
and `GpuFails` the four exits of `cascade_nonstreaming`; `ProxyAnswers` and
`ProxyFails` are `proxy_request`.  `sure` is the result of `check_logprobs`,
chosen freely.  A request whose body is JSON but no object panics in the plain
cascade, which sets fields of it, and is dropped; only `null` becomes an object
there (`handlers.rs` 477).

**Tokenizer, NpuServer.**  A character is a value, and so is the name of a role
or a marker such as `<|im_start|>`; a text is a sequence of them.  `Load` is
`Tokenizer::load` (an added token replaces an entry of the vocabulary with its
text or its id; `Narrow` is the conversion of ids to u32, with `IdCount` for
2^32), `Encode` the longest-match loop, `Decode` and `Prompt` their
namesakes.  `phase` is where a request's handler is: `queued` and `granted` are
the two sides of `sem.acquire().await`, `running` is the await of the engine's
output, `done` is after it.  `engine` tells whether the process runs; it may
outlive its request, because the future's drop does not kill it.  `Cancel` is
that drop.  `EngineExits` takes any sequence of ids that `Prints` allows: the
code takes every integer on the process's output, and looks neither at its exit
status nor at the echo of the input that it counts on.

**Deployment.**  `server` is where `run_server` is (first health checks, serving,
signalled, draining, returned) or how the process ended; `armed` tells whether
the signal handlers are installed, which happens when axum first polls
`shutdown_signal`.  `conn`, `kind` and `caller` are a client's connection, what
it asked for, and whether the router still waits for npu-server on its behalf.
A connection waits in the listener's backlog until it is accepted, and is reset
there when the listener is dropped.  `Ask` is the head of a request, `Receive`
the end of its body, for which the extractor of a POST handler waits without a
limit (`handlers.rs` 304-307, 617-620).  A call that fails panics, as
`breaker_runtime` shows, so its connection is dropped (`AfterError`).
`Leave` drops a handler that waits, with its call, but not the task of a
cascade.  `CallModels` is one round of `list_models`, `CallCompletion` is
`completions`.  Each client asks once.

Operators whose comment begins "Mutant of" are the plausible bugs the
properties were tried against: with each put in the place of the definition it
names, TLC finds the property violated (`PROJECT.json`, "mutants").

## 3. Runs

`tlc -workers 2 -config <cfg> <MC module>`; times are for two workers.

| Run | Module, cfg | Result | What it shows |
|---|---|---|---|
| breaker | `MCBreaker`, `Breaker.cfg` | passes | two callers on threads of their own and a poll on the runtime: types, an open circuit has a failure time, no spurious opening, never wedged, opens at the threshold, recovers |
| breaker_runtime | `MCBreaker`, `Breaker_runtime.cfg` | violation of `OpensAfterThreshold` | on the runtime the failure that reaches the threshold opens nothing |
| breaker_probe | `MCBreaker`, `Breaker_probe.cfg` | violation of `SingleProbe` | two requests in flight to a half-open circuit |
| cascade | `MCCascade`, `Cascade.cfg` | passes (819 000 states, 2 min) | aligned chunks and any framing, KV handoff, failures: implements `ClientStream`, order, the switch, the GPU's context, the session ends; for aligned chunks delivery and no duplicates |
| cascade_seamless | `MCCascade`, `Cascade_seamless.cfg` | violation of `SeamlessHandoff` | the token at which the session switches is never sent to the client |
| cascade_split | `MCCascade`, `Cascade_split.cfg` | violation of `NpuDataDelivered` | an event cut in two reaches the client without its first half |
| pool | `MCPool`, `Pool.cfg` | passes (51 000 states, 1 min) | two status requests, a caller and the checker on three threads: fresh and monotone latencies, progress |
| pool_health | `MCPool`, `Pool_health.cfg` | passes (49 000 states, 30 s) | two backends in shards of their own, whose checks end one after the other: progress, the health of each follows its checks whatever the other does |
| pool_starved | `MCPool`, `Pool_starved.cfg` | violation of `ServerProgress` | the same on two threads stands still |
| pool_try | `MCPool`, `Pool_try.cfg` | violation of `TryAnswers` | a task that gets a permit blocks itself |
| chat | `MCChat`, `Chat.cfg` | passes (191 000 states) | every request under every configuration of three backends: labels, fallbacks |
| deployment | `MCDeployment`, `Deployment.cfg` | passes (310 000 states, 2 min) | clients of the router in front of an npu-server with one permit, from start to shutdown: permits, queue and engines, prompts and answers; lists of models, no accepted connection broken, the shutdown ends, nobody waits for ever |

Bounds, and why they are enough:

- *Breaker*: two callers are the fewest whose steps interleave, and the poll is
  a third party that writes the open flag; the threshold is 2 so that there are
  failures below it and at it; the counter saturates there and ages at `MaxAge`,
  one more than the cooldown, which the code cannot tell from larger values.
- *Cascade*: a window of 2, and answers of up to four events, so that
  log-probabilities fall out of the window and events without one come between;
  three chunk sizes in halves of events (part of one, one, one and a half), so
  that events are split and coalesced; a channel of one slot, so that every
  second send must wait.  The longest answers come in aligned chunks; with any
  framing they are one event shorter.
- *Pool*: two refreshers race; the caller takes the latency lock from them; the
  checker needs the shard.  There is one backend in the last of two shards, so
  iterators pass through an empty shard and move between shards.  One sample
  suffices to tell old from new.  There are as many threads as tasks that touch
  the map (both status tasks and the checker), which is what the run assumes and
  `pool_starved` shows to be needed.  `pool_health` has two backends instead of
  two refreshers, so that a check may be slow, or its result stored, while the
  other is under way; the latencies do not matter there and no sample is counted.
- *Chat*: three ids, so that small, large and a third, "gpu", may be the same or
  not; all subsets of them are configured; one model in the table and one not.
- *Deployment*: one permit and three clients, so that two wait in line and the
  order of the queue matters; one client streams, one sends chats, lists or
  completions, one sends chats.  A prompt of which four tokens are kept, where the
  streaming client's is longer and the others' is not; a token of two characters among
  those kept, with a longest match of two, before a character that is unknown and
  one of its own characters again (so that going on inside a match shows); an
  added token over an entry of the vocabulary, an id of more bits than there are
  (`IdCount` is 256 in the run), and a tokenizer file that knows nothing.  The
  streaming client asks for three tokens of which it gets one, as `MaxTokens` is,
  the others for none.  An engine prints its input and up to one token more than it
  was asked for; the streaming client's may also die in its input, or print as many
  ids that are not its input; ids are tokens, or one that is none.  Two backends are
  in the pool, the npu-server first.

`CHECK_DEADLOCK FALSE` appears where the system stops by design: a session
ends, a request is answered; in the pool no request need come.  There the progress
properties say what must not stop.

## 4. Fairness

- *Breaker*: threads run (weak fairness of each task's steps), time passes, a
  call is answered because the HTTP client has a timeout of 600 s on each
  (`client.rs` 224), and for `NeverWedged` requests keep coming.
- *Cascade*: the task and the backends take their steps (again the timeout ends
  silence), and a client that stays reads.  A client that neither reads nor
  leaves holds the session for ever; the code has no remedy and the property
  does not claim one.
- *Pool*: the runtime polls a task that is awake and threads run.  This is strong
  fairness, for two reasons: a task that wakes up may find all threads taken
  again and again, and a shard's lock may be taken by others each time it is
  freed.  Tokio's run queues and the shard lock's parking are both fair in this
  sense.  The timeouts (5 s for a health check, 600 s for a call) give the
  fairness of `Answer` and `AnswerProbe`.  Nothing makes requests come or
  clients leave.
- *Chat* states only safety; a request's handler has no loop.
- *Deployment*: both programs take their steps; a health check ends by its
  timeout of 5 s and a call by that of 600 s (`client.rs` 123, 185, 224, 265);
  hyper sees that a connection is closed.  Of the clients it is assumed that one
  that has begun a request sends the rest of its body or leaves, and that one
  that stays reads: the router sets no limit to either, so a client that stops
  in the middle of its body would hold up a shutdown for ever.  No engine need
  exit, no client come, ask or leave, and no signal be sent: a shutdown ends
  because calls are timed out, not because engines are good.

## 5. Proofs

`tlapm <module>.tla`.  All rest on the constants' named assumptions only
(`BreakerAssumption`, `CascadeAssumption`, `PoolAssumption`, `ChatAssumption`,
`TokenizerAssumption`, `NpuAssumption`, `DeploymentAssumption`).

- `CircuitBreaker_proofs`: `TypeCorrect`; `OpenHasFailureTimeHolds`, from the
  invariant that a task about to open the circuit has stored its instant and
  nothing unsets it; `NeverOpensOnRuntimeHolds`, from the invariant that on the
  runtime no task gets past the lock; `NoSpuriousOpenHolds`, of
  `BreakerHistory`.  The inductive invariant of the last relates counter,
  tallies and streak: the counter is exactly the current streak of failures,
  because the store of 0 is one step with the end of the streak; so the tally in
  a task's hands is the streak that its own failure was the last of, and only a
  task whose tally reached the threshold gets to the opening store.  The circuit
  may open after a success that was answered since: the invariant says on which
  failures it opened, not that they are still the last word.
- `DataInduction`: what the proofs about recursive definitions rest on.  The
  library's induction theorems take an operator, which the provers cannot
  instantiate; here induction is stated for a *set*, of numbers (`CountingUp`) or
  of subsets of a finite set (`SubsetsUp`), and derived from the library's
  theorem that `<` on the naturals is well-founded.  From it: a recursive
  function on `0 .. n` exists (`StepByStep`) and stays in its type (`StaysIn`);
  bounded sets have a largest element; and the sum of the community modules,
  which picks elements in an order of its own, does not depend on that order
  (`SumsOrder`) and is the same after renaming (`SumRenamed`).
- `ClientStream`: `StreamInOrderHolds` for the abstract stream: what the source
  says of the pieces so far makes shape and order inductive.
- `Cascade_proofs`: `TypeCorrect` (the sliding window never outgrows its size);
  `KeepsClientPromiseHolds`, the refinement: the initial state maps to the
  initial state and each action to a step of `ClientStream` or a stutter, under
  an invariant on how far the NPU's answer has been forwarded (a session that
  ends without a marker is one whose stream broke);
  `StreamInOrderHolds`, which carries the abstract theorem over;
  `HandoffContextCompleteHolds`, from the invariant that the text so far lists
  the positions of the NPU's tokens, each once and in order;
  `AlignedDataDeliveredHolds` and `AlignedDataOnceHolds`, from the invariant
  that a chunk of one event lies behind everything parsed and sent before it;
  `SwitchesAtFirstLowHolds`.  For the last, the window is the last `Window` of
  the log-probabilities at every place of the answer (`WindowInv`), and the sum
  over it, which the code takes in order of the window, is the sum over the
  positions of the answer (`SumRenamed`); so that what is low at an event stays
  so and no event before the switch was.
- `BackendPool_proofs`: `TypeCorrect`; `StatusIsFreshHolds`;
  `LatencyGoesForwardHolds`.  The invariant has four parts: one task at a time
  is in a shard with a write guard (`Exclusive`); an iterator between reading
  and storing is in the shard of its entry (`Placed`); shown <= read <= recorded
  (`Ordered`); the entries a request has visited are as new as the request
  (`Fresh`).  `Ordered` survives the step that stores only because of the first
  two: no other task has read the same entry meanwhile.
- `ChatCompletion_proofs`: `TypeCorrect`; `LabelTruthfulHolds`;
  `GoodAnswerNotWastedHolds`.  The invariant adds what each place of the handler
  says of the calls made so far: at "gpu" the NPU has answered, at "proxy"
  nobody has; it speaks of requests none of whose calls panicked; what a
  panic costs is told in section 6.  `NoBackendTwiceHolds` and
  `UnsureGoesToGpuHolds` (of an NPU that is unsure or fails) add which
  backends the calls were for, and that a request proxied to the small backend
  is one whose large backend is not configured.
- `NpuServer_proofs`: `NpuTypeCorrect`, `PermitsConservedHolds`,
  `WaitersInQueueHolds`, `EnginesBoundedHolds`.  The four are inductive together
  with the queue told by positions (`QueueInv`): a permit that is dropped goes
  to the head of the queue, which holds none, so the number of holders stays;
  and a request that is dropped while it waits is in the queue exactly once.
  `AnswerContinuesPromptHolds` and `KnownTextSurvivesHolds`, from the invariant
  `JobInv`: an engine's input is the encoded prompt of its own request, cut off,
  and its output is a sequence of ids.  The first holds for every such output: if
  it begins with the input, the answer is the text of the rest, without the first
  token of it in a stream; if it is no longer than the input there is no answer.
  Of an output that is longer and begins with something else the code takes the
  rest all the same, and the theorem says nothing.  For the second the tokenizer is proved to keep what it knows: `encode` and `decode` are
  the recursions they are written as (`EncodingSays`, `DecodingSays`); what is
  known up to a place, followed by the text of any number of ids from there on,
  is what is known up to another (`EncodedIsKnown`, backwards over the places of
  the text); and `load` makes a tokenizer that agrees with itself (`LoadSays`).
  That needs a hypothesis on the file, `IdsAreOwn`: ids belong to one token
  each, or to the added token that replaces it.  The code does not check it, and
  without it `decode` need not undo `encode`; the tokenizer files of the run
  satisfy it (`MCFilesAreProper`).
- `Deployment_proofs`: `NpuStandsAlone` (every step of the deployment is a step
  of `NpuSpec` or leaves npu-server alone) and with it the theorems of
  `NpuServer_proofs` in the deployment (`NpuControlHolds`, `NpuAnswersHold`);
  `TypeCorrect`;
  `ShutdownCutsNothingHolds` and `ModelsCompleteHolds`, from the invariant that
  what is cut was cut by a signal before the handlers, and that a list under way
  has the models of those that answered so far.

Model-checked only: all liveness (`NeverWedged`, `OpensAfterThreshold`,
`Recovers`, `SessionEnds`, `ServerProgress`, `HealthConverges`, `DrainEnds`,
`WaitingEnds`), which the prover does not reach.  Every invariant and every
action property that a passing run checks is also proved.

## 6. Disagreements between code and documents

With a run (`PROJECT.json`, "findings"):

- `breaker_runtime`: `record_failure` panics on a runtime thread before it opens
  the circuit.  The failing request's task dies, and the fallbacks for a call
  that returns `Err` (`handlers.rs` 507, 525; `cascade.rs` 151) are not reached.
- `breaker_probe`: half-open is a store to the flag, so that more than one request
  probes.
- `cascade_seamless`: the token that triggers the switch is missing in what the
  client sees.
- `cascade_split`: an event split over chunks is forwarded in part.
- `pool_starved`: `refresh_metrics` holds a blocking guard over an await.
- `pool_try`: the permit functions ask for the write lock under their own read
  guard.

Noticed in reading, without a run of their own:

- When the GPU's call fails, `handlers.rs` 507-514 would return the NPU's answer,
  as the warning in line 508 says ("GPU fallback failed: {}. Returning NPU
  result."); but on the server the call panics in `record_failure`
  (`breaker_runtime`), and the request is dropped with the NPU's answer.
  `GoodAnswerNotWasted` speaks of requests none of whose calls panicked, and
  says so.
- `validate_config` looks at the `default_backend` of a performance strategy only
  (`handlers.rs` 278), which may route to `force_backend` or to a backend of its
  table, configured or not, where the request is refused; `handlers.rs` 240:
  "check that strategies reference valid backends".
- A `[DONE]` of the NPU that comes in one chunk with other events is forwarded
  with them, so that a client may see it as well as the router's own marker
  (`cascade.rs` 178); `StreamInOrder` counts the router's marker only.
- A chunk with two events is forwarded once for each of them in the unaligned
  case (`cascade.rs` 178).
- The handoff always sends the text, also after a KV import that worked
  (`cascade.rs` 26-28 against 168); a KV call that fails on the runtime ends the
  session (`kv_cache.rs` 15-16), which is the panic of `breaker_runtime` again.
- `total_tokens` is always 0, so `min_context_for_large` and `max_small_tokens`
  do nothing (but for a limit of 0); `CascadeStrategy::route` is never called.
- No permit is ever taken, so `max_concurrent` limits nothing; `healthy` routes
  nothing; `cascade_switches` is never incremented.
- An HTTP error with a JSON body counts as a success: it passes the confidence
  check and is answered with 200; a health check takes it as healthy.
- When the NPU is unsure and no GPU is configured the answer has no
  `x-route-backend` (`handlers.rs` 491-496).
- A stream of npu-server carries the role in the place of the first token's
  text, which is lost (`npu-server.rs` 310); a plain answer has it.
- npu-server does not look at the engine's exit status: what a crashed engine
  had printed is answered with `finish_reason` "stop".  `max_tokens` 0 is
  answered with 500.  An engine whose request was dropped goes on without a
  permit (`EnginesBounded` counts it apart).
- npu-server sends no log-probabilities, so a streaming cascade never leaves it
  for the GPU, and one that is not streamed takes every answer of it as sure
  (`handlers.rs` 533-550); its errors are plain text, which a stream passes
  over as if the answer were empty.
- Characters that are no token, such as spaces in a vocabulary that writes them
  otherwise, are dropped from the prompt (`npu-server.rs` 99-105).
- `completions` asks the first backend of the pool, whatever its circuit and
  health (`handlers.rs` 634: "first available backend").
- Connections that wait in the listener's backlog when it is dropped are reset,
  with what their clients have sent (`handlers.rs` 852).
- A client that sends only a part of its body holds its handler, and a graceful
  shutdown, as long as it likes (`handlers.rs` 304-307).
- A signal before axum polls `shutdown_signal` kills the process at once; a
  second one during the shutdown does nothing.
- The cooldown is constant, `client.rs` 6-7 speaks of exponential backoff.

## 7. What is not modelled, and why

- Texts of the router: keywords, model patterns, JSON and SSE formatting.  Only what
  is decided from them is modelled (hard or not, in the table or not, data,
  comment or end marker, token or none).
- `Context`, `ProxyStream`, `build_sse_chunk`: not reached from the server.
- Reading the configuration file and its defaults (`config.rs`): data.
- The inside of an engine process: it prints ids and exits, or hangs.
- What is axum's, hyper's and Tokio's own, except as the code uses it.
- In `Deployment`: the pool's locks and the breakers, which have models of their
  own; a client asks once, so that connections that are kept alive end when the
  shutdown closes them; an empty pool, where lists are empty and completions
  are refused.
- Two requests in one model of chat completion: requests share nothing but the
  breakers and the pool, which have models of their own with many tasks.
- HTTP status codes of backends: the code does not look at them, but for
  copying the status of a proxied stream (`"upstream"`).

## 8. Plan

Order: what every call goes through first, then what the crate is named for,
then what is around it.

1. (done) `CircuitBreaker`, `BreakerHistory`; types and safety proved.
2. (done) `ClientStream`, `Cascade`; refinement checked and proved.
3. (done) `BackendPool`, `PoolPermits`; `ChatCompletion`; types and main safety
   properties of both proved.
4. (done) `Tokenizer`, `NpuServer`, `Deployment`: engine semaphore, orphaned processes, prompts and answers, start and shutdown, the other endpoints;
   control proved, and that npu-server behind the router is npu-server alone.
5. (done) `HandoffContextComplete`, delivery of aligned data, `NoBackendTwice`
   and `UnsureGoesToGpu` proved.
   (done) `SwitchesAtFirstLow`, `AnswerContinuesPrompt`, `KnownTextSurvives`
   proved, with the induction over data they need.
6. Left: exclusion of readers and writers of a shard as an invariant of its own;
   an abstract specification of the breaker (closed, open, half-open) for the
   steps off the runtime; in `Deployment`, several requests on one connection
   and the breaker between router and npu-server.

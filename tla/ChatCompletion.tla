--------------------------- MODULE ChatCompletion ---------------------------
(***************************************************************************)
(* One request for a chat completion (src/handlers.rs, chat_completion and *)
(* what it calls), from its arrival to the response, under any             *)
(* configuration: the routing strategy picks a backend or the cascade, a   *)
(* backend may be missing, and every call may go wrong.                    *)
(*                                                                         *)
(* A call ends in "ok", also when the backend answers with an HTTP error;  *)
(* in "err", when the client returns Err; or in "panic", when recording    *)
(* the failure panics, as it does on the server's own threads (see         *)
(* CircuitBreaker), and the request's task is dropped.                     *)
(***************************************************************************)
EXTENDS Naturals, Sequences

CONSTANTS
  Ids,       \* ids a backend may be configured under, or a strategy may name
  NoId,      \* the empty id, under which no backend is configured
  Gpu,       \* the id "gpu", built into cascade_nonstreaming
  NpuNamed,  \* ids that contain "npu"
  GpuNamed,  \* ids that contain "gpu"
  Models,    \* model names a request may hint at
  Table,     \* PERFORMANCE_TABLE: what it has for each model, if anything
  Configs,   \* the configurations considered
  Outcomes   \* how a call may end

Optional(S) == {<<>>} \cup {<<x>> : x \in S}

(* StrategyConfig, as far as routing looks at it.                          *)
StrategyConfigs ==
  [type : {"passthrough"}, backend : Ids]
    \cup [type : {"cascade", "content_router"}, small_backend : Ids, large_backend : Ids]
    \cup [type : {"performance"}, default_backend : Ids, force_backend : Optional(Ids)]
    \cup [type : {"spec_decode"}, draft_backend : Ids, target_backend : Ids]

(* A configuration: the backends, the strategy that default_strategy names *)
(* if there is one of that name, and the one named "cascade" if there is.  *)
AllConfigs ==
  [backends : SUBSET Ids, default : Optional(StrategyConfigs),
   cascade : Optional(StrategyConfigs)]

(* A request.  Its body is no JSON, or a JSON object, or other JSON, which *)
(* has no fields to read; of that, null becomes an object as soon as a     *)
(* field is set in it, and anything else panics.  A request is hard        *)
(* for the content router if a keyword is in the last user message, or if  *)
(* the messages exceed 800 bytes.                                          *)
Requests ==
  [body : {"object"}, stream : BOOLEAN, hint : Optional(Models), hard : BOOLEAN]
    \cup [body : {"null", "other", "not_json"}, stream : {FALSE}, hint : {<<>>}, hard : {FALSE}]

ASSUME ChatAssumption ==
  /\ NoId \notin Ids /\ Gpu \in Ids
  /\ "router" \notin Ids /\ "cascade" \notin Ids \* who answers, if no backend
  /\ Table \in [Models -> Optional(Ids)]
  /\ Configs \subseteq AllConfigs
  /\ Outcomes \subseteq {"ok", "err", "panic"}

VARIABLES
  config,    \* Config
  strategy,  \* the strategy built from it
  request,   \* the request
  pc,        \* where its handler is
  target,    \* the backend it calls
  label,     \* the backend x-route-backend will name
  calls,     \* the calls it made, and how they ended
  sure,      \* were all tokens of the NPU's answer above the threshold?
  response   \* what it answers

vars == <<config, strategy, request, pc, target, label, calls, sure, response>>

Places == {"arrived", "npu", "gpu", "proxy", "answered", "dropped"}
Response(status, from, named) == [status |-> status, from |-> from, label |-> named]
Responses ==
  [status : {"ok", "upstream", "bad_request", "bad_gateway"},
   from : Ids \cup {"router", "cascade"}, label : Optional(Ids \cup {"cascade"})]

Configured(id) == id \in config.backends

(* build_strategy: without the strategy named, any backend of the map.     *)
Built(c) ==
  IF c.default # <<>> THEN {c.default[1]}
  ELSE [type : {"passthrough"}, backend : IF c.backends = {} THEN Ids ELSE c.backends]

Init ==
  /\ config \in Configs
  /\ strategy \in Built(config)
  /\ request \in Requests
  /\ pc = "arrived"
  /\ target = NoId
  /\ label = NoId
  /\ calls = <<>>
  /\ sure = FALSE
  /\ response = <<>>

-----------------------------------------------------------------------------
(* Routing                                                                 *)

(* resolve_backend of PerformanceStrategy.                                 *)
Resolved(s, model) ==
  IF s.force_backend # <<>> THEN s.force_backend[1]
  ELSE IF Table[model] # <<>> THEN Table[model][1]
  ELSE s.default_backend

PerformanceRoute(s, r) ==
  IF r.hint = <<>> THEN s.default_backend ELSE Resolved(s, r.hint[1])

ContentRoute(s, r) == IF r.hard THEN s.large_backend ELSE s.small_backend

(* The backend the strategy decides for; of a speculative decision only    *)
(* the target is used.                                                     *)
Route(s, r) ==
  CASE s.type = "passthrough" -> s.backend
    [] s.type = "content_router" -> ContentRoute(s, r)
    [] s.type = "performance" -> PerformanceRoute(s, r)
    [] s.type = "spec_decode" -> s.target_backend

Answer(status, from, named) ==
  /\ pc' = "answered"
  /\ response' = <<Response(status, from, named)>>

(* Mutant of Proxy: the backend is taken to be there.                      *)
ProxyUnchecked(id) == pc' = "proxy" /\ target' = id /\ label' = id /\ UNCHANGED response

(* proxy_request on the client of a backend, if there is one.              *)
Proxy(id) ==
  IF Configured(id)
  THEN pc' = "proxy" /\ target' = id /\ label' = id /\ UNCHANGED response
  ELSE Answer("bad_gateway", "router", <<>>) /\ UNCHANGED <<target, label>>

Reject ==
  /\ pc = "arrived"
  /\ request.body = "not_json"
  /\ Answer("bad_request", "router", <<>>)
  /\ UNCHANGED <<config, strategy, request, target, label, calls, sure>>

Accepted == pc = "arrived" /\ request.body # "not_json"

(* A single backend, whatever the strategy's type is except cascade.  The  *)
(* label of a speculative decision has "spec-" before the backend's id.    *)
RouteSingle ==
  /\ Accepted
  /\ strategy.type # "cascade"
  /\ Proxy(Route(strategy, request))
  /\ UNCHANGED <<config, strategy, request, calls, sure>>

(* The entry of the configuration under the name "cascade", of that type.  *)
CascadeEntry ==
  {s \in StrategyConfigs : config.cascade = <<s>> /\ s.type = "cascade"}

(* Without it, backends are picked by their names, or as they come.        *)
Picked(S) ==
  IF config.backends \cap S # {} THEN config.backends \cap S
  ELSE IF config.backends # {} THEN config.backends ELSE {NoId}

CascadePair ==
  IF CascadeEntry # {} THEN {<<s.small_backend, s.large_backend>> : s \in CascadeEntry}
  ELSE Picked(NpuNamed) \X Picked(GpuNamed)

(* The streaming cascade: from here on it is a session of Cascade.         *)
RouteStream ==
  /\ Accepted
  /\ strategy.type = "cascade" /\ request.stream
  /\ \E pair \in CascadePair :
       IF ~Configured(pair[1]) THEN Proxy(pair[2])
       ELSE IF ~Configured(pair[2]) THEN Proxy(pair[1])
       ELSE Answer("ok", "cascade", <<"cascade">>) /\ UNCHANGED <<target, label>>
  /\ UNCHANGED <<config, strategy, request, calls, sure>>

(* The cascade that is not streamed; it has no names to pick backends by.  *)
(* It sets fields of the body, which must be an object or null.            *)
RoutePlain ==
  /\ Accepted
  /\ strategy.type = "cascade" /\ ~request.stream
  /\ \/ CascadeEntry = {} /\ Proxy(Gpu)
     \/ \E s \in CascadeEntry :
          IF Configured(s.small_backend)
          THEN /\ pc' = IF request.body = "other" THEN "dropped" ELSE "npu"
               /\ target' = s.small_backend
               /\ UNCHANGED <<label, response>>
          ELSE Proxy(s.large_backend)
  /\ UNCHANGED <<config, strategy, request, calls, sure>>

-----------------------------------------------------------------------------
(* Answers of the backends                                                 *)

(* The call of target ends.                                                *)
Ends(outcome) ==
  outcome \in Outcomes /\ calls' = Append(calls, [id |-> target, outcome |-> outcome])

(* A call that panics takes the request's task with it.                    *)
CallPanics ==
  /\ pc \in {"npu", "gpu", "proxy"}
  /\ Ends("panic")
  /\ pc' = "dropped"
  /\ UNCHANGED <<config, strategy, request, target, label, sure, response>>

(* check_logprobs: the answer has a token below the threshold, or none.    *)
CheckLogprobs == sure' \in BOOLEAN

(* Mutant of NpuAnswers: without a GPU client the request is given up.     *)
NpuAnswersNoGpu ==
  /\ pc = "npu"
  /\ Ends("ok")
  /\ CheckLogprobs
  /\ \E s \in CascadeEntry :
       IF sure'
       THEN Answer("ok", target, <<target>>) /\ UNCHANGED <<target, label>>
       ELSE IF ~Configured(s.large_backend)
       THEN Answer("bad_gateway", "router", <<>>) /\ UNCHANGED <<target, label>>
       ELSE pc' = "gpu" /\ target' = s.large_backend /\ UNCHANGED <<label, response>>
  /\ UNCHANGED <<config, strategy, request>>

(* Mutant of NpuAnswers: sure or not, the NPU's answer stands.             *)
NpuAnswersAnyway ==
  /\ pc = "npu"
  /\ Ends("ok")
  /\ CheckLogprobs
  /\ Answer("ok", target, <<target>>)
  /\ UNCHANGED <<config, strategy, request, target, label>>

(* The NPU's answer stands if it is sure, or if there is no GPU to ask.    *)
NpuAnswers ==
  /\ pc = "npu"
  /\ Ends("ok")
  /\ CheckLogprobs
  /\ \E s \in CascadeEntry :
       IF sure'
       THEN Answer("ok", target, <<target>>) /\ UNCHANGED <<target, label>>
       ELSE IF ~Configured(s.large_backend)
       THEN Answer("ok", target, <<>>) /\ UNCHANGED <<target, label>>
       ELSE pc' = "gpu" /\ target' = s.large_backend /\ UNCHANGED <<label, response>>
  /\ UNCHANGED <<config, strategy, request>>

(* Mutant of NpuFails: the request is proxied to the small backend again.  *)
NpuFailsRetries ==
  /\ pc = "npu"
  /\ Ends("err")
  /\ \E s \in CascadeEntry : Proxy(s.small_backend)
  /\ UNCHANGED <<config, strategy, request, sure>>

NpuFails ==
  /\ pc = "npu"
  /\ Ends("err")
  /\ \E s \in CascadeEntry : Proxy(s.large_backend)
  /\ UNCHANGED <<config, strategy, request, sure>>

GpuAnswers ==
  /\ pc = "gpu"
  /\ Ends("ok")
  /\ Answer("ok", target, <<target>>)
  /\ UNCHANGED <<config, strategy, request, target, label, sure>>

(* Mutant of GpuFails: the header names the GPU.                           *)
GpuFailsMislabelled ==
  /\ pc = "gpu"
  /\ Ends("err")
  /\ \E s \in CascadeEntry : Answer("ok", s.small_backend, <<target>>)
  /\ UNCHANGED <<config, strategy, request, target, label, sure>>

(* The GPU fails: the NPU's answer will do, unsure as it is.               *)
GpuFails ==
  /\ pc = "gpu"
  /\ Ends("err")
  /\ \E s \in CascadeEntry : Answer("ok", s.small_backend, <<s.small_backend>>)
  /\ UNCHANGED <<config, strategy, request, target, label, sure>>

(* proxy_request: the status of the backend is kept in a stream only.      *)
ProxyAnswers ==
  /\ pc = "proxy"
  /\ Ends("ok")
  /\ Answer(IF request.stream THEN "upstream" ELSE "ok", target, <<label>>)
  /\ UNCHANGED <<config, strategy, request, target, label, sure>>

ProxyFails ==
  /\ pc = "proxy"
  /\ Ends("err")
  /\ Answer("bad_gateway", "router", <<>>)
  /\ UNCHANGED <<config, strategy, request, target, label, sure>>

Handle == Reject \/ RouteSingle \/ RouteStream \/ RoutePlain
BackendStep ==
  \/ NpuAnswers \/ NpuFails \/ GpuAnswers \/ GpuFails
  \/ ProxyAnswers \/ ProxyFails \/ CallPanics

Next == Handle \/ BackendStep

Spec == Init /\ [][Next]_vars

-----------------------------------------------------------------------------
(* Properties                                                              *)

(* Every variable has the type its declaration gives it.                   *)
TypeOK ==
  /\ config \in Configs /\ strategy \in StrategyConfigs /\ request \in Requests
  /\ pc \in Places
  /\ target \in Ids \cup {NoId} /\ label \in Ids \cup {NoId}
  /\ calls \in Seq([id : Ids, outcome : Outcomes])
  /\ sure \in BOOLEAN
  /\ response \in Optional(Responses)

Answered == response # <<>>
Called(id, outcome) == [id |-> id, outcome |-> outcome]

(* The backend that x-route-backend names is the one whose answer the      *)
(* client gets, and it was called and did answer, on each of the paths     *)
(* that end a request (handlers.rs:497-525).                               *)
LabelTruthful ==
  Answered /\ response[1].from \in Ids =>
    /\ response[1].label \in {<<>>, <<response[1].from>>}
    /\ \E i \in 1 .. Len(calls) : calls[i] = Called(response[1].from, "ok")

SomeOk == \E i \in 1 .. Len(calls) : calls[i].outcome = "ok"
SomePanic == \E i \in 1 .. Len(calls) : calls[i].outcome = "panic"

(* A request that a backend has answered is itself answered, with what     *)
(* that backend said: neither a GPU that is missing, or whose client       *)
(* returns an error, nor anything else on the way costs the client the     *)
(* NPU's answer (handlers.rs:487-514).  Only a call that panics does, and  *)
(* on the server every call that fails panics (client.rs:71), so that      *)
(* there this is about a GPU that is missing.                              *)
GoodAnswerNotWasted ==
  pc \in {"answered", "dropped"} /\ SomeOk /\ ~SomePanic =>
    Answered /\ \E i \in 1 .. Len(calls) : calls[i] = Called(response[1].from, "ok")

(* A backend is called once for a request, unless it is configured as the  *)
(* small and the large one at once: a fallback never asks the backend that *)
(* has just failed (handlers.rs:524-528).                                  *)
NoBackendTwice ==
  \A i, j \in 1 .. Len(calls) :
    i < j /\ calls[i].id = calls[j].id =>
      \E s \in CascadeEntry : s.small_backend = s.large_backend

(* An NPU that was unsure of its answer, or that failed, is followed by a  *)
(* call of the GPU, when there is one, and the client gets the GPU's       *)
(* answer if it has one (handlers.rs:482-528).                             *)
UnsureGoesToGpu ==
  \A s \in CascadeEntry :
    /\ Answered /\ strategy.type = "cascade" /\ ~sure
    /\ calls # <<>> /\ calls[1].id = s.small_backend
    /\ Configured(s.large_backend)
    => /\ Len(calls) = 2 /\ calls[2].id = s.large_backend
       /\ calls[2].outcome = "ok" => response[1].from = s.large_backend

=============================================================================

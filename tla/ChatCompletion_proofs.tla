------------------------ MODULE ChatCompletion_proofs ------------------------
(***************************************************************************)
(* What a chat request is answered with, for every configuration, table of *)
(* models and set of outcomes.  The invariant adds to the properties what  *)
(* each place of the handler says of the calls made so far.                *)
(***************************************************************************)
EXTENDS ChatCompletion, SequenceTheorems, TLAPS

NoneOk == \A i \in 1 .. Len(calls) : calls[i].outcome # "ok"

ByPlace ==
  /\ pc # "answered" => response = <<>>
  /\ pc \in {"arrived", "npu"} => calls = <<>>
  /\ pc \in {"npu", "gpu", "proxy"} => target \in Ids
  /\ pc = "npu" => \E s \in CascadeEntry : target = s.small_backend
  /\ pc = "proxy" => label = target /\ NoneOk
  /\ pc = "gpu" => \E s \in CascadeEntry : calls = <<Called(s.small_backend, "ok")>>
  /\ pc = "dropped" => NoneOk \/ SomePanic

IInv == TypeOK /\ ByPlace /\ LabelTruthful /\ GoodAnswerNotWasted

-----------------------------------------------------------------------------
(* Whatever is configured, the strategy built is one, and its backends are *)
(* ids.                                                                    *)
LEMMA BuiltType ==
  ASSUME NEW c \in AllConfigs
  PROVE  Built(c) \subseteq StrategyConfigs
<1>1. CASE c.default # <<>>
  <2>1. c.default \in Optional(StrategyConfigs)
    BY DEF AllConfigs
  <2>2. PICK s \in StrategyConfigs : c.default = <<s>>
    BY <1>1, <2>1 DEF Optional
  <2> QED BY <1>1, <2>2 DEF Built
<1>2. CASE c.default = <<>>
  <2>1. c.backends \subseteq Ids
    BY DEF AllConfigs
  <2>2. Built(c) = [type : {"passthrough"}, backend : IF c.backends = {} THEN Ids ELSE c.backends]
    BY <1>2 DEF Built
  <2> QED BY <2>1, <2>2 DEF StrategyConfigs
<1> QED BY <1>1, <1>2

(* A strategy that is not the cascade routes every request to an id.       *)
LEMMA RouteType ==
  ASSUME NEW s \in StrategyConfigs, s.type # "cascade", NEW r \in Requests
  PROVE  Route(s, r) \in Ids
<1>1. CASE s.type = "performance"
  <2>1. s \in [type : {"performance"}, default_backend : Ids, force_backend : Optional(Ids)]
    BY <1>1 DEF StrategyConfigs
  <2>2. s.default_backend \in Ids /\ s.force_backend \in Optional(Ids)
    BY <2>1
  <2>3. r.hint \in Optional(Models)
    BY DEF Requests, Optional
  <2>4. s.force_backend # <<>> => s.force_backend[1] \in Ids
    BY <2>2 DEF Optional
  <2>5. ASSUME NEW m \in Models PROVE Resolved(s, m) \in Ids
    <3>1. Table[m] \in Optional(Ids)
      BY ChatAssumption
    <3>2. Table[m] # <<>> => Table[m][1] \in Ids
      BY <3>1 DEF Optional
    <3> QED BY <2>2, <2>4, <3>2 DEF Resolved
  <2>6. r.hint # <<>> => r.hint[1] \in Models
    BY <2>3 DEF Optional
  <2>7. Route(s, r) = IF r.hint = <<>> THEN s.default_backend ELSE Resolved(s, r.hint[1])
    BY <1>1 DEF Route, PerformanceRoute
  <2> QED BY <2>2, <2>5, <2>6, <2>7
<1>2. CASE s.type = "passthrough"
  <2>1. s \in [type : {"passthrough"}, backend : Ids]
    BY <1>2 DEF StrategyConfigs
  <2> QED BY <1>2, <2>1 DEF Route
<1>3. CASE s.type = "content_router"
  <2>1. s \in [type : {"cascade", "content_router"}, small_backend : Ids, large_backend : Ids]
    BY <1>3 DEF StrategyConfigs
  <2> QED BY <1>3, <2>1 DEF Route, ContentRoute
<1>4. CASE s.type = "spec_decode"
  <2>1. s \in [type : {"spec_decode"}, draft_backend : Ids, target_backend : Ids]
    BY <1>4 DEF StrategyConfigs
  <2> QED BY <1>4, <2>1 DEF Route
<1> QED BY <1>1, <1>2, <1>3, <1>4 DEF StrategyConfigs

(* The cascade's entry names ids, and there is at most one.                *)
LEMMA EntryType ==
  /\ \A s \in CascadeEntry : s.small_backend \in Ids /\ s.large_backend \in Ids
  /\ \A s, t \in CascadeEntry : s = t
<1>1. ASSUME NEW s \in CascadeEntry
      PROVE  s.small_backend \in Ids /\ s.large_backend \in Ids
  <2>1. s \in [type : {"cascade", "content_router"}, small_backend : Ids, large_backend : Ids]
    BY DEF CascadeEntry, StrategyConfigs
  <2> QED BY <2>1
<1>2. ASSUME NEW s \in CascadeEntry, NEW t \in CascadeEntry PROVE s = t
  <2>1. <<s>> = <<t>>
    BY DEF CascadeEntry
  <2> QED BY <2>1
<1> QED BY <1>1, <1>2

(* A request is proxied to an id that is configured, or refused.           *)
LEMMA ProxyEffect ==
  ASSUME TypeOK, NEW id, Proxy(id)
  PROVE  \/ /\ id \in Ids
            /\ pc' = "proxy" /\ target' = id /\ label' = id
            /\ response' = response
         \/ /\ pc' = "answered" /\ target' = target /\ label' = label
            /\ response' = <<Response("bad_gateway", "router", <<>>)>>
<1>1. config.backends \subseteq Ids
  BY ChatAssumption DEF TypeOK, AllConfigs
<1> QED BY <1>1 DEF Proxy, Configured, Answer

(* What the response of a step must satisfy.                               *)
Honest(r, made) ==
  /\ r \in Responses
  /\ r.from \in Ids =>
       /\ r.label \in {<<>>, <<r.from>>}
       /\ \E i \in 1 .. Len(made) : made[i] = Called(r.from, "ok")
  /\ (\E i \in 1 .. Len(made) : made[i].outcome = "ok") => r.from \in Ids

(* A step that answers keeps the invariant, if the response is honest.       *)
LEMMA AnsweredKeeps ==
  ASSUME IInv, NEW r, pc' = "answered", response' = <<r>>, Honest(r, calls'),
         config' = config, strategy' = strategy, request' = request,
         target' \in Ids \cup {NoId}, label' \in Ids \cup {NoId},
         calls' \in Seq([id : Ids, outcome : Outcomes]), sure' \in BOOLEAN
  PROVE  IInv'
<1>1. response'[1] = r
  OBVIOUS
<1>2. TypeOK'
  BY DEF TypeOK, IInv, Places, Honest, Optional
<1>3. ByPlace'
  BY DEF ByPlace
<1>4. LabelTruthful'
  BY <1>1 DEF LabelTruthful, Honest, Called
<1>5. GoodAnswerNotWasted'
  BY <1>1 DEF GoodAnswerNotWasted, SomeOk, Answered, Honest, Called
<1> QED BY <1>2, <1>3, <1>4, <1>5 DEF IInv

(* A refusal is honest if no call has been answered.                         *)
LEMMA RefusalHonest ==
  ASSUME NEW made, NEW status \in {"bad_request", "bad_gateway"},
         \A i \in 1 .. Len(made) : made[i].outcome # "ok"
  PROVE  Honest(Response(status, "router", <<>>), made)
BY ChatAssumption DEF Honest, Response, Responses, Optional

(* So is the answer of a backend that was called and did answer.           *)
LEMMA BackendHonest ==
  ASSUME NEW made, NEW status \in {"ok", "upstream"}, NEW id \in Ids,
         NEW named \in {<<>>, <<id>>},
         NEW i \in 1 .. Len(made), made[i] = Called(id, "ok")
  PROVE  Honest(Response(status, id, named), made)
<1>1. named \in Optional(Ids \cup {"cascade"})
  BY DEF Optional
<1> QED BY <1>1 DEF Honest, Response, Responses

(* While a request is being handled the properties say nothing yet.        *)
LEMMA Unanswered ==
  ASSUME IInv, response' = <<>>, pc' \in Places \ {"answered"},
         config' = config, strategy' = strategy, request' = request,
         target' \in Ids \cup {NoId}, label' \in Ids \cup {NoId},
         calls' \in Seq([id : Ids, outcome : Outcomes]), sure' \in BOOLEAN,
         ByPlace'
  PROVE  IInv'
<1>1. TypeOK'
  BY DEF TypeOK, IInv, Optional
<1>2. LabelTruthful' /\ GoodAnswerNotWasted'
  BY DEF LabelTruthful, GoodAnswerNotWasted, Answered, ByPlace, NoneOk, SomeOk
<1> QED BY <1>1, <1>2 DEF IInv

(* A proxied request keeps the invariant, if no call has been answered.    *)
LEMMA ProxyKeeps ==
  ASSUME IInv, NEW id, Proxy(id), response = <<>>,
         config' = config, strategy' = strategy, request' = request, sure' = sure,
         calls' \in Seq([id : Ids, outcome : Outcomes]), NoneOk'
  PROVE  IInv'
<1> USE DEF IInv
<1>1. target \in Ids \cup {NoId} /\ label \in Ids \cup {NoId} /\ sure \in BOOLEAN
  BY DEF TypeOK
<1>2. CASE /\ id \in Ids
           /\ pc' = "proxy" /\ target' = id /\ label' = id
           /\ response' = response
  <2>1. ByPlace'
    BY <1>2 DEF ByPlace
  <2> QED BY <1>1, <1>2, <2>1, Unanswered DEF Places
<1>3. CASE /\ pc' = "answered" /\ target' = target /\ label' = label
           /\ response' = <<Response("bad_gateway", "router", <<>>)>>
  <2>1. Honest(Response("bad_gateway", "router", <<>>), calls')
    BY RefusalHonest DEF NoneOk
  <2> QED BY <1>1, <1>3, <2>1, AnsweredKeeps
<1> QED BY <1>2, <1>3, ProxyEffect

-----------------------------------------------------------------------------
(* The invariant holds initially.                                          *)
LEMMA InitHolds == Init => IInv
<1> SUFFICES ASSUME Init PROVE IInv
  OBVIOUS
<1>1. config \in Configs /\ config \in AllConfigs
  BY ChatAssumption DEF Init
<1>2. strategy \in StrategyConfigs
  BY <1>1, BuiltType DEF Init
<1>3. calls \in Seq([id : Ids, outcome : Outcomes])
  BY DEF Init
<1>4. TypeOK
  BY <1>1, <1>2, <1>3 DEF Init, TypeOK, Places, Optional
<1>5. ByPlace /\ LabelTruthful /\ GoodAnswerNotWasted
  BY DEF Init, ByPlace, LabelTruthful, GoodAnswerNotWasted, Answered
<1> QED BY <1>4, <1>5 DEF IInv

(* A request that comes is answered, refused or routed; no call is made.   *)
LEMMA HandleKeeps == IInv /\ Handle => IInv'
<1> SUFFICES ASSUME IInv, Handle PROVE IInv'
  OBVIOUS
<1> USE DEF IInv
<1>1. /\ pc = "arrived" /\ calls = <<>> /\ response = <<>>
      /\ calls' = <<>> /\ sure' = sure
      /\ config' = config /\ strategy' = strategy /\ request' = request
  BY DEF Handle, Reject, RouteSingle, RouteStream, RoutePlain, Accepted, ByPlace
<1>2. /\ target \in Ids \cup {NoId} /\ label \in Ids \cup {NoId} /\ sure \in BOOLEAN
      /\ calls' \in Seq([id : Ids, outcome : Outcomes])
      /\ Len(calls') = 0 /\ NoneOk'
  BY <1>1 DEF TypeOK, NoneOk
<1>3. CASE Reject
  <2>1. Honest(Response("bad_request", "router", <<>>), calls')
    BY <1>2, RefusalHonest
  <2> QED BY <1>1, <1>2, <1>3, <2>1, AnsweredKeeps DEF Reject, Answer
<1>4. ASSUME NEW id, Proxy(id) PROVE IInv'
  BY <1>1, <1>2, <1>4, ProxyKeeps
<1>5. CASE RouteSingle
  BY <1>4, <1>5 DEF RouteSingle
<1>6. CASE RouteStream
  <2>1. CASE Answer("ok", "cascade", <<"cascade">>) /\ UNCHANGED <<target, label>>
    <3>1. Honest(Response("ok", "cascade", <<"cascade">>), calls')
      BY <1>2, ChatAssumption DEF Honest, Response, Responses, Optional
    <3> QED BY <1>1, <1>2, <2>1, <3>1, AnsweredKeeps DEF Answer
  <2> QED BY <1>4, <1>6, <2>1 DEF RouteStream
<1>7. CASE RoutePlain
  <2>1. CASE CascadeEntry = {} /\ Proxy(Gpu)
    BY <1>4, <2>1
  <2>2. ASSUME NEW s \in CascadeEntry,
               IF Configured(s.small_backend)
               THEN /\ pc' = IF request.body = "other" THEN "dropped" ELSE "npu"
                    /\ target' = s.small_backend
                    /\ UNCHANGED <<label, response>>
               ELSE Proxy(s.large_backend)
        PROVE  IInv'
    <3>1. CASE Configured(s.small_backend)
      <4>1. s.small_backend \in Ids
        BY EntryType
      <4>2. /\ pc' \in {"npu", "dropped"} /\ target' = s.small_backend
            /\ label' = label /\ response' = <<>>
        BY <1>1, <2>2, <3>1
      <4>3. ByPlace'
        BY <1>1, <1>2, <4>1, <4>2 DEF ByPlace, CascadeEntry
      <4> QED BY <1>1, <1>2, <4>1, <4>2, <4>3, Unanswered DEF Places
    <3> QED BY <1>4, <2>2, <3>1
  <2> QED BY <1>7, <2>1, <2>2 DEF RoutePlain
<1> QED BY <1>3, <1>5, <1>6, <1>7 DEF Handle

(* When a call ends it is the last of the calls, of a backend with an id.  *)
LEMMA EndsEffect ==
  ASSUME IInv, pc \in {"npu", "gpu", "proxy"}, NEW outcome, Ends(outcome)
  PROVE  /\ calls' \in Seq([id : Ids, outcome : Outcomes])
         /\ Len(calls') = Len(calls) + 1
         /\ calls'[Len(calls')] = Called(target, outcome)
         /\ \A i \in 1 .. Len(calls) : calls'[i] = calls[i]
         /\ Len(calls) \in Nat
<1> DEFINE call == [id |-> target, outcome |-> outcome]
<1>1. call \in [id : Ids, outcome : Outcomes]
  BY DEF Ends, IInv, ByPlace
<1>2. calls \in Seq([id : Ids, outcome : Outcomes])
  BY DEF IInv, TypeOK
<1>3. calls' = Append(calls, call) /\ Called(target, outcome) = call
  BY DEF Ends, Called
<1> HIDE DEF call
<1> QED BY <1>1, <1>2, <1>3

(* The answer, the failure or the panic of a backend.                      *)
LEMMA BackendStepKeeps == IInv /\ BackendStep => IInv'
<1> SUFFICES ASSUME IInv, BackendStep PROVE IInv'
  OBVIOUS
<1> USE DEF IInv
<1>1. /\ pc \in {"npu", "gpu", "proxy"} /\ response = <<>> /\ target \in Ids
      /\ config' = config /\ strategy' = strategy /\ request' = request
  BY DEF BackendStep, NpuAnswers, NpuFails, GpuAnswers, GpuFails,
         ProxyAnswers, ProxyFails, CallPanics, ByPlace
<1>2. target \in Ids \cup {NoId} /\ label \in Ids \cup {NoId} /\ sure \in BOOLEAN
  BY DEF TypeOK
<1>3. ASSUME NEW named \in {<<>>, <<target>>}, NEW status \in {"ok", "upstream"},
             Ends("ok"), Answer(status, target, named),
             target' = target, label' = label, sure' \in BOOLEAN
      PROVE  IInv'
  <2>1. Len(calls') \in 1 .. Len(calls') /\ calls'[Len(calls')] = Called(target, "ok")
    BY <1>1, <1>3, EndsEffect
  <2>2. Honest(Response(status, target, named), calls')
    BY <1>1, <2>1, BackendHonest
  <2> QED BY <1>1, <1>2, <1>3, <2>2, EndsEffect, AnsweredKeeps DEF Answer
<1>4. CASE NpuAnswers
  <2>1. PICK s \in CascadeEntry :
          IF sure'
          THEN Answer("ok", target, <<target>>) /\ UNCHANGED <<target, label>>
          ELSE IF ~Configured(s.large_backend)
          THEN Answer("ok", target, <<>>) /\ UNCHANGED <<target, label>>
          ELSE pc' = "gpu" /\ target' = s.large_backend /\ UNCHANGED <<label, response>>
    BY <1>4 DEF NpuAnswers, CheckLogprobs
  <2>2. CASE pc' = "gpu" /\ target' = s.large_backend /\ UNCHANGED <<label, response>>
    <3>1. s.large_backend \in Ids
      BY EntryType
    <3>2. calls = <<>> /\ Ends("ok") /\ sure' \in BOOLEAN
      BY <1>4 DEF NpuAnswers, CheckLogprobs, ByPlace
    <3>3. calls' = <<Called(target, "ok")>>
      BY <3>2 DEF Ends, Called
    <3>4. PICK t \in CascadeEntry : target = t.small_backend
      BY <1>4 DEF NpuAnswers, CheckLogprobs, ByPlace
    <3>5. CascadeEntry' = CascadeEntry
      BY <1>1 DEF CascadeEntry
    <3>6. ByPlace'
      BY <1>1, <2>2, <3>1, <3>3, <3>4, <3>5 DEF ByPlace
    <3>7. calls' \in Seq([id : Ids, outcome : Outcomes])
      BY <1>1, <3>2, EndsEffect
    <3> QED BY <1>1, <1>2, <2>2, <3>1, <3>2, <3>6, <3>7, Unanswered DEF Places
  <2> QED BY <1>3, <1>4, <2>1, <2>2 DEF NpuAnswers, CheckLogprobs
<1>5. ASSUME NoneOk, Ends("err") PROVE NoneOk'
  <2>1. Called(target, "err").outcome = "err"
    BY DEF Called
  <2> QED BY <1>1, <1>5, <2>1, EndsEffect DEF NoneOk
<1>6. CASE NpuFails
  <2>1. NoneOk
    BY <1>6 DEF NpuFails, ByPlace, NoneOk
  <2>2. PICK s \in CascadeEntry : Proxy(s.large_backend)
    BY <1>6 DEF NpuFails
  <2> QED BY <1>1, <1>5, <1>6, <2>1, <2>2, EndsEffect, ProxyKeeps DEF NpuFails
<1>7. CASE GpuAnswers
  BY <1>2, <1>3, <1>7 DEF GpuAnswers
<1>8. CASE GpuFails
  <2>1. PICK s \in CascadeEntry : Answer("ok", s.small_backend, <<s.small_backend>>)
    BY <1>8 DEF GpuFails
  <2>2. PICK t \in CascadeEntry : calls = <<Called(t.small_backend, "ok")>>
    BY <1>8 DEF GpuFails, ByPlace
  <2>3. s = t /\ s.small_backend \in Ids
    BY EntryType
  <2>4. Len(calls) = 1 /\ calls[1] = Called(s.small_backend, "ok")
    BY <2>2, <2>3
  <2>5. Ends("err") /\ UNCHANGED <<target, label, sure>>
    BY <1>8 DEF GpuFails
  <2>6. 1 \in 1 .. Len(calls') /\ calls'[1] = Called(s.small_backend, "ok")
    BY <1>1, <2>4, <2>5, EndsEffect
  <2>7. Honest(Response("ok", s.small_backend, <<s.small_backend>>), calls')
    BY <2>3, <2>6, BackendHonest
  <2> QED BY <1>1, <1>2, <2>1, <2>5, <2>7, EndsEffect, AnsweredKeeps DEF Answer
<1>9. CASE ProxyAnswers
  <2>1. label = target /\ Ends("ok") /\ UNCHANGED <<target, label, sure>>
    BY <1>9 DEF ProxyAnswers, ByPlace
  <2>2. PICK status \in {"ok", "upstream"} : Answer(status, target, <<target>>)
    BY <1>9, <2>1 DEF ProxyAnswers
  <2> QED BY <1>2, <1>3, <2>1, <2>2
<1>10. CASE ProxyFails
  <2>1. NoneOk /\ Ends("err") /\ UNCHANGED <<target, label, sure>>
    BY <1>10 DEF ProxyFails, ByPlace
  <2>2. Honest(Response("bad_gateway", "router", <<>>), calls')
    BY <1>5, <2>1, RefusalHonest DEF NoneOk
  <2> QED BY <1>1, <1>2, <1>10, <2>1, <2>2, EndsEffect, AnsweredKeeps DEF ProxyFails, Answer
<1>11. CASE CallPanics
  <2>1. Ends("panic") /\ pc' = "dropped" /\ UNCHANGED <<target, label, sure, response>>
    BY <1>11 DEF CallPanics
  <2>2. SomePanic'
    <3>1. Len(calls') \in 1 .. Len(calls') /\ calls'[Len(calls')] = Called(target, "panic")
      BY <1>1, <2>1, EndsEffect
    <3> QED BY <3>1 DEF SomePanic, Called
  <2>3. ByPlace'
    BY <1>1, <2>1, <2>2 DEF ByPlace
  <2> QED BY <1>1, <1>2, <2>1, <2>3, EndsEffect, Unanswered DEF Places
<1> QED BY <1>4, <1>6, <1>7, <1>8, <1>9, <1>10, <1>11 DEF BackendStep

(* Every step keeps the invariant, and so does a stutter.                  *)
LEMMA StepKeeps == IInv /\ [Next]_vars => IInv'
<1>1. IInv /\ UNCHANGED vars => IInv'
  BY DEF IInv, TypeOK, ByPlace, NoneOk, LabelTruthful, GoodAnswerNotWasted, SomeOk,
         SomePanic, Answered,
         CascadeEntry, vars
<1> QED BY <1>1, HandleKeeps, BackendStepKeeps DEF Next

(* The invariant of a chat request holds in every reachable state.         *)
LEMMA IInvHolds == Spec => []IInv
BY InitHolds, StepKeeps, PTL DEF Spec

(* Every variable of a chat request keeps its type: whatever the strategy  *)
(* and the table say, no call goes out to the empty id or to a non-id.     *)
THEOREM TypeCorrect == Spec => []TypeOK
<1>1. IInv => TypeOK
  BY DEF IInv
<1> QED BY <1>1, IInvHolds, PTL

(* The header x-route-backend never names another backend than the one     *)
(* whose answer is passed on, and that one was called and did answer.      *)
THEOREM LabelTruthfulHolds == Spec => []LabelTruthful
<1>1. IInv => LabelTruthful
  BY DEF IInv
<1> QED BY <1>1, IInvHolds, PTL

(* A request that a backend has answered is answered with what it said,    *)
(* unless a call panicked.                                                 *)
THEOREM GoodAnswerNotWastedHolds == Spec => []GoodAnswerNotWasted
<1>1. IInv => GoodAnswerNotWasted
  BY DEF IInv
<1> QED BY <1>1, IInvHolds, PTL

-----------------------------------------------------------------------------
(***************************************************************************)
(* Which backends are asked.  At most two calls are made, and only the     *)
(* cascade makes two: of its small backend and then of its large one.      *)
(***************************************************************************)
AtMostPair ==
  \/ calls = <<>>
  \/ \E c \in [id : Ids, outcome : Outcomes] : calls = <<c>>
  \/ \E s \in CascadeEntry, first, second \in Outcomes :
       calls = <<Called(s.small_backend, first), Called(s.large_backend, second)>>

(* At "gpu" the small backend has answered and the large one is asked.  At *)
(* "proxy" the small one has failed and the large one is asked, or nobody  *)
(* was asked before, and the small one only if there is no large one.      *)
ByCalls ==
  /\ pc = "gpu" => \E s \in CascadeEntry :
       calls = <<Called(s.small_backend, "ok")>> /\ target = s.large_backend
  /\ pc = "proxy" =>
       \/ /\ calls = <<>>
          /\ strategy.type = "cascade" => \A s \in CascadeEntry :
               target = s.small_backend => ~Configured(s.large_backend)
       \/ \E s \in CascadeEntry :
            calls = <<Called(s.small_backend, "err")>> /\ target = s.large_backend

CallInv == AtMostPair /\ ByCalls /\ UnsureGoesToGpu

(* No call is made before the request is routed.                           *)
LEMMA CallInit == Init => CallInv
BY DEF Init, CallInv, AtMostPair, ByCalls, UnsureGoesToGpu, Answered

(* A request that is proxied goes to its target, which is configured.      *)
LEMMA ProxiedTo ==
  ASSUME NEW id, Proxy(id), pc' = "proxy" PROVE Configured(id) /\ target' = id
BY DEF Proxy, Answer

(* Routing a request makes no call.                                        *)
LEMMA HandleCalls == IInv /\ CallInv /\ Handle => CallInv'
<1> SUFFICES ASSUME IInv, Handle PROVE CallInv'
  OBVIOUS
<1>1. /\ pc = "arrived" /\ calls = <<>> /\ calls' = <<>>
      /\ config' = config /\ strategy' = strategy /\ request' = request
  BY DEF Handle, Reject, RouteSingle, RouteStream, RoutePlain, Accepted, ByPlace, IInv
<1>2. CascadeEntry' = CascadeEntry /\ \A id : Configured(id)' <=> Configured(id)
  BY <1>1 DEF CascadeEntry, Configured
<1>3. pc' # "gpu"
  BY DEF Handle, Reject, RouteSingle, RouteStream, RoutePlain, Answer, Proxy
<1>4. ASSUME pc' = "proxy", strategy.type = "cascade",
             NEW s \in CascadeEntry, target' = s.small_backend
      PROVE  ~Configured(s.large_backend)
  <2>1. CASE RouteStream
    <3>1. PICK pair \in CascadePair :
            IF ~Configured(pair[1]) THEN Proxy(pair[2])
            ELSE IF ~Configured(pair[2]) THEN Proxy(pair[1])
            ELSE Answer("ok", "cascade", <<"cascade">>) /\ UNCHANGED <<target, label>>
      BY <2>1 DEF RouteStream
    <3>2. CascadePair = {<<t.small_backend, t.large_backend>> : t \in CascadeEntry}
      BY <1>4 DEF CascadePair
    <3>3. PICK t \in CascadeEntry : pair = <<t.small_backend, t.large_backend>>
      BY <3>1, <3>2
    <3>4. t = s
      BY <1>4, EntryType
    <3>5. pair[1] = s.small_backend /\ pair[2] = s.large_backend
      BY <3>3, <3>4
    <3>6. CASE ~Configured(pair[1])
      BY <1>4, <3>1, <3>5, <3>6, ProxiedTo
    <3>7. CASE Configured(pair[1])
      BY <1>4, <3>1, <3>5, <3>7, ProxiedTo DEF Answer
    <3> QED BY <3>6, <3>7
  <2>2. CASE RoutePlain
    <3>1. PICK t \in CascadeEntry :
            IF Configured(t.small_backend)
            THEN /\ pc' = IF request.body = "other" THEN "dropped" ELSE "npu"
                 /\ target' = t.small_backend
                 /\ UNCHANGED <<label, response>>
            ELSE Proxy(t.large_backend)
      BY <1>4, <2>2 DEF RoutePlain
    <3>2. t = s
      BY <1>4, EntryType
    <3> QED BY <1>4, <3>1, <3>2, ProxiedTo
  <2>3. CASE Reject \/ RouteSingle
    BY <1>4, <2>3 DEF Reject, RouteSingle, Answer
  <2> QED BY <2>1, <2>2, <2>3 DEF Handle
<1>5. ByCalls'
  BY <1>1, <1>2, <1>3, <1>4 DEF ByCalls
<1>6. AtMostPair' /\ UnsureGoesToGpu'
  BY <1>1 DEF AtMostPair, UnsureGoesToGpu
<1> QED BY <1>5, <1>6 DEF CallInv

(* A second element after a first.                                         *)
LEMMA AppendToOne ==
  ASSUME NEW x, NEW y PROVE Append(<<x>>, y) = <<x, y>>
<1>1. <<x>> \in Seq({x, y}) /\ <<x, y>> \in Seq({x, y}) /\ y \in {x, y}
  OBVIOUS
<1>2. /\ Append(<<x>>, y) \in Seq({x, y}) /\ Len(Append(<<x>>, y)) = 2
      /\ Append(<<x>>, y)[1] = x /\ Append(<<x>>, y)[2] = y
  BY <1>1
<1>3. Len(<<x, y>>) = 2 /\ <<x, y>>[1] = x /\ <<x, y>>[2] = y
  OBVIOUS
<1>4. \A i \in 1 .. 2 : i = 1 \/ i = 2
  OBVIOUS
<1> QED BY <1>1, <1>2, <1>3, <1>4, SeqEqual

(* What the calls are when one more ends.                                  *)
LEMMA CallEnds ==
  ASSUME IInv, CallInv, BackendStep
  PROVE  \E o \in Outcomes :
           /\ Ends(o)
           /\ \/ /\ pc = "npu" \/ (pc = "proxy" /\ calls = <<>>)
                 /\ calls' = <<Called(target, o)>>
              \/ \E s \in CascadeEntry, first \in {"ok", "err"} \cap Outcomes :
                   /\ target = s.large_backend
                   /\ calls' = <<Called(s.small_backend, first), Called(target, o)>>
                   /\ first = IF pc = "gpu" THEN "ok" ELSE "err"
                   /\ pc \in {"gpu", "proxy"}
<1> USE DEF IInv, CallInv
<1>1. PICK o \in Outcomes : Ends(o)
  BY DEF BackendStep, NpuAnswers, NpuFails, GpuAnswers, GpuFails,
         ProxyAnswers, ProxyFails, CallPanics, Ends
<1>2. pc \in {"npu", "gpu", "proxy"}
  BY DEF BackendStep, NpuAnswers, NpuFails, GpuAnswers, GpuFails,
         ProxyAnswers, ProxyFails, CallPanics
<1>3. calls' = Append(calls, Called(target, o))
  BY <1>1 DEF Ends, Called
<1>4. CASE calls = <<>>
  <2>1. pc # "gpu"
    BY <1>4 DEF ByCalls
  <2> QED BY <1>1, <1>2, <1>3, <1>4, <2>1
<1>5. CASE calls # <<>>
  <2>1. pc \in {"gpu", "proxy"}
    BY <1>2, <1>5 DEF ByPlace
  <2>2. PICK s \in CascadeEntry : /\ target = s.large_backend
          /\ calls = <<Called(s.small_backend, IF pc = "gpu" THEN "ok" ELSE "err")>>
    BY <1>5, <2>1 DEF ByCalls
  <2>3. PICK first : first = IF pc = "gpu" THEN "ok" ELSE "err"
    OBVIOUS
  <2>4. first \in Outcomes
    <3>1. Len(calls) = 1 /\ calls[1] = Called(s.small_backend, first)
      BY <2>2, <2>3
    <3>2. calls \in Seq([id : Ids, outcome : Outcomes]) /\ 1 \in 1 .. Len(calls)
      BY <3>1 DEF TypeOK
    <3>3. calls[1] \in [id : Ids, outcome : Outcomes]
      BY ONLY <3>2, ElementOfSeq
    <3> QED BY <3>1, <3>3 DEF Called
  <2>5. calls' = <<Called(s.small_backend, first), Called(target, o)>>
    <3>1. calls = <<Called(s.small_backend, first)>>
      BY <2>2, <2>3 DEF Called
    <3> QED BY <1>3, <3>1, AppendToOne
  <2>6. first \in {"ok", "err"} \cap Outcomes
    BY <2>3, <2>4
  <2>7. target = s.large_backend
    BY <2>2
  <2> QED BY <1>1, <2>1, <2>3, <2>5, <2>6, <2>7
<1> QED BY <1>4, <1>5

(* The end of a call keeps the invariant.                                  *)
LEMMA BackendStepCalls == IInv /\ CallInv /\ BackendStep => CallInv'
<1> SUFFICES ASSUME IInv, CallInv, BackendStep PROVE CallInv'
  OBVIOUS
<1>1. /\ config' = config /\ strategy' = strategy /\ request' = request
      /\ pc \in {"npu", "gpu", "proxy"} /\ target \in Ids
  BY DEF BackendStep, NpuAnswers, NpuFails, GpuAnswers, GpuFails,
         ProxyAnswers, ProxyFails, CallPanics, IInv, ByPlace
<1>2. CascadeEntry' = CascadeEntry /\ \A id : Configured(id)' <=> Configured(id)
  BY <1>1 DEF CascadeEntry, Configured
<1>3. PICK o \in Outcomes :
        /\ Ends(o)
        /\ \/ /\ pc = "npu" \/ (pc = "proxy" /\ calls = <<>>)
              /\ calls' = <<Called(target, o)>>
           \/ \E s \in CascadeEntry, first \in {"ok", "err"} \cap Outcomes :
                /\ target = s.large_backend
                /\ calls' = <<Called(s.small_backend, first), Called(target, o)>>
                /\ first = IF pc = "gpu" THEN "ok" ELSE "err"
                /\ pc \in {"gpu", "proxy"}
  BY CallEnds
<1>4. AtMostPair'
  <2>1. Called(target, o) \in [id : Ids, outcome : Outcomes]
    BY <1>1 DEF Called
  <2> QED BY <1>2, <1>3, <2>1 DEF AtMostPair
<1>5. calls' = Append(calls, Called(target, o))
  BY <1>3 DEF Ends, Called
<1>6. \A p, q : Ends(p) /\ Ends(q) => p = q
  <2> SUFFICES ASSUME NEW p, NEW q, Ends(p), Ends(q) PROVE p = q
    OBVIOUS
  <2>1. Append(calls, Called(target, p)) = Append(calls, Called(target, q))
    BY DEF Ends, Called
  <2>2. calls \in Seq([id : Ids, outcome : Outcomes])
    BY DEF IInv, TypeOK
  <2>3. Called(target, p) = Called(target, q)
    BY <2>1, <2>2
  <2> QED BY <2>3 DEF Called
<1>7. CASE NpuAnswers
  <2>1. pc = "npu" /\ o = "ok" /\ calls' = <<Called(target, "ok")>>
    BY <1>3, <1>6, <1>7 DEF NpuAnswers
  <2>2. PICK s \in CascadeEntry :
          IF sure'
          THEN Answer("ok", target, <<target>>) /\ UNCHANGED <<target, label>>
          ELSE IF ~Configured(s.large_backend)
          THEN Answer("ok", target, <<>>) /\ UNCHANGED <<target, label>>
          ELSE pc' = "gpu" /\ target' = s.large_backend /\ UNCHANGED <<label, response>>
    BY <1>7 DEF NpuAnswers
  <2>3. PICK t \in CascadeEntry : target = t.small_backend
    BY <2>1 DEF IInv, ByPlace
  <2>4. \A u \in CascadeEntry : u = s /\ u = t
    BY EntryType
  <2>5. response = <<>>
    BY <2>1 DEF IInv, ByPlace
  <2>6. ByCalls'
    BY <1>2, <2>1, <2>2, <2>3, <2>4 DEF ByCalls, Answer
  <2>7. UnsureGoesToGpu'
    BY <1>2, <2>2, <2>4, <2>5 DEF UnsureGoesToGpu, Answered
  <2> QED BY <1>4, <2>6, <2>7 DEF CallInv
<1>8. CASE NpuFails
  <2>1. pc = "npu" /\ o = "err" /\ calls' = <<Called(target, "err")>>
    BY <1>3, <1>6, <1>8 DEF NpuFails
  <2>2. PICK s \in CascadeEntry : Proxy(s.large_backend)
    BY <1>8 DEF NpuFails
  <2>3. PICK t \in CascadeEntry : target = t.small_backend
    BY <2>1 DEF IInv, ByPlace
  <2>4. s = t
    BY EntryType
  <2>5. /\ pc' \in {"proxy", "answered"} /\ (pc' = "proxy" => target' = s.large_backend)
        /\ Configured(s.large_backend) => response' = response
    BY <2>2 DEF Proxy, Answer
  <2>6. ByCalls'
    BY <1>2, <2>1, <2>3, <2>4, <2>5 DEF ByCalls
  <2>7. response = <<>> /\ \A u \in CascadeEntry : u = s
    BY <2>1, EntryType DEF IInv, ByPlace
  <2>8. UnsureGoesToGpu'
    BY <1>2, <2>5, <2>7 DEF UnsureGoesToGpu, Answered
  <2> QED BY <1>4, <2>6, <2>8 DEF CallInv
<1>9. CASE GpuAnswers \/ GpuFails
  <2>1. pc = "gpu" /\ pc' = "answered"
    BY <1>9 DEF GpuAnswers, GpuFails, Answer
  <2>2. PICK s \in CascadeEntry : /\ target = s.large_backend
          /\ calls' = <<Called(s.small_backend, "ok"), Called(target, o)>>
    BY <1>3, <2>1
  <2>3. \A t \in CascadeEntry : t = s
    BY EntryType
  <2>4. o = "ok" => response'[1].from = s.large_backend
    <3>1. CASE GpuAnswers
      BY <2>2, <3>1 DEF GpuAnswers, Answer, Response
    <3>2. CASE GpuFails
      BY <1>3, <1>6, <3>2 DEF GpuFails
    <3> QED BY <1>9, <3>1, <3>2
  <2>5. Len(calls') = 2 /\ calls'[2].outcome = o /\ calls'[2].id = s.large_backend
    BY <2>2 DEF Called
  <2>6. UnsureGoesToGpu'
    BY <1>2, <2>3, <2>4, <2>5 DEF UnsureGoesToGpu
  <2>7. ByCalls'
    BY <2>1 DEF ByCalls
  <2> QED BY <1>4, <2>6, <2>7 DEF CallInv
<1>10. CASE ProxyAnswers \/ ProxyFails
  <2>1. pc = "proxy" /\ pc' = "answered"
    BY <1>10 DEF ProxyAnswers, ProxyFails, Answer
  <2>2. ByCalls'
    BY <2>1 DEF ByCalls
  <2>3. ASSUME calls' = <<Called(target, o)>>, calls = <<>> PROVE UnsureGoesToGpu'
    <3>1. calls'[1].id = target
      BY <2>3 DEF Called
    <3>2. strategy.type = "cascade" => \A s \in CascadeEntry :
            target = s.small_backend => ~Configured(s.large_backend)
      BY <2>1, <2>3 DEF CallInv, ByCalls
    <3> QED BY <1>1, <1>2, <3>1, <3>2 DEF UnsureGoesToGpu
  <2>4. ASSUME NEW s \in CascadeEntry, target = s.large_backend,
               calls' = <<Called(s.small_backend, "err"), Called(target, o)>>
        PROVE  UnsureGoesToGpu'
    <3>1. Len(calls') = 2 /\ calls'[2].outcome = o /\ calls'[2].id = s.large_backend
      BY <2>4 DEF Called
    <3>2. o = "ok" => response'[1].from = s.large_backend
      <4>1. CASE ProxyAnswers
        BY <2>4, <4>1 DEF ProxyAnswers, Answer, Response
      <4>2. CASE ProxyFails
        BY <1>3, <1>6, <4>2 DEF ProxyFails
      <4> QED BY <1>10, <4>1, <4>2
    <3>3. \A t \in CascadeEntry : t = s
      BY EntryType
    <3> QED BY <1>2, <3>1, <3>2, <3>3 DEF UnsureGoesToGpu
  <2>5. \/ calls' = <<Called(target, o)>> /\ calls = <<>>
        \/ \E s \in CascadeEntry :
             /\ target = s.large_backend
             /\ calls' = <<Called(s.small_backend, "err"), Called(target, o)>>
    BY <1>3, <2>1
  <2>6. UnsureGoesToGpu'
    BY <2>3, <2>4, <2>5
  <2> QED BY <1>4, <2>2, <2>6 DEF CallInv
<1>11. CASE CallPanics
  <2>1. pc' = "dropped" /\ response' = <<>>
    BY <1>11 DEF CallPanics, IInv, ByPlace
  <2>2. ByCalls' /\ UnsureGoesToGpu'
    BY <2>1 DEF ByCalls, UnsureGoesToGpu, Answered
  <2> QED BY <1>4, <2>2 DEF CallInv
<1> QED BY <1>7, <1>8, <1>9, <1>10, <1>11 DEF BackendStep

(* So the calls are as the invariant says in every reachable state.        *)
LEMMA CallInvHolds == Spec => []CallInv
<1>1. CallInv /\ UNCHANGED vars => CallInv'
  BY DEF CallInv, AtMostPair, ByCalls, UnsureGoesToGpu, Answered, CascadeEntry,
         Configured, vars
<1>2. IInv /\ CallInv /\ [Next]_vars => CallInv'
  BY <1>1, HandleCalls, BackendStepCalls DEF Next
<1> QED BY <1>2, CallInit, IInvHolds, PTL DEF Spec

(* No request asks the same backend twice, unless it is configured as both *)
(* the small and the large one of the cascade.                             *)
THEOREM NoBackendTwiceHolds == Spec => []NoBackendTwice
<1>1. CallInv => NoBackendTwice
  <2> SUFFICES ASSUME CallInv, NEW i \in 1 .. Len(calls), NEW j \in 1 .. Len(calls),
                      i < j, calls[i].id = calls[j].id
               PROVE  \E s \in CascadeEntry : s.small_backend = s.large_backend
    BY DEF NoBackendTwice
  <2>1. calls # <<>> /\ \A c : calls # <<c>>
    OBVIOUS
  <2>2. PICK s \in CascadeEntry, first \in Outcomes, second \in Outcomes :
          calls = <<Called(s.small_backend, first), Called(s.large_backend, second)>>
    BY <2>1 DEF CallInv, AtMostPair
  <2>3. i = 1 /\ j = 2
    BY <2>2
  <2> QED BY <2>2, <2>3 DEF Called
<1> QED BY <1>1, CallInvHolds, PTL

(* When the small backend was unsure, or failed, and there is a large one, *)
(* that one is asked, and its answer is the one that is given.             *)
THEOREM UnsureGoesToGpuHolds == Spec => []UnsureGoesToGpu
<1>1. CallInv => UnsureGoesToGpu
  BY DEF CallInv
<1> QED BY <1>1, CallInvHolds, PTL

=============================================================================

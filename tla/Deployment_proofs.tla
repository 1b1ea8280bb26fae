------------------------- MODULE Deployment_proofs --------------------------
(***************************************************************************)
(* What holds of router and npu-server together, for any number of         *)
(* clients, permits and backends.                                          *)
(***************************************************************************)
EXTENDS Deployment, NpuServer_proofs

(* The router makes npu-server do nothing that it does not do alone.       *)
LEMMA NpuRefinementStep == [Next]_vars => [NpuNext]_npuVars
<1> SUFFICES ASSUME [Next]_vars PROVE [NpuNext]_npuVars
  OBVIOUS
<1>1. CASE ServerStep \/ Signal \/ UNCHANGED vars
  BY <1>1 DEF ServerStep, Probe, Bind, Arm, StopAccepting, Exit, Signal, EndProcess, vars
<1>2. ASSUME NEW c \in Requests, Connect(c) \/ Ask(c) \/ RouterStep(c) \/ Leave(c)
      PROVE  UNCHANGED npuVars
  BY <1>2 DEF Connect, Accept, Ask, Receive, RouterStep, Reply, TimeOut, CallModels,
              CallCompletion, Read, CloseIdle, Leave
<1>3. ASSUME NEW c \in Requests, NpuStep(c) \/ NpuEngineExits(c)
      PROVE  NpuNext
  <2>1. CASE NpuRespond(c)
    <3>1. (kind[c] = "stream") \in BOOLEAN
      OBVIOUS
    <3> QED BY <2>1, <3>1 DEF NpuRespond, NpuNext
  <2>2. CASE NpuArrive(c) \/ NpuSpawn(c) \/ NpuCancel(c) \/ NpuEngineExits(c)
    BY <2>2 DEF NpuArrive, NpuSpawn, NpuCancel, NpuEngineExits, NpuNext
  <2> QED BY <1>3, <2>1, <2>2 DEF NpuStep
<1> QED BY <1>1, <1>2, <1>3 DEF Next

(* Behind the router npu-server behaves as it does alone, whatever the     *)
(* router's process and its clients do.                                    *)
THEOREM NpuStandsAlone == Spec => NpuSpec
<1>1. Init => NpuInit
  BY DEF Init
<1> QED BY <1>1, NpuRefinementStep, PTL DEF Spec, NpuSpec

(* So what holds of npu-server holds of it in the deployment.              *)
THEOREM NpuControlHolds ==
  Spec => [](PermitsConserved /\ WaitersInQueue /\ EnginesBounded)
BY NpuStandsAlone, PermitsConservedHolds, WaitersInQueueHolds, EnginesBoundedHolds, PTL

(* And what holds of its prompts and answers does.                         *)
THEOREM NpuAnswersHold ==
  ASSUME \A file \in Files : IdsAreOwn(file)
  PROVE  Spec => []KnownTextSurvives /\ AnswerContinuesPrompt
<1>1. NpuSpec => []KnownTextSurvives
  BY KnownTextSurvivesHolds
<1> QED BY <1>1, NpuStandsAlone, AnswerContinuesPromptHolds, PTL

-----------------------------------------------------------------------------
(* The types of what is the router's.                                      *)
RouterTypeOK ==
  /\ server \in {"probing", "serving", "stopping", "draining", "exited", "killed"}
  /\ probed \subseteq Range(Order) /\ armed \in BOOLEAN
  /\ conn \in [Requests -> Active \cup Over \cup {"backlog", "cut"}]
  /\ kind \in [Requests -> {"none", "chat", "stream", "models", "completion"}]
  /\ caller \in [Requests -> BOOLEAN]
  /\ results \in [Requests -> Seq(BOOLEAN)]
  /\ listed \in [Requests -> SUBSET Range(Order)]

(* A list of models under way has asked some backends, not all; one that   *)
(* is answered has asked all.  Nothing is known before the client asks,    *)
(* and only chats wait for npu-server.                                     *)
Asked(c) ==
  /\ conn[c] \in {"none", "backlog", "idle"} => kind[c] = "none"
  /\ conn[c] \in {"none", "backlog", "idle", "sending"} =>
       results[c] = <<>> /\ listed[c] = {} /\ ~caller[c]
  /\ conn[c] = "sending" => kind[c] # "models"
  /\ caller[c] => kind[c] \in {"chat", "stream"}
  /\ kind[c] = "models" =>
       /\ conn[c] = "handling" => Len(results[c]) < Len(Order)
       /\ conn[c] \in {"answering", "served"} => Len(results[c]) = Len(Order)
       /\ listed[c] = {Order[i] : i \in {j \in 1 .. Len(results[c]) : results[c][j]}}

(* What is cut is cut by a signal that came before the handlers.           *)
CutInv == (\E c \in Requests : conn[c] = "cut") => server = "killed" /\ ~armed

RouterInv == RouterTypeOK /\ (\A c \in Requests : Asked(c)) /\ CutInv

(* It holds when the process starts.                                       *)
LEMMA RouterInit == Init => RouterInv
<1> SUFFICES ASSUME Init PROVE RouterInv
  OBVIOUS
<1>1. /\ server = "probing" /\ probed = {} /\ armed = FALSE
      /\ conn = [c \in Requests |-> "none"]
      /\ kind = [c \in Requests |-> "none"]
      /\ caller = [c \in Requests |-> FALSE]
      /\ results = [c \in Requests |-> <<>>]
      /\ listed = [c \in Requests |-> {}]
  BY DEF Init
<1>2. <<>> \in Seq(BOOLEAN)
  OBVIOUS
<1>3. RouterTypeOK
  BY <1>1, <1>2 DEF RouterTypeOK, Over
<1>4. \A c \in Requests : Asked(c)
  BY <1>1 DEF Asked
<1>5. CutInv
  BY <1>1 DEF CutInv
<1> QED BY <1>3, <1>4, <1>5 DEF RouterInv

(* Steps of the process.                                                   *)
LEMMA ServerKeeps ==
  RouterInv /\ (ServerStep \/ Signal \/ UNCHANGED <<process, clients>>) => RouterInv'
<1> SUFFICES ASSUME RouterInv, ServerStep \/ Signal \/ UNCHANGED <<process, clients>>
             PROVE  RouterInv'
  OBVIOUS
<1> USE DEF RouterInv, RouterTypeOK, CutInv
<1>1. CASE UNCHANGED <<process, clients>>
  BY <1>1 DEF process, clients, Asked
<1>2. CASE Probe \/ Bind \/ Arm \/ (Signal /\ armed)
  <2>1. UNCHANGED clients
    BY <1>2 DEF Probe, Bind, Arm, Signal
  <2>2. \A c \in Requests : Asked(c)'
    BY <2>1 DEF clients, Asked
  <2>3. /\ server' \in {"serving", "stopping", "exited", "probing"}
        /\ probed' \subseteq Range(Order) /\ armed' \in BOOLEAN /\ server # "killed"
    BY <1>2 DEF Probe, Bind, Arm, Signal
  <2> QED BY <2>1, <2>2, <2>3 DEF clients
<1>4. CASE StopAccepting
  <2>1. /\ conn' = [c \in Requests |-> IF conn[c] = "backlog" THEN "reset" ELSE conn[c]]
        /\ UNCHANGED <<probed, armed, kind, caller, results, listed>>
        /\ server = "stopping" /\ server' = "draining"
    BY <1>4 DEF StopAccepting, WithoutBacklog
  <2>2. RouterTypeOK'
    BY <2>1 DEF Over
  <2>3. \A c \in Requests : Asked(c)'
    BY <2>1 DEF Asked
  <2>4. CutInv'
    BY <2>1
  <2> QED BY <2>2, <2>3, <2>4
<1>3. CASE Exit \/ (Signal /\ ~armed)
  <2>1. PICK how \in {"exited", "killed"} :
          /\ EndProcess(how)
          /\ how = "exited" => (\A c \in Requests : conn[c] \in Over) /\ server = "draining"
          /\ how = "killed" => ~armed
    BY <1>3 DEF Exit, Signal
  <2>2. /\ conn' = [c \in Requests |->
                      IF conn[c] \in Active THEN "cut"
                      ELSE IF conn[c] = "backlog" THEN "reset" ELSE conn[c]]
        /\ caller' = [c \in Requests |-> FALSE]
        /\ UNCHANGED <<probed, armed, kind, results, listed>> /\ server' = how
    BY <2>1 DEF EndProcess, WithoutBacklog
  <2>3. RouterTypeOK'
    BY <2>2 DEF Active, Over
  <2>4. \A c \in Requests : Asked(c)'
    BY <2>2 DEF Asked, Active
  <2>5. CutInv'
    BY <2>1, <2>2 DEF Active, Over
  <2> QED BY <2>3, <2>4, <2>5
<1> QED BY <1>1, <1>2, <1>3, <1>4 DEF ServerStep

(* The image of a set to which one element is added, or not.               *)
LEMMA ImageGrows ==
  ASSUME NEW f, NEW S, NEW T, NEW x, NEW ok \in BOOLEAN, T = S \cup (IF ok THEN {x} ELSE {})
  PROVE  {f[i] : i \in T} = IF ok THEN {f[i] : i \in S} \cup {f[x]} ELSE {f[i] : i \in S}
<1>1. CASE ok
  BY <1>1
<1>2. CASE ~ok
  BY <1>2
<1> QED BY <1>1, <1>2

(* The call that is next in a list of models.                              *)
LEMMA CallModelsKeeps ==
  ASSUME RouterInv, NEW c \in Requests, CallModels(c) PROVE RouterInv'
<1> USE DeploymentAssumption DEF RouterInv, RouterTypeOK
<1>1. PICK ok \in BOOLEAN :
        /\ results' = [results EXCEPT ![c] = Append(@, ok)]
        /\ listed' = [listed EXCEPT ![c] =
             IF ok THEN @ \cup {Order[Len(results'[c])]} ELSE @]
  BY DEF CallModels
<1>2. /\ kind[c] = "models" /\ conn[c] = "handling"
      /\ conn' = [conn EXCEPT ![c] = IF Len(results'[c]) < Len(Order)
                                     THEN "handling" ELSE "answering"]
      /\ UNCHANGED <<kind, caller, server, probed, armed>>
  BY DEF CallModels, process
<1> DEFINE n == Len(results[c])
<1>3. /\ n \in Nat /\ n < Len(Order) /\ Len(Order) \in Nat
      /\ results'[c] = Append(results[c], ok) /\ Len(results'[c]) = n + 1
      /\ results'[c][n + 1] = ok
      /\ \A i \in 1 .. n : results'[c][i] = results[c][i]
  BY <1>1, <1>2 DEF Asked
<1>4. /\ listed[c] = {Order[i] : i \in {j \in 1 .. n : results[c][j]}}
      /\ listed'[c] = IF ok THEN listed[c] \cup {Order[n + 1]} ELSE listed[c]
  BY <1>1, <1>2, <1>3 DEF Asked
<1>5. Order[n + 1] \in Range(Order)
  BY <1>3 DEF Range
<1>6. RouterTypeOK'
  <2>1. results' \in [Requests -> Seq(BOOLEAN)]
    BY <1>1
  <2>2. listed'[c] \subseteq Range(Order)
    BY <1>4, <1>5
  <2>3. listed' \in [Requests -> SUBSET Range(Order)]
    BY <1>1, <2>2
  <2> QED BY <1>2, <2>1, <2>3 DEF Active
<1>7. listed'[c] = {Order[i] : i \in {j \in 1 .. n + 1 : results'[c][j]}}
  <2>1. {j \in 1 .. n + 1 : results'[c][j]} =
          {j \in 1 .. n : results[c][j]} \cup (IF ok THEN {n + 1} ELSE {})
    <3>1. \A j : j \in 1 .. n + 1 <=> j \in 1 .. n \/ j = n + 1
      BY <1>3
    <3>2. CASE ok
      BY <1>3, <3>1, <3>2
    <3>3. CASE ~ok
      BY <1>3, <3>1, <3>3
    <3> QED BY <3>2, <3>3
  <2>2. PICK S, T : /\ S = {j \in 1 .. n : results[c][j]}
                    /\ T = {j \in 1 .. n + 1 : results'[c][j]}
    OBVIOUS
  <2>3. T = S \cup (IF ok THEN {n + 1} ELSE {})
    BY <2>1, <2>2
  <2>4. listed[c] = {Order[i] : i \in S}
    BY <1>4, <2>2
  <2>5. {Order[i] : i \in T} =
          IF ok THEN {Order[i] : i \in S} \cup {Order[n + 1]} ELSE {Order[i] : i \in S}
    BY <2>3, ImageGrows
  <2>6. listed'[c] = {Order[i] : i \in T}
    BY <1>4, <2>4, <2>5
  <2> QED BY <2>2, <2>6
<1>8. Asked(c)'
  <2>1. /\ conn'[c] \in {"handling", "answering"} /\ kind'[c] = "models"
        /\ conn'[c] = "handling" <=> Len(results'[c]) < Len(Order)
        /\ caller'[c] = caller[c]
    BY <1>2
  <2>2. ~caller'[c]
    BY <1>2, <2>1 DEF Asked
  <2>3. Len(results'[c]) = n + 1 /\ (~(n + 1 < Len(Order)) => n + 1 = Len(Order))
    BY <1>3
  <2>4. listed'[c] = {Order[i] : i \in {j \in 1 .. Len(results'[c]) : results'[c][j]}}
    BY <1>7, <2>3
  <2> HIDE DEF n
  <2> QED BY <2>1, <2>2, <2>3, <2>4 DEF Asked
<1>9. ASSUME NEW d \in Requests \ {c} PROVE Asked(d)'
  BY <1>1, <1>2 DEF Asked
<1>10. CutInv'
  BY <1>2 DEF CutInv
<1> QED BY <1>6, <1>8, <1>9, <1>10

(* Every other step at a connection.                                       *)
LEMMA ConnectionKeeps ==
  ASSUME RouterInv, NEW c \in Requests,
         \/ Connect(c) \/ Accept(c) \/ Ask(c) \/ Receive(c) \/ Reply(c) \/ TimeOut(c)
         \/ CallCompletion(c) \/ Read(c) \/ CloseIdle(c) \/ Leave(c)
  PROVE  RouterInv'
<1> USE DeploymentAssumption DEF RouterInv, RouterTypeOK
<1>0. Len(Order) \in Nat /\ Len(Order) > 0
  BY DEF Range
<1>1. CASE Connect(c) \/ Accept(c) \/ Read(c) \/ CloseIdle(c)
  <2>1. /\ UNCHANGED <<kind, caller, results, listed, server, probed, armed>>
        /\ \/ conn[c] = "none" /\ conn' = [conn EXCEPT ![c] = "backlog"]
           \/ conn[c] = "backlog" /\ conn' = [conn EXCEPT ![c] = "idle"]
           \/ conn[c] = "answering" /\ conn' = [conn EXCEPT ![c] = "served"]
           \/ conn' = [conn EXCEPT ![c] = "closed"]
    BY <1>1 DEF Connect, Accept, Read, CloseIdle, Becomes, process
  <2>2. RouterTypeOK' /\ CutInv'
    BY <2>1 DEF Active, Over, CutInv
  <2>3. ASSUME NEW d \in Requests \ {c} PROVE Asked(d)'
    <3>1. /\ Asked(d) /\ conn'[d] = conn[d]
          /\ kind' = kind /\ caller' = caller /\ results' = results /\ listed' = listed
      BY <2>1
    <3> QED BY ONLY <3>1 DEF Asked
  <2>4. Asked(c)'
    <3>1. \/ conn[c] = "none" /\ conn'[c] = "backlog"
          \/ conn[c] = "backlog" /\ conn'[c] = "idle"
          \/ conn[c] = "answering" /\ conn'[c] = "served"
          \/ conn'[c] = "closed"
      BY <2>1
    <3> QED BY <2>1, <3>1 DEF Asked
  <2> QED BY <2>2, <2>3, <2>4
<1>2. CASE Ask(c)
  <2>1. PICK k \in Kinds[c] :
          /\ conn[c] = "idle"
          /\ conn' = [conn EXCEPT ![c] = IF k = "models" THEN "handling" ELSE "sending"]
          /\ kind' = [kind EXCEPT ![c] = k]
          /\ UNCHANGED <<caller, results, listed, server, probed, armed>>
    BY <1>2 DEF Ask, Becomes, process
  <2>2. k \in {"chat", "stream", "models", "completion"}
    OBVIOUS
  <2>3. RouterTypeOK' /\ CutInv'
    BY <2>1, <2>2 DEF Active, Over, CutInv
  <2>4. Asked(c)'
    <3>1. results'[c] = <<>> /\ listed'[c] = {} /\ Len(results'[c]) = 0 /\ ~caller'[c]
      BY <2>1 DEF Asked
    <3>2. {Order[i] : i \in {j \in 1 .. 0 : results'[c][j]}} = {}
      OBVIOUS
    <3> QED BY <1>0, <2>1, <2>2, <3>1, <3>2 DEF Asked
  <2>5. ASSUME NEW d \in Requests \ {c} PROVE Asked(d)'
    BY <2>1 DEF Asked
  <2> QED BY <2>3, <2>4, <2>5
<1>6. CASE Receive(c)
  <2>1. /\ conn[c] = "sending"
        /\ \E to \in {"handling", "answering"} : conn' = [conn EXCEPT ![c] = to]
        /\ \/ caller' = [caller EXCEPT ![c] = kind[c] \in {"chat", "stream"}]
           \/ caller' = caller
        /\ UNCHANGED <<kind, results, listed, server, probed, armed>>
    BY <1>6 DEF Receive, Becomes, process
  <2>2. RouterTypeOK'
    <3>1. caller' \in [Requests -> BOOLEAN]
      <4> DEFINE waits == kind[c] \in {"chat", "stream"}
      <4>1. waits \in BOOLEAN /\ caller \in [Requests -> BOOLEAN]
        OBVIOUS
      <4>2. caller' = [caller EXCEPT ![c] = waits] \/ caller' = caller
        BY <2>1
      <4> HIDE DEF waits
      <4> QED BY <4>1, <4>2
    <3>2. conn' \in [Requests -> Active \cup Over \cup {"backlog", "cut"}]
      BY <2>1 DEF Active
    <3> QED BY <2>1, <3>1, <3>2
  <2>3. CutInv'
    BY <2>1 DEF CutInv
  <2>4. kind[c] # "models"
    BY <2>1 DEF Asked
  <2>5. \A d \in Requests : Asked(d)'
    BY <2>1, <2>4 DEF Asked
  <2> QED BY <2>2, <2>3, <2>5
<1>3. CASE Reply(c) \/ TimeOut(c)
  <2>1. /\ caller[c] /\ caller' = [caller EXCEPT ![c] = FALSE]
        /\ UNCHANGED <<kind, results, listed, server, probed, armed>>
        /\ \E to \in {conn[c], "closed", "answering"} : conn' = [conn EXCEPT ![c] = to]
    BY <1>3 DEF Reply, TimeOut, AfterError, process
  <2>2. RouterTypeOK'
    <3>1. caller' \in [Requests -> BOOLEAN]
      BY <2>1
    <3>2. conn' \in [Requests -> Active \cup Over \cup {"backlog", "cut"}]
      BY <2>1 DEF Active, Over
    <3> QED BY <2>1, <3>1, <3>2
  <2>3. CutInv'
    BY <2>1 DEF CutInv
  <2>4. /\ kind[c] \in {"chat", "stream"}
        /\ conn[c] \notin {"none", "backlog", "idle", "sending"}
    BY <2>1 DEF Asked
  <2>5. \A d \in Requests : Asked(d)'
    BY <2>1, <2>4 DEF Asked
  <2> QED BY <2>2, <2>3, <2>5
<1>4. CASE CallCompletion(c)
  <2>1. PICK ok \in BOOLEAN :
          /\ kind[c] = "completion" /\ conn' = [conn EXCEPT ![c] = "answering"]
          /\ results' = [results EXCEPT ![c] = <<ok>>]
          /\ UNCHANGED <<kind, caller, listed, server, probed, armed>>
    BY <1>4 DEF CallCompletion, Becomes, process
  <2>2. RouterTypeOK' /\ CutInv'
    BY <2>1 DEF Active, Over, CutInv
  <2>3. \A d \in Requests : Asked(d)'
    BY <2>1 DEF Asked
  <2> QED BY <2>2, <2>3
<1>5. CASE Leave(c)
  <2>1. /\ conn' = [conn EXCEPT ![c] = "closed"]
        /\ caller' = [caller EXCEPT ![c] = @ /\ kind[c] = "stream"]
        /\ UNCHANGED <<kind, results, listed, server, probed, armed>>
    BY <1>5 DEF Leave, process
  <2>2. RouterTypeOK' /\ CutInv'
    BY <2>1 DEF Active, Over, CutInv
  <2>3. \A d \in Requests : Asked(d)'
    BY <2>1 DEF Asked
  <2> QED BY <2>2, <2>3
<1> QED BY <1>1, <1>2, <1>3, <1>4, <1>5, <1>6

(* Every step of the deployment keeps the invariant.                       *)
LEMMA RouterStepKeeps == RouterInv /\ [Next]_vars => RouterInv'
<1> SUFFICES ASSUME RouterInv, [Next]_vars PROVE RouterInv'
  OBVIOUS
<1>1. ASSUME NEW c \in Requests, NpuStep(c) \/ NpuEngineExits(c)
      PROVE  UNCHANGED <<process, clients>>
  BY <1>1 DEF NpuStep, NpuArrive, NpuSpawn, NpuRespond, NpuCancel, NpuEngineExits
<1>2. ASSUME NEW c \in Requests, Connect(c) \/ Ask(c) \/ RouterStep(c) \/ Leave(c)
      PROVE  RouterInv'
  BY <1>2, CallModelsKeeps, ConnectionKeeps DEF RouterStep
<1> QED BY <1>1, <1>2, ServerKeeps DEF Next, vars

(* So it holds for ever.                                                   *)
LEMMA RouterHolds == Spec => []RouterInv
BY RouterInit, RouterStepKeeps, PTL DEF Spec

(* The control of both programs has its types.                             *)
THEOREM TypeCorrect == Spec => []TypeOK
<1>1. NpuTypeOK /\ RouterInv => TypeOK
  BY DEF TypeOK, RouterInv, RouterTypeOK
<1> QED BY <1>1, NpuStandsAlone, NpuTypeCorrect, RouterHolds, PTL

(* Once its signal handlers are installed the router never breaks a        *)
(* connection by shutting down.                                            *)
THEOREM ShutdownCutsNothingHolds == Spec => []ShutdownCutsNothing
<1>1. RouterInv => ShutdownCutsNothing
  BY DEF RouterInv, CutInv, ShutdownCutsNothing
<1> QED BY <1>1, RouterHolds, PTL

(* A list of models that reaches a client has those of every backend that  *)
(* answered.                                                               *)
THEOREM ModelsCompleteHolds == Spec => []ModelsComplete
<1>1. RouterInv => ModelsComplete
  <2> SUFFICES ASSUME RouterInv, NEW c \in Requests,
                      kind[c] = "models", conn[c] \in {"answering", "served"}
               PROVE  /\ Len(results[c]) = Len(Order)
                      /\ listed[c] = {Order[i] : i \in {j \in DOMAIN Order : results[c][j]}}
    BY DEF ModelsComplete
  <2>1. DOMAIN Order = 1 .. Len(Order)
    BY DeploymentAssumption
  <2> QED BY <2>1 DEF RouterInv, Asked
<1> QED BY <1>1, RouterHolds, PTL

=============================================================================

----------------------------- MODULE Deployment -----------------------------
(***************************************************************************)
(* The router's process (main.rs, handlers.rs) from its start to the end   *)
(* of its graceful shutdown, with the connections of its clients, in front *)
(* of an npu-server: a client's chat request becomes the request of the    *)
(* same name there.  Requests for the list of models and for completions   *)
(* are the other traffic.                                                  *)
(*                                                                         *)
(* What is axum's and hyper's is modelled as run_server uses it: on the    *)
(* signal the listener is closed with the connections it has not accepted, *)
(* idle connections are closed, and the server returns when the last       *)
(* request is answered.                                                    *)
(***************************************************************************)
EXTENDS NpuServer

CONSTANTS
  Order,       \* the backends' ids in the order of the pool's map
  Npu,         \* the one of them that is npu-server
  Kinds        \* what each client may ask for

ASSUME DeploymentAssumption ==
  /\ Order \in Seq(Range(Order)) /\ Npu \in Range(Order)
  /\ Kinds \in [Requests -> SUBSET {"chat", "stream", "models", "completion"}]

VARIABLES
  server,   \* what run_server is doing
  probed,   \* backends whose first health check has ended
  armed,    \* are the signal handlers installed?
  conn,     \* the connection of each client
  kind,     \* what the client has asked for
  caller,   \* does the router wait for npu-server's answer to this request?
  results,  \* how the calls to the pool's backends ended, in order
  listed    \* the backends whose models will be in the answer

process == <<server, probed, armed>>
clients == <<conn, kind, caller, results, listed>>
vars == <<npuVars, process, clients>>

Listening == server \in {"serving", "stopping"}
Closing == server \in {"stopping", "draining"}
Active == {"idle", "sending", "handling", "answering", "served"}
Over == {"none", "closed", "reset"}

Init ==
  /\ NpuInit
  /\ server = "probing" /\ probed = {} /\ armed = FALSE
  /\ conn = [c \in Requests |-> "none"]
  /\ kind = [c \in Requests |-> "none"]
  /\ caller = [c \in Requests |-> FALSE]
  /\ results = [c \in Requests |-> <<>>]
  /\ listed = [c \in Requests |-> {}]

-----------------------------------------------------------------------------
(* The process                                                             *)

(* health_check_all of the start: every check ends, by its timeout of 5 s. *)
Probe ==
  /\ server = "probing"
  /\ \E b \in Range(Order) \ probed : probed' = probed \cup {b}
  /\ UNCHANGED <<server, armed, npuVars, clients>>

(* Then the listener is bound, or the address is taken.                    *)
Bind ==
  /\ server = "probing"
  /\ probed = Range(Order)
  /\ server' \in {"serving", "exited"}
  /\ UNCHANGED <<probed, armed, npuVars, clients>>

(* axum spawns shutdown_signal as a task; its first poll installs the      *)
(* handlers.                                                               *)
Arm ==
  /\ server = "serving" /\ ~armed
  /\ armed' = TRUE
  /\ UNCHANGED <<server, probed, npuVars, clients>>

(* The kernel resets the connections in the backlog of a closed listener.  *)
WithoutBacklog == [c \in Requests |-> IF conn[c] = "backlog" THEN "reset" ELSE conn[c]]

(* The process ends with its tasks; what connections there are break.      *)
EndProcess(how) ==
  /\ server' = how
  /\ conn' = [c \in Requests |-> IF conn[c] \in Active THEN "cut" ELSE WithoutBacklog[c]]
  /\ caller' = [c \in Requests |-> FALSE]
  /\ UNCHANGED <<probed, armed, kind, results, listed, npuVars>>

(* SIGTERM or Ctrl+C.  Later ones change nothing: Tokio's handlers stay.   *)
Signal ==
  \/ /\ server = "serving" /\ armed
     /\ server' = "stopping"
     /\ UNCHANGED <<probed, armed, npuVars, clients>>
  \/ /\ server \in {"probing", "serving"} /\ ~armed
     /\ EndProcess("killed")

(* The accept loop sees the signal and drops the listener.                 *)
StopAccepting ==
  /\ server = "stopping"
  /\ server' = "draining"
  /\ conn' = WithoutBacklog
  /\ UNCHANGED <<probed, armed, kind, caller, results, listed, npuVars>>

(* Mutant of Exit: the server returns with the signal.                     *)
ExitAtOnce ==
  /\ server = "draining"
  /\ EndProcess("exited")

(* The last connection is closed; run_server and main return.              *)
Exit ==
  /\ server = "draining"
  /\ \A c \in Requests : conn[c] \in Over
  /\ EndProcess("exited")

ServerStep == Probe \/ Bind \/ Arm \/ StopAccepting \/ Exit

-----------------------------------------------------------------------------
(* The connections and the handlers                                        *)

Becomes(c, from, to) == conn[c] = from /\ conn' = [conn EXCEPT ![c] = to]

(* The kernel completes a connection as long as there is a listener, and   *)
(* the accept loop takes it.                                               *)
Connect(c) ==
  /\ Listening
  /\ Becomes(c, "none", "backlog")
  /\ UNCHANGED <<kind, caller, results, listed, process, npuVars>>

Accept(c) ==
  /\ Listening
  /\ Becomes(c, "backlog", "idle")
  /\ UNCHANGED <<kind, caller, results, listed, process, npuVars>>

(* The head of a request arrives.  What is posted has a body, for which    *)
(* its handler's Bytes wait without a limit of time.                       *)
Ask(c) ==
  /\ \E k \in Kinds[c] :
       /\ Becomes(c, "idle", IF k = "models" THEN "handling" ELSE "sending")
       /\ kind' = [kind EXCEPT ![c] = k]
  /\ UNCHANGED <<caller, results, listed, process, npuVars>>

(* The body is complete: a body that is no JSON gets a 400.  The cascade's *)
(* handler returns as soon as it has spawned its task, with a body that    *)
(* ends when the task does.                                                *)
Receive(c) ==
  /\ \/ /\ Becomes(c, "sending", IF kind[c] = "stream" THEN "answering" ELSE "handling")
        /\ caller' = [caller EXCEPT ![c] = kind[c] \in {"chat", "stream"}]
     \/ Becomes(c, "sending", "answering") /\ UNCHANGED caller
  /\ UNCHANGED <<kind, results, listed, process, npuVars>>

(* A call that failed panics in record_failure (see CircuitBreaker): its   *)
(* connection is dropped, or the body of a stream ends.                    *)
AfterError(c) == IF kind[c] = "stream" THEN conn[c] ELSE "closed"

(* npu-server's reply: its errors are plain text, which is no JSON.  A     *)
(* stream's reply is read to its end whatever its status.                  *)
Reply(c) ==
  /\ caller[c] /\ Replied(c)
  /\ caller' = [caller EXCEPT ![c] = FALSE]
  /\ conn' = [conn EXCEPT ![c] =
                IF phase[c] # "answered" THEN AfterError(c)
                ELSE IF kind[c] = "chat" THEN "answering" ELSE conn[c]]
  /\ UNCHANGED <<kind, results, listed, process, npuVars>>

(* Mutant of TimeOut: the call of a stream has no limit of time.           *)
TimeOutChats(c) ==
  /\ caller[c] /\ ~Replied(c) /\ kind[c] = "chat"
  /\ caller' = [caller EXCEPT ![c] = FALSE]
  /\ conn' = [conn EXCEPT ![c] = AfterError(c)]
  /\ UNCHANGED <<kind, results, listed, process, npuVars>>

(* The 600 s are over, or npu-server cannot be reached.  A stream's are    *)
(* those of its whole body.                                                *)
TimeOut(c) ==
  /\ caller[c] /\ ~Replied(c)
  /\ caller' = [caller EXCEPT ![c] = FALSE]
  /\ conn' = [conn EXCEPT ![c] = AfterError(c)]
  /\ UNCHANGED <<kind, results, listed, process, npuVars>>

(* Mutant of CallModels: the first call that fails ends the list.          *)
CallModelsUntilError(c) ==
  /\ kind[c] = "models" /\ conn[c] = "handling"
  /\ \E ok \in BOOLEAN :
       /\ results' = [results EXCEPT ![c] = Append(@, ok)]
       /\ listed' = [listed EXCEPT ![c] = IF ok THEN @ \cup {Order[Len(results'[c])]} ELSE @]
       /\ conn' = [conn EXCEPT ![c] = IF ok /\ Len(results'[c]) < Len(Order)
                                      THEN "handling" ELSE "answering"]
  /\ UNCHANGED <<kind, caller, process, npuVars>>

(* list_models asks one backend after another; one that fails is skipped.  *)
CallModels(c) ==
  /\ kind[c] = "models" /\ conn[c] = "handling"
  /\ \E ok \in BOOLEAN :
       /\ results' = [results EXCEPT ![c] = Append(@, ok)]
       /\ listed' = [listed EXCEPT ![c] = IF ok THEN @ \cup {Order[Len(results'[c])]} ELSE @]
  /\ conn' = [conn EXCEPT ![c] = IF Len(results'[c]) < Len(Order)
                                 THEN "handling" ELSE "answering"]
  /\ UNCHANGED <<kind, caller, process, npuVars>>

(* completions asks the first backend of the pool and no other, round the  *)
(* circuit; npu-server has no such endpoint.                               *)
CallCompletion(c) ==
  /\ kind[c] = "completion"
  /\ Becomes(c, "handling", "answering")
  /\ \E ok \in BOOLEAN :
       /\ Order[1] = Npu => ~ok
       /\ results' = [results EXCEPT ![c] = <<ok>>]
  /\ UNCHANGED <<kind, caller, listed, process, npuVars>>

(* The client has read its answer to the end.                              *)
Read(c) ==
  /\ ~caller[c]
  /\ Becomes(c, "answering", "served")
  /\ UNCHANGED <<kind, caller, results, listed, process, npuVars>>

(* Once the signal is seen, connections between requests are closed.       *)
CloseIdle(c) ==
  /\ Closing
  /\ Becomes(c, "idle", "closed") \/ Becomes(c, "served", "closed")
  /\ UNCHANGED <<kind, caller, results, listed, process, npuVars>>

(* The client goes away: a handler that waits is dropped with its call,    *)
(* the task of a cascade is not.                                           *)
Leave(c) ==
  /\ conn[c] \in Active \cup {"backlog"}
  /\ conn' = [conn EXCEPT ![c] = "closed"]
  /\ caller' = [caller EXCEPT ![c] = @ /\ kind[c] = "stream"]
  /\ UNCHANGED <<kind, results, listed, process, npuVars>>

RouterStep(c) ==
  \/ Accept(c) \/ Receive(c) \/ Reply(c) \/ TimeOut(c)
  \/ CallModels(c) \/ CallCompletion(c) \/ Read(c) \/ CloseIdle(c)

-----------------------------------------------------------------------------
(* npu-server, called by the router                                        *)

NpuArrive(c) == caller[c] /\ (Refuse(c) \/ Arrive(c)) /\ UNCHANGED <<process, clients>>
NpuSpawn(c) == Spawn(c) /\ UNCHANGED <<process, clients>>
NpuRespond(c) == Respond(c, kind[c] = "stream") /\ UNCHANGED <<process, clients>>
NpuEngineExits(c) == EngineExits(c) /\ UNCHANGED <<process, clients>>

(* Mutant of NpuCancel: a request that runs is finished for nobody.        *)
NpuCancelQueued(c) ==
  ~caller[c] /\ phase[c] = "queued" /\ Cancel(c) /\ UNCHANGED <<process, clients>>

(* It sees that the router has dropped its call.                           *)
NpuCancel(c) == ~caller[c] /\ Cancel(c) /\ UNCHANGED <<process, clients>>

NpuStep(c) == NpuArrive(c) \/ NpuSpawn(c) \/ NpuRespond(c) \/ NpuCancel(c)

Next ==
  \/ ServerStep \/ Signal
  \/ \E c \in Requests : \/ Connect(c) \/ Ask(c) \/ RouterStep(c) \/ Leave(c)
                         \/ NpuStep(c) \/ NpuEngineExits(c)

Spec == Init /\ [][Next]_vars

(***************************************************************************)
(* Both programs take their steps, calls are timed out, and a client that  *)
(* has begun to send its request sends the rest and one that stays reads,  *)
(* or leaves: no limit of the router makes it.  No engine need ever exit,  *)
(* no client come, ask or leave, no signal be sent.                        *)
(***************************************************************************)
FairSpec ==
  /\ Spec
  /\ WF_vars(ServerStep)
  /\ \A c \in Requests : WF_vars(RouterStep(c)) /\ WF_vars(NpuStep(c))

-----------------------------------------------------------------------------
(* Properties                                                              *)

(* Every variable of the control has its type.                             *)
TypeOK ==
  /\ NpuTypeOK
  /\ server \in {"probing", "serving", "stopping", "draining", "exited", "killed"}
  /\ probed \subseteq Range(Order) /\ armed \in BOOLEAN
  /\ conn \in [Requests -> Active \cup Over \cup {"backlog", "cut"}]
  /\ kind \in [Requests -> {"none", "chat", "stream", "models", "completion"}]
  /\ caller \in [Requests -> BOOLEAN]
  /\ results \in [Requests -> Seq(BOOLEAN)]
  /\ listed \in [Requests -> SUBSET Range(Order)]

(* Once the signal handlers are installed no shutdown breaks a connection  *)
(* that was accepted, not even one on which a request is being sent; what  *)
(* waits in the backlog is reset (handlers.rs:852-854, 860: "trigger       *)
(* graceful shutdown").                                                    *)
ShutdownCutsNothing == armed => \A c \in Requests : conn[c] # "cut"

(* The list of models that a client gets has those of every backend that   *)
(* answered, however many did not (handlers.rs:145-152).                   *)
ModelsComplete ==
  \A c \in Requests :
    (kind[c] = "models" /\ conn[c] \in {"answering", "served"}) =>
      /\ Len(results[c]) = Len(Order)
      /\ listed[c] = {Order[i] : i \in {j \in DOMAIN Order : results[c][j]}}

(* A graceful shutdown ends even if an engine hangs, for every call that   *)
(* it waits for is timed out, those of streams too, if clients send what   *)
(* they have begun to send (handlers.rs:852-854, client.rs:224, 265).      *)
DrainEnds == (server = "stopping") ~> (server = "exited")

(* No request waits for npu-server's engine for ever, for its turn or for  *)
(* its process, even if every engine hangs: once its caller gives up, its  *)
(* place is free (npu-server.rs:131, 139-145).                             *)
WaitingEnds == <>[](\A r \in Requests : phase[r] # "queued" /\ ~Holds(r))

=============================================================================

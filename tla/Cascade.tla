------------------------------ MODULE Cascade ------------------------------
(***************************************************************************)
(* One streaming cascade session (src/cascade.rs): the task run_cascade    *)
(* reads the NPU's event stream, watches the confidence of its tokens, and *)
(* switches to the GPU when it drops; what it relays goes through a        *)
(* bounded channel to a client that reads it, or goes away.                *)
(*                                                                         *)
(* The NPU's stream is a sequence of events, each framed by a blank line.  *)
(* The network cuts it where it likes, so an event has two halves, and a   *)
(* chunk is a range of halves: it may hold one event, several, or parts.   *)
(* An event carries at most one data line, as the OpenAI protocol has it.  *)
(***************************************************************************)
EXTENDS Integers, Sequences, FiniteSets, Functions

CONSTANTS
  LogProbs,     \* the log-probabilities a token may come with
  Threshold,    \* switch when the window's average is below this
  Window,       \* CONFIDENCE_WINDOW
  Capacity,     \* capacity of the channel to the client
  Networks,     \* ways the network may cut the NPU's stream: how many halves
                \* of events a chunk may hold; bound: events the NPU sends
  MaxGpuEvents, \* bound: events the GPU sends
  KvIds,        \* are the backend ids given, so that a KV handoff is tried?
  CallsPanic    \* does a failing call panic (see CircuitBreaker) or return Err?

ASSUME CascadeAssumption ==
  /\ LogProbs \subseteq Int /\ Threshold \in Int
  /\ Window \in Nat \ {0} /\ Capacity \in Nat \ {0}
  /\ Networks \subseteq [sizes : SUBSET (Nat \ {0}), events : Nat]
  /\ MaxGpuEvents \in Nat
  /\ KvIds \in BOOLEAN /\ CallsPanic \in BOOLEAN

VARIABLES
  network,           \* how the NPU's stream is cut, fixed for the session
  phase,             \* where run_cascade is
  received,          \* halves of NPU events received so far
  chunk,             \* the chunk being processed
  npu,               \* the NPU events taken out of sse_buf so far
  accumulated,       \* the tokens among them, by position in npu
  recent_logprobs,   \* the last Window log-probabilities
  gpu_context,       \* the assistant text the GPU was asked to continue
  gpu,               \* GPU events read so far
  sent,              \* what was put into the channel
  taken,             \* how much of it the client has read
  connected          \* does the client still hold the receiver?

session == <<phase, received, chunk, npu, accumulated, recent_logprobs,
                 gpu_context, gpu>>
channel == <<sent, taken, connected>>
vars == <<network, session, channel>>

(***************************************************************************)
(* Events of the NPU.  A data event may have a token, a log-probability,   *)
(* both or neither; a comment or the [DONE] marker is skipped.             *)
(***************************************************************************)
Event(kind, text, lp) == [kind |-> kind, text |-> text, lp |-> lp]
Optional(S) == {<<>>} \cup {<<x>> : x \in S}
DataEvents == {Event("data", text, lp) : text \in BOOLEAN, lp \in Optional(LogProbs)}
SkippedEvents == {Event("comment", FALSE, <<>>), Event("done", FALSE, <<>>)}

(* What goes to the client: a raw NPU chunk, a GPU event, the final marker. *)
Items == [src : {"npu", "gpu", "done"}, lo : Nat, hi : Nat]
Item(src, lo, hi) == [src |-> src, lo |-> lo, hi |-> hi]
Done == Item("done", 0, 0)

(* "broken": a backend failed, and the error is about to be returned.      *)
Phases == {"connecting", "reading", "parsing", "forwarding", "npu_done",
           "exporting", "importing", "starting", "broken",
           "gpu", "gpu_sending", "gpu_done", "ended", "failed"}

Goto(from, to) == phase = from /\ phase' = to

(* The event that is next in sse_buf is complete.                          *)
HasEvent == received >= 2 * (Len(npu) + 1)

(* Mutant of Slide: nothing falls out.                                     *)
SlideKeepsAll(window, lp) == window \o lp

(* The sliding window: the oldest log-probability falls out.               *)
Slide(window, lp) ==
  LET longer == window \o lp
  IN  IF Len(longer) > Window THEN Tail(longer) ELSE longer

(* Mutant of LowConfidence: the last token alone decides.                  *)
LowLastToken(window, tokens) ==
  /\ Len(window) >= Window
  /\ Len(tokens) >= Window
  /\ window[Len(window)] < Threshold

(* Enough tokens and log-probabilities, and their average too low.         *)
LowConfidence(window, tokens) ==
  /\ Len(window) >= Window
  /\ Len(tokens) >= Window
  /\ SumFunction(window) < Threshold * Len(window)

(* Mutant of Send: it waits for room even when the client is gone.         *)
SendToTheGone(item) ==
  /\ Len(sent) - taken < Capacity
  /\ sent' = IF connected THEN Append(sent, item) ELSE sent
  /\ UNCHANGED <<taken, connected>>

(***************************************************************************)
(* tx.send(item).await: waits for room while the client listens; once the  *)
(* receiver is gone it returns an error, which every caller ignores.       *)
(***************************************************************************)
Send(item) ==
  /\ IF connected
     THEN /\ Len(sent) - taken < Capacity
          /\ sent' = Append(sent, item)
     ELSE UNCHANGED sent
  /\ UNCHANGED <<taken, connected>>

Init ==
  /\ network \in Networks
  /\ phase = "connecting"
  /\ received = 0
  /\ chunk = <<0, 0>>
  /\ npu = <<>>
  /\ accumulated = <<>>
  /\ recent_logprobs = <<>>
  /\ gpu_context = <<>>
  /\ gpu = 0
  /\ sent = <<>>
  /\ taken = 0
  /\ connected = TRUE

-----------------------------------------------------------------------------
(* The NPU phase                                                           *)

NpuConnect ==
  /\ \/ Goto("connecting", "reading")
     \/ Goto("connecting", "broken")
  /\ UNCHANGED <<received, chunk, npu, accumulated, recent_logprobs,
                 gpu_context, gpu, channel>>

(* npu_stream.next() yields a chunk, which is appended to sse_buf.         *)
NpuChunk ==
  /\ Goto("reading", "parsing")
  /\ \E n \in network.sizes :
       /\ received + n <= 2 * network.events
       /\ received' = received + n
       /\ chunk' = <<received, received + n>>
  /\ UNCHANGED <<npu, accumulated, recent_logprobs,
                 gpu_context, gpu, channel>>

(* It yields an error, or nothing more; half an event in sse_buf is lost.  *)
NpuStops ==
  /\ \/ Goto("reading", "broken")
     \/ Goto("reading", "npu_done")
  /\ UNCHANGED <<received, chunk, npu, accumulated, recent_logprobs,
                 gpu_context, gpu, channel>>

(* A comment, or the [DONE] marker: parse_sse_chunk returns None for both. *)
SkipEvent ==
  /\ Goto("parsing", "parsing")
  /\ HasEvent
  /\ \E e \in SkippedEvents : npu' = Append(npu, e)
  /\ UNCHANGED <<received, chunk, accumulated, recent_logprobs,
                 gpu_context, gpu, channel>>

(* Mutant of ParseEvent: the token that triggers the switch is forgotten.  *)
ParseForgetsTrigger ==
  /\ phase = "parsing"
  /\ HasEvent
  /\ \E e \in DataEvents :
       LET tokens == IF e.text THEN Append(accumulated, Len(npu) + 1) ELSE accumulated
           window == Slide(recent_logprobs, e.lp)
           low == LowConfidence(window, tokens)
       IN  /\ npu' = Append(npu, e)
           /\ accumulated' = IF low THEN accumulated ELSE tokens
           /\ recent_logprobs' = window
           /\ phase' = IF low THEN "starting" ELSE "forwarding"
  /\ UNCHANGED <<received, chunk, gpu_context, gpu, channel>>

(* A data event: its token and log-probability are recorded, and it is     *)
(* decided whether to forward the chunk or to hand over to the GPU.        *)
ParseEvent ==
  /\ phase = "parsing"
  /\ HasEvent
  /\ \E e \in DataEvents :
       /\ npu' = Append(npu, e)
       /\ accumulated' = IF e.text THEN Append(accumulated, Len(npu) + 1)
                         ELSE accumulated
       /\ recent_logprobs' = Slide(recent_logprobs, e.lp)
       /\ phase' = IF LowConfidence(recent_logprobs', accumulated')
                   THEN IF KvIds THEN "exporting" ELSE "starting"
                   ELSE "forwarding"
  /\ UNCHANGED <<received, chunk, gpu_context, gpu, channel>>

(* Mutants of ForwardChunk: try_send drops the chunk when the channel is   *)
(* full; the whole buffer is forwarded instead of the chunk.               *)
ForwardTries ==
  /\ Goto("forwarding", "parsing")
  /\ sent' = IF connected /\ Len(sent) - taken < Capacity
             THEN Append(sent, Item("npu", chunk[1], chunk[2])) ELSE sent
  /\ UNCHANGED <<received, chunk, npu, accumulated, recent_logprobs,
                 gpu_context, gpu, taken, connected>>
ForwardBuffer ==
  /\ Goto("forwarding", "parsing")
  /\ Send(Item("npu", 0, chunk[2]))
  /\ UNCHANGED <<received, chunk, npu, accumulated, recent_logprobs,
                 gpu_context, gpu>>

(* The raw chunk goes to the client, once for every data event in it.      *)
ForwardChunk ==
  /\ Goto("forwarding", "parsing")
  /\ Send(Item("npu", chunk[1], chunk[2]))
  /\ UNCHANGED <<received, chunk, npu, accumulated, recent_logprobs,
                 gpu_context, gpu>>

(* No complete event is left in sse_buf.                                   *)
NextChunk ==
  /\ Goto("parsing", "reading")
  /\ ~HasEvent
  /\ UNCHANGED <<received, chunk, npu, accumulated, recent_logprobs,
                 gpu_context, gpu, channel>>

(* The NPU's stream ended: the client gets the router's own [DONE].        *)
SendNpuDone ==
  /\ Goto("npu_done", "ended")
  /\ Send(Done)
  /\ UNCHANGED <<received, chunk, npu, accumulated, recent_logprobs,
                 gpu_context, gpu>>

-----------------------------------------------------------------------------
(* The handoff                                                             *)

(* A failing call of the handoff: an Err is swallowed, a panic is not.     *)
AfterKvError == IF CallsPanic THEN "broken" ELSE "starting"

(* The NPU exports a handle, or has none to export, or the call fails.     *)
KvExport ==
  /\ \/ Goto("exporting", "importing")
     \/ Goto("exporting", "starting")
     \/ Goto("exporting", AfterKvError)
  /\ UNCHANGED <<received, chunk, npu, accumulated, recent_logprobs,
                 gpu_context, gpu, channel>>

(* The GPU imports it, or refuses to, or the call fails; whether it did is *)
(* only logged.                                                            *)
KvImport ==
  /\ \/ Goto("importing", "starting")
     \/ Goto("importing", AfterKvError)
  /\ UNCHANGED <<received, chunk, npu, accumulated, recent_logprobs,
                 gpu_context, gpu, channel>>

(* start_gpu: the accumulated text is appended to the request's messages,  *)
(* whatever became of the KV handoff.                                      *)
StartGpu ==
  /\ \/ Goto("starting", "gpu")
     \/ Goto("starting", "broken")
  /\ gpu_context' = accumulated
  /\ UNCHANGED <<received, chunk, npu, accumulated, recent_logprobs,
                 gpu, channel>>

(* Mutant of Abandon: the error is logged and the marker sent all the same. *)
AbandonWithMarker ==
  /\ Goto("broken", "ended")
  /\ Send(Done)
  /\ UNCHANGED <<received, chunk, npu, accumulated, recent_logprobs,
                 gpu_context, gpu>>

(* The error leaves run_cascade, by `?` or as a panic: the sender of the   *)
(* channel is dropped and the client's stream just stops.                  *)
Abandon ==
  /\ Goto("broken", "failed")
  /\ UNCHANGED <<received, chunk, npu, accumulated, recent_logprobs,
                 gpu_context, gpu, channel>>

-----------------------------------------------------------------------------
(* forward_gpu                                                             *)

(* The next complete event of the GPU.                                     *)
GpuEvent ==
  /\ Goto("gpu", "gpu_sending")
  /\ gpu < MaxGpuEvents
  /\ gpu' = gpu + 1
  /\ UNCHANGED <<received, chunk, npu, accumulated, recent_logprobs,
                 gpu_context, channel>>

ForwardGpu ==
  /\ Goto("gpu_sending", "gpu")
  /\ Send(Item("gpu", gpu - 1, gpu))
  /\ UNCHANGED <<received, chunk, npu, accumulated, recent_logprobs,
                 gpu_context, gpu>>

(* The GPU says [DONE], or ends its stream, or fails: all the same here.   *)
GpuStops ==
  /\ Goto("gpu", "gpu_done")
  /\ UNCHANGED <<received, chunk, npu, accumulated, recent_logprobs,
                 gpu_context, gpu, channel>>

(* Mutant of SendGpuDone: no return after the marker.                      *)
GpuDoneGoesOn ==
  /\ Goto("gpu_done", "gpu")
  /\ Send(Done)
  /\ UNCHANGED <<received, chunk, npu, accumulated, recent_logprobs,
                 gpu_context, gpu>>

SendGpuDone ==
  /\ Goto("gpu_done", "ended")
  /\ Send(Done)
  /\ UNCHANGED <<received, chunk, npu, accumulated, recent_logprobs,
                 gpu_context, gpu>>

-----------------------------------------------------------------------------
(* The client                                                              *)

Take ==
  /\ connected
  /\ taken < Len(sent)
  /\ taken' = taken + 1
  /\ UNCHANGED <<network, session, sent, connected>>

(* The client goes away and the receiver is dropped; run_cascade goes on.  *)
Leave ==
  /\ connected
  /\ connected' = FALSE
  /\ UNCHANGED <<network, session, sent, taken>>

(* Answers of the backends, which the 600 s timeout of each request bounds. *)
BackendStep ==
  /\ \/ NpuConnect \/ NpuChunk \/ NpuStops
     \/ KvExport \/ KvImport \/ StartGpu \/ GpuEvent \/ GpuStops
  /\ UNCHANGED network

(* Steps of run_cascade itself.                                            *)
RouterStep ==
  /\ \/ SkipEvent \/ ParseEvent \/ ForwardChunk \/ NextChunk \/ SendNpuDone
     \/ ForwardGpu \/ SendGpuDone \/ Abandon
  /\ UNCHANGED network

Next == BackendStep \/ RouterStep \/ Take \/ Leave

Spec == Init /\ [][Next]_vars

(***************************************************************************)
(* The runtime polls the task, the timeouts of the HTTP client end every   *)
(* wait for a backend, and a client that stays reads what is sent to it.   *)
(***************************************************************************)
FairSpec == Spec /\ WF_vars(BackendStep) /\ WF_vars(RouterStep) /\ WF_vars(Take)

-----------------------------------------------------------------------------
(* Properties                                                              *)

(* Every variable has the type its declaration gives it.                   *)
TypeOK ==
  /\ network \in Networks
  /\ phase \in Phases
  /\ received \in 0 .. 2 * network.events
  /\ chunk \in Nat \X Nat
  /\ npu \in Seq(DataEvents \cup SkippedEvents)
  /\ accumulated \in Seq(Nat)
  /\ recent_logprobs \in Seq(LogProbs) /\ Len(recent_logprobs) <= Window
  /\ gpu_context \in Seq(Nat)
  /\ gpu \in 0 .. MaxGpuEvents
  /\ sent \in Seq(Items)
  /\ taken \in 0 .. Len(sent)
  /\ connected \in BOOLEAN

NpuPhases == {"connecting", "reading", "parsing", "forwarding", "npu_done"}
HandoffPhases == {"exporting", "importing", "starting"}
GpuPhases == {"gpu", "gpu_sending", "gpu_done"}

Tokens(i) == {j \in 1 .. i : npu[j].text}
Scored(i) == {j \in 1 .. i : npu[j].lp # <<>>}

(* After event i, Window tokens and Window log-probabilities were seen and *)
(* the latest Window of these are too low on average: the rule stated on   *)
(* the NPU's whole answer rather than on the window the code slides.       *)
LowAt(i) ==
  /\ npu[i].kind = "data"
  /\ Cardinality(Tokens(i)) >= Window
  /\ \E S \in SUBSET Scored(i) :
       /\ Cardinality(S) = Window
       /\ \A j \in Scored(i) \ S, k \in S : j < k
       /\ SumFunction([j \in S |-> npu[j].lp[1]]) < Threshold * Window

(* The session leaves the NPU at the first event that is low, and at no    *)
(* other (cascade.rs:124-128): the sliding window loses and keeps no       *)
(* log-probability it should not.                                          *)
SwitchesAtFirstLow ==
  \A i \in 1 .. Len(npu) :
    /\ i < Len(npu) => ~LowAt(i)
    /\ i = Len(npu) => /\ phase \in NpuPhases => ~LowAt(i)
                       /\ phase \in HandoffPhases \cup GpuPhases => LowAt(i)

(* The GPU is asked to continue every token the NPU produced, in order,    *)
(* the one that triggered the switch included (cascade.rs:195-203).        *)
HandoffContextComplete ==
  phase \in GpuPhases =>
    /\ Range(gpu_context) = Tokens(Len(npu))
    /\ \A i, j \in DOMAIN gpu_context : i < j => gpu_context[i] < gpu_context[j]

(* Halves of NPU events that were put into the client's channel.           *)
Covered ==
  UNION {sent[i].lo + 1 .. sent[i].hi : i \in {j \in DOMAIN sent : sent[j].src = "npu"}}
Delivered(i) == {2 * i - 1, 2 * i} \subseteq Covered

(* Every chunk is exactly one event: the framing the router relies on.     *)
Aligned == network.sizes = {2}

(* A client that stays is sent every data event of the NPU, except the one *)
(* at which the session switched: what the router parsed is what the       *)
(* client sees (cascade.rs:178).                                           *)
NpuDataDelivered ==
  connected =>
    \A i \in 1 .. Len(npu) :
      npu[i].kind = "data" =>
        \/ Delivered(i)
        \/ i = Len(npu) /\ phase \notin {"parsing", "reading", "npu_done"}

(* So it is at least when every chunk is one event.                        *)
AlignedDataDelivered == Aligned => NpuDataDelivered

(* No part of the NPU's answer is sent to the client twice (stream.rs:3-4: *)
(* "merging them into a single coherent stream for the client").           *)
NpuDataOnce ==
  \A i, j \in DOMAIN sent :
    (i < j /\ sent[i].src = "npu" /\ sent[j].src = "npu") => sent[i].hi <= sent[j].lo

(* So it is at least when every chunk is one event: a chunk of two events  *)
(* is forwarded twice (cascade.rs:177-178).                                *)
AlignedDataOnce == Aligned => NpuDataOnce

(* The client has seen all the text the GPU was asked to continue          *)
(* (cascade.rs:5-6: "seamlessly switch to the capable backend").           *)
SeamlessHandoff ==
  (phase \in GpuPhases /\ connected) =>
    \A i \in Range(gpu_context) : Delivered(i)

(* The session ends, and a client that stays gets all that was sent to it. *)
SessionEnds ==
  /\ <>(phase \in {"ended", "failed"})
  /\ <>[](connected => taken = Len(sent))

(* The client's view: the channel's contents are the stream, and the       *)
(* handoff belongs to the NPU's part of it.                                *)
Client == INSTANCE ClientStream WITH
  Positions <- UNION {0 .. 2 * n.events : n \in Networks},
  out <- sent,
  source <- CASE phase \in GpuPhases -> "gpu"
              [] phase = "npu_done" -> "complete"
              [] phase = "broken" -> "broken"
              [] phase \in {"ended", "failed"} -> "none"
              [] OTHER -> "npu",
  relayed <- IF phase = "gpu_sending" THEN gpu - 1 ELSE gpu,
  listening <- connected

(* A cascade session keeps the promise of ClientStream, however the        *)
(* network cuts the streams, whatever fails, and whenever the client goes: *)
(* the marker follows a complete answer only (cascade.rs:93, 168-170, 183). *)
KeepsClientPromise == Client!Spec

(* The client sees NPU chunks, then GPU events once and in order, then at  *)
(* most one end marker of the router's, and nothing after it.              *)
StreamInOrder == Client!StreamShape /\ Client!GpuInOrder

=============================================================================

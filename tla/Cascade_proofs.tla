--------------------------- MODULE Cascade_proofs ---------------------------
(***************************************************************************)
(* What holds of a cascade session for every window, threshold, channel    *)
(* capacity, framing and length of the answers: its types, that it         *)
(* implements ClientStream, the promise made to the client, that the GPU   *)
(* is given the whole text so far, and that it takes over at the first     *)
(* token at which the NPU is unsure.                                       *)
(***************************************************************************)
EXTENDS Cascade, DataInduction, SequenceTheorems, TLAPS

(* The sliding window never holds more than Window log-probabilities.      *)
LEMMA SlideType ==
  ASSUME NEW window \in Seq(LogProbs), Len(window) <= Window,
         NEW lp \in Optional(LogProbs)
  PROVE  /\ Slide(window, lp) \in Seq(LogProbs)
         /\ Len(Slide(window, lp)) <= Window
<1> DEFINE longer == window \o lp
<1>1. longer \in Seq(LogProbs) /\ Len(longer) <= Len(window) + 1
  <2>1. CASE lp = <<>>
    BY <2>1
  <2>2. ASSUME NEW x \in LogProbs, lp = <<x>> PROVE <1>1!:
    BY <2>2
  <2> QED BY <2>1, <2>2 DEF Optional
<1>2. CASE Len(longer) > Window
  <2>1. longer # <<>>
    BY <1>1, <1>2, CascadeAssumption
  <2>2. Tail(longer) \in Seq(LogProbs) /\ Len(Tail(longer)) = Len(longer) - 1
    BY <1>1, <2>1
  <2> QED BY <1>1, <1>2, <2>2, CascadeAssumption DEF Slide
<1>3. CASE ~(Len(longer) > Window)
  BY <1>1, <1>3, CascadeAssumption DEF Slide
<1> QED BY <1>2, <1>3

(* A send puts at most one item, the given one, into the channel.          *)
LEMMA SendType ==
  ASSUME NEW S, sent \in Seq(S), taken \in 0 .. Len(sent), connected \in BOOLEAN,
         NEW item \in S, Send(item)
  PROVE  /\ sent' \in Seq(S)
         /\ sent' = IF connected THEN Append(sent, item) ELSE sent
         /\ taken' \in 0 .. Len(sent')
         /\ taken' = taken /\ connected' = connected
BY DEF Send

(***************************************************************************)
(* What the phase says of the data.  A chunk being processed is not empty  *)
(* and is the last one received; an event being sent was read; until the   *)
(* GPU starts, the channel holds only NPU chunks, none beyond the last.    *)
(***************************************************************************)
ProgressInv ==
  /\ chunk[2] = received
  /\ phase \in {"parsing", "forwarding"} => chunk[1] < chunk[2]
  /\ phase = "gpu_sending" => gpu > 0
  /\ phase \in NpuPhases \cup HandoffPhases =>
       /\ gpu = 0
       /\ \A i \in 1 .. Len(sent) : sent[i].hi <= chunk[2]

(* No step changes how the network cuts the stream.                        *)
LEMMA NetworkStays == [Next]_vars => network' = network
BY DEF Next, BackendStep, RouterStep, Take, Leave, vars

(* Every step keeps every variable in its type.                            *)
LEMMA TypeStep == TypeOK /\ ProgressInv /\ [Next]_vars => TypeOK'
<1> SUFFICES ASSUME TypeOK, ProgressInv, [Next]_vars PROVE TypeOK'
  OBVIOUS
<1>0. network' = network
  BY NetworkStays
<1> USE <1>0, CascadeAssumption DEF TypeOK
<1>1. CASE UNCHANGED vars
  BY <1>1 DEF vars, session, channel
<1>2. CASE NpuConnect \/ NpuStops \/ NextChunk \/ Abandon
  BY <1>2 DEF NpuConnect, NpuStops, NextChunk, Abandon, Goto, Phases, channel
<1>3. CASE NpuChunk
  <2>0. network.sizes \subseteq Nat \ {0} /\ network.events \in Nat
    OBVIOUS
  <2>1. PICK n \in network.sizes : /\ received + n <= 2 * network.events
                                   /\ received' = received + n
                                   /\ chunk' = <<received, received + n>>
    BY <1>3 DEF NpuChunk
  <2>2. received' \in 0 .. 2 * network.events /\ chunk' \in Nat \X Nat
    BY <2>0, <2>1
  <2> QED BY <1>3, <2>2 DEF NpuChunk, Goto, Phases, channel
<1>4. CASE SkipEvent
  BY <1>4 DEF SkipEvent, Goto, Phases, channel
<1>5. CASE ParseEvent
  <2>1. PICK e \in DataEvents :
          /\ npu' = Append(npu, e)
          /\ accumulated' = IF e.text THEN Append(accumulated, Len(npu) + 1)
                            ELSE accumulated
          /\ recent_logprobs' = Slide(recent_logprobs, e.lp)
          /\ phase' = IF LowConfidence(recent_logprobs', accumulated')
                      THEN IF KvIds THEN "exporting" ELSE "starting"
                      ELSE "forwarding"
    BY <1>5 DEF ParseEvent
  <2>2. e.lp \in Optional(LogProbs)
    BY DEF DataEvents, Event
  <2>3. /\ recent_logprobs' \in Seq(LogProbs) /\ Len(recent_logprobs') <= Window
    BY <2>1, <2>2, SlideType
  <2>4. npu' \in Seq(DataEvents \cup SkippedEvents) /\ accumulated' \in Seq(Nat)
    BY <2>1
  <2>5. phase' \in Phases
    BY <2>1 DEF Phases
  <2> QED BY <1>5, <2>3, <2>4, <2>5 DEF ParseEvent, channel
<1>6. CASE ForwardChunk
  <2>1. Item("npu", chunk[1], chunk[2]) \in Items
    BY DEF Item, Items
  <2> QED BY <1>6, <2>1, SendType DEF ForwardChunk, Goto, Phases
<1>7. CASE SendNpuDone \/ SendGpuDone
  <2>1. Done \in Items
    BY DEF Done, Item, Items
  <2> QED BY <1>7, <2>1, SendType DEF SendNpuDone, SendGpuDone, Goto, Phases
<1>8. CASE KvExport \/ KvImport
  BY <1>8 DEF KvExport, KvImport, AfterKvError, Goto, Phases, channel
<1>9. CASE StartGpu
  BY <1>9 DEF StartGpu, Goto, Phases, channel
<1>10. CASE GpuEvent \/ GpuStops
  <2>1. CASE GpuEvent
    <3>1. gpu' \in 0 .. MaxGpuEvents
      BY <2>1 DEF GpuEvent
    <3> QED BY <2>1, <3>1 DEF GpuEvent, Goto, Phases, channel
  <2>2. CASE GpuStops
    BY <2>2 DEF GpuStops, Goto, Phases, channel
  <2> QED BY <1>10, <2>1, <2>2
<1>11. CASE ForwardGpu
  <2>1. Item("gpu", gpu - 1, gpu) \in Items
    BY <1>11 DEF ForwardGpu, Goto, ProgressInv, Item, Items
  <2> QED BY <1>11, <2>1, SendType DEF ForwardGpu, Goto, Phases
<1>12. CASE Take
  BY <1>12 DEF Take, session
<1>13. CASE Leave
  BY <1>13 DEF Leave, session
<1> QED BY <1>1, <1>2, <1>3, <1>4, <1>5, <1>6, <1>7, <1>8, <1>9, <1>10, <1>11, <1>12,
           <1>13 DEF Next, BackendStep, RouterStep

(* Every item in the channel ends at some position.                        *)
LEMMA PieceEnds == TypeOK => \A i \in 1 .. Len(sent) : sent[i].hi \in Nat
<1> SUFFICES ASSUME TypeOK, NEW i \in 1 .. Len(sent) PROVE sent[i].hi \in Nat
  OBVIOUS
<1>1. sent[i] \in Items
  BY DEF TypeOK
<1> QED BY <1>1 DEF Items

(* Every step keeps the data in step with the phase.                       *)
LEMMA ProgressStep == TypeOK /\ ProgressInv /\ [Next]_vars => ProgressInv'
<1> SUFFICES ASSUME TypeOK, ProgressInv, [Next]_vars PROVE ProgressInv'
  OBVIOUS
<1> USE CascadeAssumption DEF TypeOK, ProgressInv, NpuPhases, HandoffPhases
<1>1. CASE UNCHANGED vars
  BY <1>1 DEF vars, session, channel
<1>2. CASE NpuConnect \/ NpuStops \/ NextChunk \/ SkipEvent \/ Abandon
  BY <1>2 DEF NpuConnect, NpuStops, NextChunk, SkipEvent, Abandon, Goto, channel
<1>3. CASE NpuChunk
  <2>1. PICK n \in network.sizes : /\ received' = received + n
                                   /\ chunk' = <<received, received + n>>
    BY <1>3 DEF NpuChunk
  <2>2. n > 0 /\ n \in Nat
    <3>1. network.sizes \subseteq Nat \ {0}
      OBVIOUS
    <3> QED BY <3>1
  <2>3. \A i \in 1 .. Len(sent) : sent[i].hi <= received
    BY <1>3 DEF NpuChunk, Goto
  <2>4. chunk'[1] < chunk'[2] /\ chunk'[2] = received' /\ received < received'
    <3>1. received \in Nat
      OBVIOUS
    <3> QED BY <2>1, <2>2, <3>1
  <2>5. \A i \in 1 .. Len(sent) : sent[i].hi <= chunk'[2]
    <3> SUFFICES ASSUME NEW i \in 1 .. Len(sent) PROVE sent[i].hi <= chunk'[2]
      OBVIOUS
    <3>1. sent[i].hi \in Nat /\ received \in Nat /\ received' \in Nat
      BY <2>1, <2>2, PieceEnds
    <3>2. sent[i].hi <= received /\ received < received'
      BY <2>3, <2>4
    <3>3. sent[i].hi <= received'
      BY <3>1, <3>2
    <3> QED BY <2>4, <3>3
  <2> QED BY <1>3, <2>4, <2>5 DEF NpuChunk, Goto, channel
<1>4. CASE ParseEvent
  <2>1. phase' \in {"exporting", "starting", "forwarding"}
    BY <1>4 DEF ParseEvent
  <2> QED BY <1>4, <2>1 DEF ParseEvent, channel
<1>5. CASE ForwardChunk
  <2>0. \A i \in 1 .. Len(sent) : sent[i].hi <= chunk[2]
    BY <1>5 DEF ForwardChunk, Goto
  <2>1. sent' = IF connected THEN Append(sent, Item("npu", chunk[1], chunk[2])) ELSE sent
    BY <1>5 DEF ForwardChunk, Send
  <2>2. \A i \in 1 .. Len(sent') : sent'[i].hi <= chunk[2]
    <3>1. CASE connected
      <4>1. Len(sent') = Len(sent) + 1
        BY <2>1, <3>1
      <4>2. \A i \in 1 .. Len(sent) : sent'[i] = sent[i]
        BY <2>1, <3>1
      <4>3. sent'[Len(sent) + 1].hi = chunk[2]
        BY <2>1, <3>1 DEF Item
      <4>4. ASSUME NEW i \in 1 .. Len(sent') PROVE sent'[i].hi <= chunk[2]
        <5>1. CASE i \in 1 .. Len(sent)
          BY <2>0, <4>2, <5>1
        <5>2. CASE i = Len(sent) + 1
          BY <4>3, <5>2
        <5>3. Len(sent) \in Nat /\ i \in 1 .. Len(sent) + 1
          BY <4>1
        <5>4. i \in 1 .. Len(sent) \/ i = Len(sent) + 1
          BY <5>3
        <5> QED BY <5>1, <5>2, <5>4
      <4> QED BY <4>4
    <3>2. CASE ~connected
      BY <2>0, <2>1, <3>2
    <3> QED BY <3>1, <3>2
  <2> QED BY <1>5, <2>2 DEF ForwardChunk, Goto
<1>6. CASE SendNpuDone \/ SendGpuDone
  BY <1>6 DEF SendNpuDone, SendGpuDone, Goto
<1>7. CASE KvExport \/ KvImport
  BY <1>7 DEF KvExport, KvImport, AfterKvError, Goto, channel
<1>8. CASE StartGpu
  BY <1>8 DEF StartGpu, Goto, channel
<1>9. CASE GpuEvent
  <2>1. gpu' > 0 /\ phase' = "gpu_sending"
    BY <1>9 DEF GpuEvent, Goto
  <2> QED BY <1>9, <2>1 DEF GpuEvent
<1>10. CASE GpuStops \/ ForwardGpu
  BY <1>10 DEF GpuStops, ForwardGpu, Goto
<1>11. CASE Take
  BY <1>11 DEF Take, session
<1>12. CASE Leave
  BY <1>12 DEF Leave, session
<1> QED BY <1>1, <1>2, <1>3, <1>4, <1>5, <1>6, <1>7, <1>8, <1>9, <1>10, <1>11, <1>12
        DEF Next, BackendStep, RouterStep

(* The initial state has its types, and its data agree with its phase.     *)
LEMMA InitInv == Init => TypeOK /\ ProgressInv
<1>1. Init => ProgressInv
  BY DEF Init, ProgressInv, NpuPhases, HandoffPhases
<1>2. Init => TypeOK
  <2>1. /\ \A n \in Networks : 0 \in 0 .. 2 * n.events
        /\ 0 \in 0 .. MaxGpuEvents /\ 0 <= Window
    BY CascadeAssumption
  <2>2. <<0, 0>> \in Nat \X Nat /\ \A S : <<>> \in Seq(S) /\ Len(<<>>) = 0
    OBVIOUS
  <2>3. 0 \in 0 .. Len(<<>>)
    OBVIOUS
  <2> QED BY <2>1, <2>2, <2>3 DEF Init, TypeOK, Phases
<1> QED BY <1>1, <1>2

(* Every variable of a cascade session always has the type declared for    *)
(* it; in particular the confidence window never outgrows its size.        *)
THEOREM TypeCorrect == Spec => []TypeOK
BY InitInv, TypeStep, ProgressStep, PTL DEF Spec

-----------------------------------------------------------------------------
(***************************************************************************)
(* The refinement.  Relaying an NPU chunk, relaying a GPU event, the end   *)
(* of the NPU's stream, a backend's failure, the end marker, the error's   *)
(* return and the client's leaving are the steps of ClientStream; starting *)
(* the GPU is its switch; all others leave its variables alone.            *)
(***************************************************************************)

(* Every step of a session is a step of its client's stream or leaves it   *)
(* unchanged.                                                              *)
LEMMA RefinementStep ==
  TypeOK /\ ProgressInv /\ [Next]_vars => [Client!Next]_Client!vars
<1> SUFFICES ASSUME TypeOK, ProgressInv, [Next]_vars
             PROVE  [Client!Next]_Client!vars
  OBVIOUS
<1> USE CascadeAssumption DEF TypeOK, GpuPhases, Client!vars
<1>1. CASE UNCHANGED vars
  BY <1>1 DEF vars, session, channel
<1>2. CASE NpuConnect \/ NpuStops
  BY <1>2 DEF NpuConnect, NpuStops, Goto, channel, Client!Next, Client!Break,
              Client!Complete
<1>3. CASE NpuChunk \/ SkipEvent \/ NextChunk
  BY <1>3 DEF NpuChunk, SkipEvent, NextChunk, Goto, channel
<1>4. CASE ParseEvent
  <2>1. phase' \in {"exporting", "starting", "forwarding"}
    BY <1>4 DEF ParseEvent
  <2> QED BY <1>4, <2>1 DEF ParseEvent, channel
<1>5. CASE ForwardChunk
  <2>0. 0 .. 2 * network.events \subseteq UNION {0 .. 2 * n.events : n \in Networks}
    OBVIOUS
  <2>1. /\ chunk[1] \in UNION {0 .. 2 * n.events : n \in Networks}
        /\ chunk[2] \in UNION {0 .. 2 * n.events : n \in Networks}
        /\ chunk[1] < chunk[2]
    <3>1. /\ chunk[1] \in Nat /\ chunk[2] \in 0 .. 2 * network.events
          /\ chunk[1] < chunk[2] /\ network.events \in Nat
      BY <1>5 DEF ForwardChunk, Goto, ProgressInv
    <3>2. chunk[1] \in 0 .. 2 * network.events
      BY <3>1
    <3> QED BY <2>0, <3>1, <3>2
  <2>2. \A i \in 1 .. Len(sent) : sent[i].hi <= chunk[2]
    BY <1>5 DEF ForwardChunk, Goto, ProgressInv, NpuPhases
  <2>3. Client!RelayNpu
    BY <1>5, <2>1, <2>2
       DEF ForwardChunk, Goto, Send, Item, Client!RelayNpu, Client!Deliver, Client!Piece
  <2> QED BY <2>3 DEF Client!Next
<1>6. CASE SendNpuDone \/ SendGpuDone
  <2>1. Client!Finish
    BY <1>6 DEF SendNpuDone, SendGpuDone, Goto, Send, Done, Item,
                Client!Finish, Client!Deliver, Client!End, Client!Piece
  <2> QED BY <2>1 DEF Client!Next
<1>7. CASE KvExport \/ KvImport
  BY <1>7 DEF KvExport, KvImport, AfterKvError, Goto, channel, Client!Next, Client!Break
<1>8. CASE StartGpu
  BY <1>8 DEF StartGpu, Goto, channel, Client!Next, Client!Break, Client!Switch
<1>14. CASE Abandon
  BY <1>14 DEF Abandon, Goto, channel, Client!Next, Client!Fail
<1>9. CASE GpuEvent
  <2>1. gpu' - 1 = gpu
    BY <1>9 DEF GpuEvent
  <2> QED BY <1>9, <2>1 DEF GpuEvent, Goto, channel
<1>10. CASE GpuStops
  BY <1>10 DEF GpuStops, Goto, channel
<1>11. CASE ForwardGpu
  <2>1. gpu - 1 + 1 = gpu
    OBVIOUS
  <2>2. Client!RelayGpu
    BY <1>11, <2>1 DEF ForwardGpu, Goto, Send, Item,
                       Client!RelayGpu, Client!Deliver, Client!Piece
  <2> QED BY <2>2 DEF Client!Next
<1>12. CASE Take
  BY <1>12 DEF Take, session
<1>13. CASE Leave
  BY <1>13 DEF Leave, session, Client!Next, Client!Leave
<1> QED BY <1>1, <1>2, <1>3, <1>4, <1>5, <1>6, <1>7, <1>8, <1>9, <1>10, <1>11, <1>12,
           <1>13, <1>14 DEF Next, BackendStep, RouterStep

(* Every behaviour of a cascade session is, seen by its client, a          *)
(* behaviour of ClientStream.                                              *)
THEOREM KeepsClientPromiseHolds == Spec => KeepsClientPromise
<1>1. Init => Client!Init
  BY DEF Init, Client!Init, GpuPhases
<1> QED BY <1>1, InitInv, TypeStep, ProgressStep, RefinementStep, PTL
        DEF Spec, KeepsClientPromise, Client!Spec

(* The client sees NPU chunks, then GPU events once and in order, then at  *)
(* most one end marker and nothing more: what ClientStream guarantees      *)
(* holds of every session.                                                 *)
THEOREM StreamInOrderHolds == Spec => []StreamInOrder
BY KeepsClientPromiseHolds, Client!StreamInOrderHolds, PTL
   DEF KeepsClientPromise, StreamInOrder

-----------------------------------------------------------------------------
(***************************************************************************)
(* The GPU's context.  accumulated lists the positions of the NPU's tokens *)
(* so far, each once and in order, and once the GPU has started, its       *)
(* context is that list.                                                   *)
(***************************************************************************)
TokensListed ==
  /\ \A i \in 1 .. Len(accumulated) : accumulated[i] \in Tokens(Len(npu))
  /\ \A j \in Tokens(Len(npu)) : \E i \in 1 .. Len(accumulated) : accumulated[i] = j
  /\ \A i, j \in 1 .. Len(accumulated) : i < j => accumulated[i] < accumulated[j]

ContextInv == TokensListed /\ (phase \in GpuPhases => gpu_context = accumulated)

(* One more event of the NPU is one more token, or none.                   *)
LEMMA NextToken ==
  ASSUME TypeOK, NEW e, e.text \in BOOLEAN, npu' = Append(npu, e)
  PROVE  Tokens(Len(npu))' = Tokens(Len(npu)) \cup (IF e.text THEN {Len(npu) + 1} ELSE {})
<1> USE DEF TypeOK
<1>1. /\ Len(npu) \in Nat /\ Len(npu') = Len(npu) + 1
      /\ npu'[Len(npu) + 1] = e /\ \A i \in 1 .. Len(npu) : npu'[i] = npu[i]
  OBVIOUS
<1>2. \A i : i \in 1 .. Len(npu) + 1 <=> i \in 1 .. Len(npu) \/ i = Len(npu) + 1
  BY <1>1, SMTT(30)
<1> QED BY <1>1, <1>2 DEF Tokens

(* An event without a token leaves the list alone; a token is put at its   *)
(* end, and comes after all others.                                        *)
LEMMA ListGrows ==
  ASSUME TypeOK, TokensListed, NEW e, e.text \in BOOLEAN, npu' = Append(npu, e),
         accumulated' = IF e.text THEN Append(accumulated, Len(npu) + 1) ELSE accumulated
  PROVE  TokensListed'
<1> USE DEF TypeOK
<1>1. Tokens(Len(npu))' = Tokens(Len(npu)) \cup (IF e.text THEN {Len(npu) + 1} ELSE {})
  BY NextToken
<1>2. CASE ~e.text
  BY <1>1, <1>2 DEF TokensListed
<1>3. CASE e.text
  <2> DEFINE n == Len(accumulated)
             new == Len(npu) + 1
  <2>1. /\ n \in Nat /\ Len(accumulated') = n + 1 /\ accumulated'[n + 1] = new
        /\ \A i \in 1 .. n : accumulated'[i] = accumulated[i]
    BY <1>3
  <2>2. \A i : i \in 1 .. n + 1 <=> i \in 1 .. n \/ i = n + 1
    BY <2>1
  <2>3. \A j \in Tokens(Len(npu)) : j \in Nat /\ j < new
    BY DEF Tokens
  <2>4. Tokens(Len(npu))' = Tokens(Len(npu)) \cup {new}
    BY <1>1, <1>3
  <2>5. \A i \in 1 .. n : accumulated[i] \in Tokens(Len(npu))
    BY DEF TokensListed
  <2> HIDE DEF n, new, TypeOK
  <2>6. \A i \in 1 .. n + 1 : accumulated'[i] \in Tokens(Len(npu))'
    BY <2>1, <2>2, <2>4, <2>5
  <2>7. \A j \in Tokens(Len(npu))' : \E i \in 1 .. n + 1 : accumulated'[i] = j
    BY <2>1, <2>2, <2>4 DEF TokensListed, n
  <2>8. ASSUME NEW i \in 1 .. n + 1, NEW j \in 1 .. n + 1, i < j
        PROVE  accumulated'[i] < accumulated'[j]
    <3>1. i \in 1 .. n
      BY <2>1, <2>8
    <3>2. CASE j \in 1 .. n
      <4>1. accumulated[i] < accumulated[j]
        BY <2>8, <3>1, <3>2 DEF TokensListed, n
      <4> QED BY <2>1, <3>1, <3>2, <4>1
    <3>3. CASE j = n + 1
      BY <2>1, <2>3, <2>5, <3>1, <3>3
    <3> QED BY <2>2, <3>2, <3>3
  <2> QED BY <2>1, <2>6, <2>7, <2>8 DEF TokensListed
<1> QED BY <1>2, <1>3

(* Every step keeps list and context.                                      *)
LEMMA ContextStep == TypeOK /\ ContextInv /\ [Next]_vars => ContextInv'
<1> SUFFICES ASSUME TypeOK, ContextInv, [Next]_vars PROVE ContextInv'
  OBVIOUS
<1> USE DEF ContextInv, GpuPhases
<1>1. CASE SkipEvent
  <2>1. PICK e \in SkippedEvents : npu' = Append(npu, e)
    BY <1>1 DEF SkipEvent
  <2>2. e.text \in BOOLEAN /\ ~e.text
    <3>1. e.text = FALSE
      BY DEF SkippedEvents, Event
    <3> QED BY <3>1
  <2>3. accumulated' = IF e.text THEN Append(accumulated, Len(npu) + 1) ELSE accumulated
    BY <1>1, <2>2 DEF SkipEvent
  <2>4. TokensListed'
    BY <2>1, <2>2, <2>3, ListGrows
  <2> QED BY <1>1, <2>4 DEF SkipEvent, Goto
<1>2. CASE ParseEvent
  <2>1. PICK e \in DataEvents :
          /\ npu' = Append(npu, e)
          /\ accumulated' = IF e.text THEN Append(accumulated, Len(npu) + 1)
                            ELSE accumulated
          /\ phase' \in {"exporting", "starting", "forwarding"}
    BY <1>2 DEF ParseEvent
  <2>2. e.text \in BOOLEAN
    BY DEF DataEvents, Event
  <2>3. TokensListed'
    BY <2>1, <2>2, ListGrows
  <2> QED BY <2>1, <2>3
<1>3. CASE StartGpu
  BY <1>3 DEF StartGpu, Goto, TokensListed, Tokens
<1>4. CASE UNCHANGED <<npu, accumulated, gpu_context>>
           /\ (phase' \in GpuPhases => phase \in GpuPhases)
  BY <1>4 DEF TokensListed, Tokens
<1>5. CASE NpuConnect \/ NpuChunk \/ NpuStops \/ KvExport \/ KvImport \/ Abandon
  BY <1>4, <1>5 DEF NpuConnect, NpuChunk, NpuStops, KvExport, KvImport, Abandon,
                    AfterKvError, Goto
<1>6. CASE ForwardChunk \/ NextChunk \/ SendNpuDone
  BY <1>4, <1>6 DEF ForwardChunk, NextChunk, SendNpuDone, Goto
<1>7. CASE GpuEvent \/ GpuStops \/ ForwardGpu \/ SendGpuDone
  BY <1>4, <1>7 DEF GpuEvent, GpuStops, ForwardGpu, SendGpuDone, Goto
<1>8. CASE Take \/ Leave \/ UNCHANGED vars
  BY <1>4, <1>8 DEF Take, Leave, session, vars
<1> QED BY <1>1, <1>2, <1>3, <1>5, <1>6, <1>7, <1>8 DEF Next, BackendStep, RouterStep

(* The GPU is asked to continue exactly the NPU's tokens, in order, the    *)
(* one that triggered the switch included.                                 *)
THEOREM HandoffContextCompleteHolds == Spec => []HandoffContextComplete
<1>1. Init => ContextInv
  BY DEF Init, ContextInv, TokensListed, Tokens, GpuPhases
<1>2. TypeOK /\ ContextInv => HandoffContextComplete
  <2> SUFFICES ASSUME TypeOK, ContextInv, phase \in GpuPhases
               PROVE  /\ Range(gpu_context) = Tokens(Len(npu))
                      /\ \A i, j \in DOMAIN gpu_context :
                           i < j => gpu_context[i] < gpu_context[j]
    BY DEF HandoffContextComplete
  <2>1. gpu_context = accumulated /\ DOMAIN gpu_context = 1 .. Len(accumulated)
    BY DEF TypeOK, ContextInv
  <2> QED BY <2>1 DEF ContextInv, TokensListed, Range
<1> QED BY <1>1, <1>2, TypeCorrect, ContextStep, PTL DEF Spec

-----------------------------------------------------------------------------
(***************************************************************************)
(* Aligned chunks.  Each chunk is the event after those that were parsed,  *)
(* so that what is forwarded is the event parsed last, and lies behind all *)
(* that was sent before.                                                   *)
(***************************************************************************)
Sent(i) == \E k \in 1 .. Len(sent) : sent[k] = Item("npu", 2 * i - 2, 2 * i)

AlignInv ==
  /\ phase = "connecting" => npu = <<>> /\ received = 0 /\ sent = <<>>
  /\ phase \in {"reading", "npu_done", "forwarding"} => 2 * Len(npu) = received
  /\ phase = "parsing" => 2 * Len(npu) = received \/ 2 * Len(npu) = received - 2
  /\ phase \in {"parsing", "forwarding"} => chunk[1] = received - 2
  /\ phase = "forwarding" \/ (phase = "parsing" /\ HasEvent) =>
       \A i \in 1 .. Len(sent) : sent[i].hi <= chunk[1]

RelayInv ==
  connected =>
    \A i \in 1 .. Len(npu) :
      npu[i].kind = "data" =>
        \/ Sent(i)
        \/ i = Len(npu) /\ phase \notin {"parsing", "reading", "npu_done"}

AlignedInv == Aligned => AlignInv /\ RelayInv /\ NpuDataOnce

(* A send leaves the channel as it is, or puts the item at its end; it     *)
(* does so if the client listens.                                          *)
LEMMA SendEffect ==
  ASSUME sent \in Seq(Items), taken \in 0 .. Len(sent), connected \in BOOLEAN,
         NEW item \in Items, Send(item)
  PROVE  /\ Len(sent) \in Nat /\ Len(sent') \in {Len(sent), Len(sent) + 1}
         /\ \A i \in 1 .. Len(sent) : sent'[i] = sent[i]
         /\ Len(sent') = Len(sent) + 1 => sent'[Len(sent) + 1] = item
         /\ connected' = connected /\ (connected => Len(sent') = Len(sent) + 1)
<1>1. sent' = IF connected THEN Append(sent, item) ELSE sent
  BY SendType
<1>2. connected' = connected
  BY SendType
<1> QED BY <1>1, <1>2

(* What the GPU is relayed, and the end, are no part of the NPU's answer.  *)
LEMMA OtherItemKeeps ==
  ASSUME TypeOK, AlignedInv, Aligned, NEW item \in Items, item.src # "npu", Send(item),
         npu' = npu, phase \notin {"connecting", "reading", "parsing", "forwarding"},
         phase' \notin {"connecting", "reading", "parsing", "forwarding", "npu_done"}
  PROVE  AlignInv' /\ RelayInv' /\ NpuDataOnce'
<1> USE DEF TypeOK, AlignedInv
<1>1. /\ Len(sent) \in Nat /\ Len(sent') \in {Len(sent), Len(sent) + 1}
      /\ \A i \in 1 .. Len(sent) : sent'[i] = sent[i]
      /\ Len(sent') = Len(sent) + 1 => sent'[Len(sent) + 1] = item
      /\ connected' = connected
  BY SendEffect
<1>2. AlignInv'
  BY DEF AlignInv
<1>3. \A i : Sent(i) => Sent(i)'
  BY <1>1 DEF Sent, Item
<1>4. RelayInv'
  BY <1>1, <1>3 DEF RelayInv
<1>5. ASSUME NEW i \in 1 .. Len(sent'), sent'[i].src = "npu"
      PROVE  i \in 1 .. Len(sent)
  BY <1>1, <1>5
<1>6. DOMAIN sent = 1 .. Len(sent) /\ DOMAIN sent' = 1 .. Len(sent')
  BY SendType
<1>7. NpuDataOnce'
  BY <1>1, <1>5, <1>6 DEF NpuDataOnce
<1> QED BY <1>2, <1>4, <1>7

(* Every step keeps the invariant of aligned chunks.                       *)
LEMMA AlignedStep == TypeOK /\ ProgressInv /\ AlignedInv /\ [Next]_vars => AlignedInv'
<1> SUFFICES ASSUME TypeOK, ProgressInv, AlignedInv, [Next]_vars, Aligned'
             PROVE  AlignInv' /\ RelayInv' /\ NpuDataOnce'
  BY DEF AlignedInv
<1>0. Aligned /\ network.sizes = {2}
  BY NetworkStays DEF Aligned
<1> USE <1>0 DEF TypeOK, AlignedInv
<1>a. Len(npu) \in Nat /\ received \in Nat /\ Len(sent) \in Nat
  BY CascadeAssumption
<1>1. CASE NpuConnect
  <2>1. npu = <<>> /\ npu' = <<>> /\ received' = 0 /\ sent' = <<>> /\ Len(npu') = 0
    BY <1>1 DEF NpuConnect, Goto, AlignInv, channel
  <2> QED BY <1>1, <2>1 DEF NpuConnect, Goto, AlignInv, RelayInv, NpuDataOnce
<1>2. CASE NpuChunk
  <2>1. /\ phase = "reading" /\ phase' = "parsing" /\ received' = received + 2
        /\ chunk' = <<received, received + 2>>
        /\ UNCHANGED <<npu, sent, connected>>
    BY <1>2 DEF NpuChunk, Goto, channel
  <2>2. \A i \in 1 .. Len(sent) : sent[i].hi <= received
    BY <2>1 DEF ProgressInv, NpuPhases
  <2>3. AlignInv'
    BY <1>a, <2>1, <2>2 DEF AlignInv
  <2> QED BY <2>1, <2>3 DEF RelayInv, Sent, NpuDataOnce
<1>3. CASE SkipEvent \/ ParseEvent
  <2>1. PICK e \in DataEvents \cup SkippedEvents :
          /\ npu' = Append(npu, e)
          /\ e.kind = "data" => phase' \in {"exporting", "starting", "forwarding"}
          /\ phase' \in {"parsing", "exporting", "starting", "forwarding"}
    <3>1. CASE SkipEvent
      <4>1. \A e \in SkippedEvents : e.kind # "data"
        BY DEF SkippedEvents, Event
      <4> QED BY <3>1, <4>1 DEF SkipEvent, Goto
    <3>2. CASE ParseEvent
      BY <3>2 DEF ParseEvent
    <3> QED BY <1>3, <3>1, <3>2
  <2>2. /\ phase = "parsing" /\ HasEvent
        /\ UNCHANGED <<received, chunk, sent, connected>>
    BY <1>3 DEF SkipEvent, ParseEvent, Goto, channel
  <2>3. /\ Len(npu') = Len(npu) + 1 /\ npu'[Len(npu) + 1] = e
        /\ \A i \in 1 .. Len(npu) : npu'[i] = npu[i]
    BY <2>1
  <2>4. 2 * Len(npu) = received - 2
    BY <1>a, <2>2 DEF AlignInv, HasEvent
  <2>5. 2 * Len(npu') = received' /\ ~HasEvent'
    BY <1>a, <2>2, <2>3, <2>4 DEF HasEvent
  <2>6. AlignInv'
    BY <2>1, <2>2, <2>5 DEF AlignInv
  <2>7. \A i : Sent(i)' <=> Sent(i)
    BY <2>2 DEF Sent
  <2>8. RelayInv'
    BY <1>a, <2>1, <2>2, <2>3, <2>7 DEF RelayInv
  <2> QED BY <2>2, <2>6, <2>8 DEF NpuDataOnce
<1>4. CASE ForwardChunk
  <2> DEFINE item == Item("npu", chunk[1], chunk[2])
  <2>1. /\ phase = "forwarding" /\ phase' = "parsing" /\ Send(item)
        /\ UNCHANGED <<received, chunk, npu>>
    BY <1>4 DEF ForwardChunk, Goto
  <2>2. item \in Items
    BY DEF Item, Items
  <2>3. /\ Len(sent') \in {Len(sent), Len(sent) + 1}
        /\ \A i \in 1 .. Len(sent) : sent'[i] = sent[i]
        /\ Len(sent') = Len(sent) + 1 => sent'[Len(sent) + 1] = item
        /\ connected' = connected /\ (connected => Len(sent') = Len(sent) + 1)
    BY <2>1, <2>2, SendEffect
  <2>4. /\ 2 * Len(npu) = received /\ chunk[1] = received - 2 /\ chunk[2] = received
        /\ \A i \in 1 .. Len(sent) : sent[i].hi <= chunk[1]
    BY <2>1 DEF AlignInv, ProgressInv
  <2>5. ~HasEvent'
    BY <1>a, <2>1, <2>4 DEF HasEvent
  <2>6. AlignInv'
    BY <2>1, <2>4, <2>5 DEF AlignInv
  <2>7. item = Item("npu", 2 * Len(npu) - 2, 2 * Len(npu))
    BY <2>4
  <2>8. \A i : Sent(i) => Sent(i)'
    BY <1>a, <2>3 DEF Sent, Item
  <2>9. connected => Sent(Len(npu))'
    <3> SUFFICES ASSUME connected PROVE Sent(Len(npu))'
      OBVIOUS
    <3>1. Len(sent) + 1 \in 1 .. Len(sent') /\ sent'[Len(sent) + 1] = item
      BY <1>a, <2>3
    <3>2. Len(npu') = Len(npu)
      BY <2>1
    <3> HIDE DEF item
    <3> QED BY <2>7, <3>1, <3>2 DEF Sent
  <2>10. RelayInv'
    BY <2>1, <2>3, <2>8, <2>9 DEF RelayInv
  <2>11. item.lo = chunk[1] /\ DOMAIN sent' = 1 .. Len(sent') /\ DOMAIN sent = 1 .. Len(sent)
    BY <2>1, <2>2, SendType DEF Item
  <2> HIDE DEF item
  <2>12. NpuDataOnce'
    <3> SUFFICES ASSUME NEW i \in 1 .. Len(sent'), NEW j \in 1 .. Len(sent'), i < j,
                        sent'[i].src = "npu", sent'[j].src = "npu"
                 PROVE  sent'[i].hi <= sent'[j].lo
      BY <2>11 DEF NpuDataOnce
    <3>1. i \in 1 .. Len(sent)
      BY <1>a, <2>3
    <3>2. CASE j \in 1 .. Len(sent)
      BY <2>3, <2>11, <3>1, <3>2 DEF NpuDataOnce
    <3>3. CASE j \notin 1 .. Len(sent)
      <4>1. j = Len(sent) + 1 /\ Len(sent') = Len(sent) + 1
        BY <1>a, <2>3, <3>3, SMTT(30)
      <4> QED BY <2>3, <2>4, <2>11, <3>1, <4>1
    <3> QED BY <3>2, <3>3
  <2> QED BY <2>6, <2>10, <2>12
<1>5. CASE NextChunk \/ NpuStops
  <2>1. UNCHANGED <<received, chunk, npu, sent, connected>>
    BY <1>5 DEF NextChunk, NpuStops, channel
  <2>2. AlignInv'
    BY <1>5, <1>a, <2>1 DEF NextChunk, NpuStops, Goto, AlignInv, HasEvent
  <2>3. RelayInv'
    BY <1>5, <2>1 DEF NextChunk, NpuStops, Goto, RelayInv, Sent
  <2> QED BY <2>1, <2>2, <2>3 DEF NpuDataOnce
<1>6. CASE SendNpuDone \/ SendGpuDone
  <2>1. Done \in Items /\ Done.src # "npu"
    BY DEF Done, Item, Items
  <2> QED BY <1>6, <2>1, OtherItemKeeps DEF SendNpuDone, SendGpuDone, Goto
<1>7. CASE ForwardGpu
  <2> DEFINE item == Item("gpu", gpu - 1, gpu)
  <2>1. item \in Items /\ item.src # "npu"
    BY <1>7, CascadeAssumption DEF ForwardGpu, Goto, ProgressInv, Item, Items
  <2>2. /\ Send(item) /\ npu' = npu /\ phase = "gpu_sending" /\ phase' = "gpu"
    BY <1>7 DEF ForwardGpu, Goto
  <2> HIDE DEF item
  <2> QED BY <2>1, <2>2, OtherItemKeeps
<1>8. CASE /\ UNCHANGED <<npu, sent>> /\ (connected' => connected)
           /\ \/ UNCHANGED <<phase, received, chunk>>
              \/ /\ phase \notin {"connecting", "reading", "parsing", "forwarding", "npu_done"}
                 /\ phase' \notin {"connecting", "reading", "parsing", "forwarding", "npu_done"}
  <2>1. AlignInv'
    BY <1>8 DEF AlignInv, HasEvent
  <2>2. RelayInv'
    BY <1>8 DEF RelayInv, Sent
  <2> QED BY <1>8, <2>1, <2>2 DEF NpuDataOnce
<1>9. CASE KvExport \/ KvImport \/ StartGpu \/ GpuEvent \/ GpuStops \/ Abandon
  BY <1>8, <1>9 DEF KvExport, KvImport, StartGpu, Abandon, GpuEvent, GpuStops, AfterKvError, Goto,
                    channel
<1>10. CASE Take \/ Leave \/ UNCHANGED vars
  BY <1>8, <1>10 DEF Take, Leave, session, channel, vars
<1> QED BY <1>1, <1>2, <1>3, <1>4, <1>5, <1>6, <1>7, <1>9, <1>10
        DEF Next, BackendStep, RouterStep

(* The invariant of aligned chunks holds in every reachable state.         *)
LEMMA AlignedHolds == Spec => [](TypeOK /\ AlignedInv)
<1>1. Init => AlignedInv
  BY DEF Init, AlignedInv, AlignInv, RelayInv, NpuDataOnce
<1> QED BY <1>1, InitInv, TypeStep, ProgressStep, AlignedStep, PTL DEF Spec

(* When every chunk is one event no part of the NPU's answer is sent twice *)
(* to the client.                                                          *)
THEOREM AlignedDataOnceHolds == Spec => []AlignedDataOnce
<1>1. AlignedInv => AlignedDataOnce
  BY DEF AlignedInv, AlignedDataOnce
<1> QED BY <1>1, AlignedHolds, PTL

(* When every chunk is one event a client that stays is sent every data    *)
(* event of the NPU but the one at which the session switches.             *)
THEOREM AlignedDataDeliveredHolds == Spec => []AlignedDataDelivered
<1>1. TypeOK /\ AlignedInv => AlignedDataDelivered
  <2> SUFFICES ASSUME TypeOK, AlignedInv, Aligned, connected,
                      NEW i \in 1 .. Len(npu), npu[i].kind = "data"
               PROVE  \/ Delivered(i)
                      \/ i = Len(npu) /\ phase \notin {"parsing", "reading", "npu_done"}
    BY DEF AlignedDataDelivered, NpuDataDelivered
  <2>1. CASE Sent(i)
    <3>1. PICK k \in 1 .. Len(sent) : sent[k] = Item("npu", 2 * i - 2, 2 * i)
      BY <2>1 DEF Sent
    <3>2. sent[k].src = "npu" /\ sent[k].lo = 2 * i - 2 /\ sent[k].hi = 2 * i
      BY <3>1 DEF Item
    <3>3. k \in DOMAIN sent
      BY DEF TypeOK
    <3>4. sent[k].lo + 1 .. sent[k].hi \subseteq Covered
      BY <3>2, <3>3 DEF Covered
    <3>5. {2 * i - 1, 2 * i} \subseteq sent[k].lo + 1 .. sent[k].hi
      BY <3>2
    <3> QED BY <3>4, <3>5 DEF Delivered
  <2> QED BY <2>1 DEF AlignedInv, RelayInv
<1> QED BY <1>1, AlignedHolds, PTL

-----------------------------------------------------------------------------
(***************************************************************************)
(* The sliding window.  It holds the log-probabilities of the last events  *)
(* that have one, p their positions: every event left out came before all  *)
(* of them, and if one is left out the window is full.                     *)
(***************************************************************************)
Recent(p, window, events) ==
  /\ p \in [1 .. Len(window) -> 1 .. Len(events)]
  /\ \A k \in 1 .. Len(window) : events[p[k]].lp = <<window[k]>>
  /\ \A k, m \in 1 .. Len(window) : k < m => p[k] < p[m]
  /\ \A j \in 1 .. Len(events) : events[j].lp # <<>> =>
       \/ \E k \in 1 .. Len(window) : p[k] = j
       \/ /\ Len(window) = Window
          /\ \A k \in 1 .. Len(window) : j < p[k]

WindowInv == \E p : Recent(p, recent_logprobs, npu)

(* What the window holds after one more log-probability, or none.          *)
LEMMA SlideSays ==
  ASSUME NEW window \in Seq(LogProbs), Len(window) <= Window
  PROVE  /\ Slide(window, <<>>) = window
         /\ \A x \in LogProbs :
              LET n == Len(window)
                  slid == Slide(window, <<x>>)
              IN  IF n < Window
                  THEN /\ Len(slid) = n + 1 /\ slid[n + 1] = x
                       /\ \A k \in 1 .. n : slid[k] = window[k]
                  ELSE /\ Len(slid) = n /\ slid[n] = x
                       /\ \A k \in 1 .. n - 1 : slid[k] = window[k + 1]
<1> USE CascadeAssumption
<1>1. Slide(window, <<>>) = window
  <2>1. window \o <<>> = window
    OBVIOUS
  <2> QED BY <2>1 DEF Slide
<1>2. ASSUME NEW x \in LogProbs
      PROVE  LET n == Len(window)
                 slid == Slide(window, <<x>>)
             IN  IF n < Window
                 THEN /\ Len(slid) = n + 1 /\ slid[n + 1] = x
                      /\ \A k \in 1 .. n : slid[k] = window[k]
                 ELSE /\ Len(slid) = n /\ slid[n] = x
                      /\ \A k \in 1 .. n - 1 : slid[k] = window[k + 1]
  <2> DEFINE n == Len(window)
             longer == window \o <<x>>
  <2>1. /\ longer \in Seq(LogProbs) /\ Len(longer) = n + 1 /\ n \in Nat
        /\ longer[n + 1] = x /\ \A k \in 1 .. n : longer[k] = window[k]
    OBVIOUS
  <2>2. Slide(window, <<x>>) = IF Len(longer) > Window THEN Tail(longer) ELSE longer
    BY DEF Slide
  <2> HIDE DEF longer
  <2>3. CASE n < Window
    BY <2>1, <2>2, <2>3
  <2>4. CASE ~(n < Window)
    <3>1. Slide(window, <<x>>) = Tail(longer) /\ longer # <<>> /\ n > 0
      <4>1. n > 0 /\ Len(longer) > Window
        BY <2>1, <2>4
      <4>2. longer # <<>>
        BY <2>1, <4>1
      <4> QED BY <2>2, <4>1, <4>2
    <3>2. /\ Len(Tail(longer)) = n
          /\ \A k \in 1 .. n : Tail(longer)[k] = longer[k + 1]
      BY <2>1, <3>1
    <3>3. ASSUME NEW k \in 1 .. n - 1 PROVE Tail(longer)[k] = window[k + 1]
      <4>1. k \in 1 .. n /\ k + 1 \in 1 .. n
        BY <2>1
      <4> QED BY <2>1, <3>2, <4>1
    <3>4. Tail(longer)[n] = x
      BY <2>1, <3>1, <3>2
    <3> HIDE DEF n
    <3>5. /\ Len(Slide(window, <<x>>)) = n /\ Slide(window, <<x>>)[n] = x
          /\ \A k \in 1 .. n - 1 : Slide(window, <<x>>)[k] = window[k + 1]
      BY <3>1, <3>2, <3>3, <3>4
    <3> QED BY <2>4, <3>5 DEF n
  <2> QED BY <2>3, <2>4
<1> QED BY <1>1, <1>2

(* The window is what it says after one more event, too.                   *)
LEMMA WindowGrows ==
  ASSUME NEW events \in Seq(DataEvents \cup SkippedEvents),
         NEW window \in Seq(LogProbs), Len(window) <= Window,
         NEW e \in DataEvents \cup SkippedEvents,
         NEW p, Recent(p, window, events)
  PROVE  \E q : Recent(q, Slide(window, e.lp), Append(events, e))
<1> DEFINE new == Len(events) + 1
           n == Len(window)
           grown == Append(events, e)
           slid == Slide(window, e.lp)
<1>0. Window \in Nat \ {0}
  BY CascadeAssumption
<1>1. /\ Len(grown) = new /\ grown[new] = e /\ new \in Nat
      /\ \A i \in 1 .. Len(events) : grown[i] = events[i] /\ i < new /\ i \in 1 .. new
      /\ \A i \in 1 .. new : i \in 1 .. Len(events) \/ i = new
      /\ n \in Nat /\ n <= Window
  OBVIOUS
<1>2. /\ p \in [1 .. n -> 1 .. Len(events)]
      /\ \A k \in 1 .. n : events[p[k]].lp = <<window[k]>>
      /\ \A k, m \in 1 .. n : k < m => p[k] < p[m]
      /\ \A j \in 1 .. Len(events) : events[j].lp # <<>> =>
           (\E k \in 1 .. n : p[k] = j) \/ (n = Window /\ \A k \in 1 .. n : j < p[k])
  BY DEF Recent
<1>3. e.lp \in Optional(LogProbs)
  BY DEF DataEvents, SkippedEvents, Event, Optional
<1>4. \A k \in 1 .. n : p[k] \in 1 .. new /\ p[k] < new /\ grown[p[k]] = events[p[k]]
  BY <1>1, <1>2
<1>5. CASE e.lp = <<>>
  <2>1. slid = window
    BY <1>5, SlideSays
  <2> HIDE DEF new, grown, slid
  <2>2. p \in [1 .. n -> 1 .. new]
    BY <1>2, <1>4
  <2>3. \A k \in 1 .. n : grown[p[k]].lp = <<window[k]>>
    BY <1>2, <1>4
  <2>4. ASSUME NEW j \in 1 .. new, grown[j].lp # <<>>
        PROVE  j \in 1 .. Len(events) /\ events[j].lp # <<>>
    BY <1>1, <1>5, <2>4
  <2>5. Recent(p, window, grown)
    BY <1>1, <1>2, <2>2, <2>3, <2>4 DEF Recent
  <2> QED BY <2>1, <2>5 DEF slid, grown
<1>6. ASSUME NEW x \in LogProbs, e.lp = <<x>> PROVE \E q : Recent(q, slid, grown)
  <2>1. CASE n < Window
    <3> DEFINE q == [k \in 1 .. n + 1 |-> IF k = n + 1 THEN new ELSE p[k]]
    <3>1. /\ Len(slid) = n + 1 /\ slid[n + 1] = x
          /\ \A k \in 1 .. n : slid[k] = window[k]
      BY <1>6, <2>1, SlideSays
    <3>0. new \in 1 .. new
      BY <1>1
    <3> HIDE DEF new, grown, slid, n
    <3>2. /\ \A k \in 1 .. n + 1 : k \in 1 .. n \/ k = n + 1
          /\ \A k \in 1 .. n : k \in 1 .. n + 1 /\ k # n + 1
          /\ n + 1 \in 1 .. n + 1
      BY <1>1
    <3>3. q[n + 1] = new /\ \A k \in 1 .. n : q[k] = p[k]
      BY <3>2
    <3>4. q \in [1 .. n + 1 -> 1 .. new]
      <4>1. ASSUME NEW k \in 1 .. n + 1 PROVE (IF k = n + 1 THEN new ELSE p[k]) \in 1 .. new
        BY <1>4, <3>2, <3>0
      <4> QED BY <4>1
    <3> HIDE DEF q
    <3>5. \A k \in 1 .. n + 1 : grown[q[k]].lp = <<slid[k]>>
      <4>1. grown[q[n + 1]].lp = <<slid[n + 1]>>
        BY <1>1, <1>6, <3>1, <3>3
      <4>2. \A k \in 1 .. n : grown[q[k]].lp = <<slid[k]>>
        BY <1>2, <1>4, <3>1, <3>3
      <4> QED BY <3>2, <4>1, <4>2
    <3>6. ASSUME NEW k \in 1 .. n + 1, NEW m \in 1 .. n + 1, k < m PROVE q[k] < q[m]
      <4>1. k \in 1 .. n
        BY <1>1, <3>2, <3>6
      <4> QED BY <1>2, <1>4, <3>2, <3>3, <3>6, <4>1
    <3>7. ASSUME NEW j \in 1 .. new, grown[j].lp # <<>>
          PROVE  \E k \in 1 .. n + 1 : q[k] = j
      <4>1. CASE j = new
        BY <3>2, <3>3, <4>1
      <4>2. CASE j \in 1 .. Len(events)
        <5>1. PICK k \in 1 .. n : p[k] = j
          BY <1>1, <1>2, <2>1, <3>7, <4>2
        <5> QED BY <3>2, <3>3, <5>1
      <4> QED BY <1>1, <4>1, <4>2
    <3>8. Recent(q, slid, grown)
      BY <1>1, <3>1, <3>4, <3>5, <3>6, <3>7 DEF Recent
    <3> QED BY <3>8
  <2>2. CASE ~(n < Window)
    <3> DEFINE q == [k \in 1 .. n |-> IF k = n THEN new ELSE p[k + 1]]
    <3>1. /\ Len(slid) = n /\ slid[n] = x
          /\ \A k \in 1 .. n - 1 : slid[k] = window[k + 1]
      BY <1>6, <2>2, SlideSays
    <3>0. new \in 1 .. new
      BY <1>1
    <3> HIDE DEF new, grown, slid, n
    <3>2. /\ n = Window /\ n > 0 /\ n \in 1 .. n
          /\ \A k \in 1 .. n : k \in 1 .. n - 1 \/ k = n
          /\ \A k \in 1 .. n - 1 : k \in 1 .. n /\ k # n /\ k + 1 \in 1 .. n
      BY <1>0, <1>1, <2>2
    <3>3. q[n] = new /\ \A k \in 1 .. n - 1 : q[k] = p[k + 1]
      BY <3>2
    <3>4. q \in [1 .. n -> 1 .. new]
      <4>1. ASSUME NEW k \in 1 .. n PROVE (IF k = n THEN new ELSE p[k + 1]) \in 1 .. new
        BY <1>4, <3>2, <3>0
      <4> QED BY <4>1
    <3> HIDE DEF q
    <3>5. \A k \in 1 .. n : grown[q[k]].lp = <<slid[k]>>
      <4>1. grown[q[n]].lp = <<slid[n]>>
        BY <1>1, <1>6, <3>1, <3>3
      <4>2. ASSUME NEW k \in 1 .. n - 1 PROVE grown[q[k]].lp = <<slid[k]>>
        <5>1. k + 1 \in 1 .. n
          BY <3>2
        <5>2. q[k] = p[k + 1] /\ slid[k] = window[k + 1]
          BY <3>1, <3>3
        <5>3. grown[p[k + 1]].lp = <<window[k + 1]>>
          BY <1>2, <1>4, <5>1
        <5> QED BY <5>2, <5>3
      <4> QED BY <3>2, <4>1, <4>2
    <3>6. ASSUME NEW k \in 1 .. n, NEW m \in 1 .. n, k < m PROVE q[k] < q[m]
      <4>1. k \in 1 .. n - 1
        BY <1>1, <3>2, <3>6
      <4>2. CASE m = n
        BY <1>4, <3>2, <3>3, <4>1, <4>2
      <4>3. CASE m \in 1 .. n - 1
        <5>1. k + 1 \in 1 .. n /\ m + 1 \in 1 .. n /\ k + 1 < m + 1
          BY <3>2, <3>6, <4>1, <4>3
        <5> QED BY <1>2, <3>3, <4>1, <4>3, <5>1
      <4> QED BY <3>2, <4>2, <4>3
    <3>7. ASSUME NEW j \in 1 .. new, grown[j].lp # <<>>
          PROVE  (\E k \in 1 .. n : q[k] = j) \/ (\A k \in 1 .. n : j < q[k])
      <4>1. CASE j = new
        BY <3>2, <3>3, <4>1
      <4>2. CASE j \in 1 .. Len(events)
        <5>1. events[j].lp # <<>> /\ j < new
          BY <1>1, <3>7, <4>2
        <5>2. CASE \E k \in 1 .. n - 1 : p[k + 1] = j
          BY <3>2, <3>3, <5>2
        <5>3. CASE \A k \in 1 .. n - 1 : p[k + 1] # j
          <6>1. ASSUME NEW k \in 1 .. n - 1 PROVE j < p[k + 1]
            <7>1. k + 1 \in 1 .. n /\ 1 \in 1 .. n /\ 1 < k + 1
              BY <3>2
            <7>2. CASE \A m \in 1 .. n : j < p[m]
              BY <7>1, <7>2
            <7>3. CASE \E m \in 1 .. n : p[m] = j
              <8>1. PICK m \in 1 .. n : p[m] = j
                BY <7>3
              <8>2. m = 1
                <9>1. m # 1 => m - 1 \in 1 .. n - 1 /\ (m - 1) + 1 = m
                  BY <3>2
                <9> QED BY <5>3, <8>1, <9>1
              <8> QED BY <1>2, <7>1, <8>1, <8>2
            <7> QED BY <1>2, <4>2, <5>1, <7>2, <7>3
          <6> QED BY <3>2, <3>3, <5>1, <6>1
        <5> QED BY <5>2, <5>3
      <4> QED BY <1>1, <4>1, <4>2
    <3>8. Recent(q, slid, grown)
      BY <1>1, <3>1, <3>2, <3>4, <3>5, <3>6, <3>7 DEF Recent
    <3> QED BY <3>8
  <2> QED BY <2>1, <2>2
<1> HIDE DEF slid, grown
<1>7. \E q : Recent(q, slid, grown)
  <2>1. (\E x \in LogProbs : e.lp = <<x>>) \/ e.lp = <<>>
    BY <1>3 DEF Optional
  <2>2. CASE e.lp = <<>>
    BY <1>5, <2>2 DEF slid, grown
  <2> QED BY <1>6, <2>1, <2>2
<1> QED BY <1>7 DEF slid, grown

(* As many tokens as the accumulated text lists were seen.                 *)
LEMMA TokensCounted ==
  ASSUME TypeOK, TokensListed
  PROVE  Cardinality(Tokens(Len(npu))) = Len(accumulated)
<1> DEFINE n == Len(accumulated)
           T == Tokens(Len(npu))
<1>1. n \in Nat /\ accumulated \in [1 .. n -> Nat]
  BY DEF TypeOK
<1>2. /\ \A i \in 1 .. n : accumulated[i] \in T
      /\ \A j \in T : \E i \in 1 .. n : accumulated[i] = j
      /\ \A i, j \in 1 .. n : i < j => accumulated[i] < accumulated[j]
  BY DEF TokensListed
<1> HIDE DEF n, T
<1>3. \A i, j \in 1 .. n : accumulated[i] = accumulated[j] => i = j
  <2>1. \A i, j \in 1 .. n : i = j \/ i < j \/ j < i
    BY <1>1
  <2>2. \A i \in 1 .. n : accumulated[i] \in Nat
    BY <1>1
  <2> QED BY <1>2, <2>1, <2>2
<1>4. accumulated \in Bijection(1 .. n, T)
  BY <1>1, <1>2, <1>3 DEF Bijection, Injection, Surjection, IsInjective
<1>5. ExistsBijection(1 .. n, T)
  BY <1>4 DEF ExistsBijection
<1>6. Cardinality(T) = n
  BY <1>1, <1>5, FS_CountingElements
<1> QED BY <1>6 DEF n, T

(* After an event with data the rule stated on the NPU's whole answer is   *)
(* the one that the code applies to its window.                            *)
LEMMA LowAtLast ==
  TypeOK /\ WindowInv /\ TokensListed /\ Len(npu) > 0 /\ npu[Len(npu)].kind = "data" =>
    (LowAt(Len(npu)) <=> LowConfidence(recent_logprobs, accumulated))
<1> SUFFICES ASSUME TypeOK, WindowInv, TokensListed, npu[Len(npu)].kind = "data"
             PROVE  LowAt(Len(npu)) <=> LowConfidence(recent_logprobs, accumulated)
  OBVIOUS
<1> DEFINE n == Len(recent_logprobs)
           All == Scored(Len(npu))
           LowSum(S) == SumFunction([j \in S |-> npu[j].lp[1]]) < Threshold * Window
<1>1. PICK p : Recent(p, recent_logprobs, npu)
  BY DEF WindowInv
<1>2. /\ n \in Nat /\ n <= Window /\ Window \in Nat /\ Len(npu) \in Nat
      /\ recent_logprobs \in [1 .. n -> Int]
  <2>1. recent_logprobs \in Seq(LogProbs) /\ npu \in Seq(DataEvents \cup SkippedEvents)
    BY DEF TypeOK
  <2>2. recent_logprobs \in [1 .. n -> LogProbs] /\ n \in Nat
    BY <2>1
  <2>3. n <= Window /\ Window \in Nat /\ LogProbs \subseteq Int
    BY CascadeAssumption DEF TypeOK
  <2>4. Len(npu) \in Nat
    BY <2>1
  <2> HIDE DEF n
  <2>5. \A k \in 1 .. n : recent_logprobs[k] \in Int
    BY <2>2, <2>3
  <2> QED BY <2>2, <2>3, <2>4, <2>5
<1> DEFINE R == {p[k] : k \in 1 .. n}
<1>3. /\ p \in [1 .. n -> R] /\ R \subseteq All /\ All \subseteq Nat
      /\ \A k \in 1 .. n : npu[p[k]].lp[1] = recent_logprobs[k]
  <2>1. \A k \in 1 .. n : p[k] \in 1 .. Len(npu) /\ npu[p[k]].lp = <<recent_logprobs[k]>>
    BY <1>1 DEF Recent
  <2>2. DOMAIN p = 1 .. n /\ p = [k \in 1 .. n |-> p[k]]
    BY <1>1 DEF Recent
  <2> HIDE DEF n
  <2>3. p \in [1 .. n -> R]
    BY <2>2
  <2>4. ASSUME NEW k \in 1 .. n PROVE p[k] \in All
    <3>1. npu[p[k]].lp # <<>>
      BY <2>1, SMTT(30)
    <3> QED BY <2>1, <3>1 DEF Scored
  <2> QED BY <2>1, <2>3, <2>4 DEF Scored
<1>4. \A k, m \in 1 .. n : p[k] = p[m] => k = m
  <2>1. \A k, m \in 1 .. n : k = m \/ k < m \/ m < k
    BY <1>2
  <2>2. \A k, m \in 1 .. n : k < m => p[k] < p[m]
    BY <1>1 DEF Recent
  <2>3. \A k \in 1 .. n : p[k] \in Nat
    BY <1>3
  <2> QED BY <2>1, <2>2, <2>3
<1>5. \A j \in All \ R : n = Window /\ \A k \in R : j < k
  BY <1>1 DEF Recent, Scored
<1> HIDE DEF n, R, All
<1>6. p \in Bijection(1 .. n, R)
  BY <1>3, <1>4 DEF R, Bijection, Injection, Surjection, IsInjective
<1>7. IsFiniteSet(R) /\ Cardinality(R) = n /\ IsFiniteSet(1 .. n)
  <2>1. IsFiniteSet(1 .. n)
    BY <1>2, FS_Interval
  <2>2. ExistsBijection(1 .. n, R)
    BY <1>6 DEF ExistsBijection
  <2> QED BY <1>2, <2>1, <2>2, FS_CountingElements, FS_Bijection
<1>8. SumFunction([j \in R |-> npu[j].lp[1]]) = SumFunction(recent_logprobs)
  <2> DEFINE g == [j \in R |-> npu[j].lp[1]]
  <2>1. \A k \in 1 .. n : g[p[k]] = recent_logprobs[k]
    BY <1>3
  <2>2. ASSUME NEW j \in R PROVE npu[j].lp[1] \in Int
    <3>1. PICK k \in 1 .. n : j = p[k]
      BY DEF R
    <3> QED BY <1>2, <1>3, <3>1
  <2>4. g \in [R -> Int]
    BY <2>2
  <2> HIDE DEF g
  <2>3. SumFunction(recent_logprobs) = SumFunction(g)
    BY <1>2, <1>6, <1>7, <2>1, <2>4, SumRenamed
  <2> QED BY <2>3 DEF g
<1>9. LowAt(Len(npu)) <=>
        /\ Len(accumulated) >= Window
        /\ \E S \in SUBSET All : /\ Cardinality(S) = Window
                                 /\ \A j \in All \ S, k \in S : j < k
                                 /\ LowSum(S)
  BY TokensCounted DEF LowAt, All
<1>10. LowConfidence(recent_logprobs, accumulated) <=>
         Len(accumulated) >= Window /\ n = Window /\ LowSum(R)
  <2>1. n >= Window <=> n = Window
    BY <1>2
  <2>2. CASE n = Window
    BY <1>2, <1>8, <2>1, <2>2 DEF LowConfidence, n
  <2> QED BY <2>1, <2>2 DEF LowConfidence, n
<1> HIDE DEF LowSum
<1>11. ASSUME NEW S \in SUBSET All, Cardinality(S) = Window,
              \A j \in All \ S, k \in S : j < k
       PROVE  n = Window /\ S = R
  <2>1. n = Window
    <3> SUFFICES ASSUME n # Window PROVE FALSE
      OBVIOUS
    <3>1. S \subseteq R
      BY <1>5
    <3>2. Window <= n
      BY <1>7, <1>11, <3>1, FS_Subset
    <3> QED BY <1>2, <3>2
  <2>2. S = R
    <3> SUFFICES ASSUME S # R PROVE FALSE
      OBVIOUS
    <3>1. IsFiniteSet(S)
      <4>1. IsFiniteSet(1 .. Len(npu)) /\ S \subseteq 1 .. Len(npu)
        BY <1>2, FS_Interval DEF All, Scored
      <4> QED BY <4>1, FS_Subset
    <3>2. ~(R \subseteq S) /\ ~(S \subseteq R)
      BY <1>7, <1>11, <2>1, <3>1, FS_Subset
    <3>3. PICK j \in R, k \in S : j \notin S /\ k \notin R
      BY <3>2
    <3>4. j < k /\ k < j /\ j \in Nat /\ k \in Nat
      BY <1>3, <1>5, <1>11, <3>3
    <3> QED BY <3>4
  <2> QED BY <2>1, <2>2
<1>12. n = Window => /\ R \in SUBSET All /\ Cardinality(R) = Window
                     /\ \A j \in All \ R, k \in R : j < k
  BY <1>3, <1>5, <1>7
<1> QED BY <1>9, <1>10, <1>11, <1>12

(* Whether an event is low does not change any more.                       *)
LEMMA LowAtStays ==
  ASSUME TypeOK, NEW e, npu' = Append(npu, e), NEW i \in 1 .. Len(npu)
  PROVE  LowAt(i)' <=> LowAt(i)
<1>1. Len(npu) \in Nat /\ \A j \in 1 .. Len(npu) : npu'[j] = npu[j]
  BY DEF TypeOK
<1>2. \A j \in 1 .. i : npu'[j] = npu[j]
  BY <1>1
<1>3. Tokens(i)' = Tokens(i) /\ Scored(i)' = Scored(i)
  BY <1>2 DEF Tokens, Scored
<1>4. ASSUME NEW S \in SUBSET Scored(i)
      PROVE  [j \in S |-> npu'[j].lp[1]] = [j \in S |-> npu[j].lp[1]]
  <2>1. \A j \in S : npu'[j] = npu[j]
    BY <1>2 DEF Scored
  <2> QED BY <2>1
<1>5. npu'[i] = npu[i]
  BY <1>1
<1> QED BY <1>3, <1>4, <1>5 DEF LowAt

(* The window after an event is low just if the answer is, at that event.  *)
LastLow ==
  Len(npu) > 0 /\ npu[Len(npu)].kind = "data" =>
    (LowAt(Len(npu)) <=> LowConfidence(recent_logprobs, accumulated))

(* The first event that is low ends the NPU's part, when one more is       *)
(* taken from the buffer.                                                  *)
LEMMA NextEvent ==
  ASSUME TypeOK, SwitchesAtFirstLow, phase \in NpuPhases, LastLow',
         NEW e, npu' = Append(npu, e),
         phase' \in NpuPhases \cup HandoffPhases,
         phase' \in HandoffPhases <=>
           e.kind = "data" /\ LowConfidence(recent_logprobs, accumulated)'
  PROVE  SwitchesAtFirstLow'
<1> DEFINE new == Len(npu) + 1
<1>1. /\ Len(npu) \in Nat /\ Len(npu') = new /\ npu'[new] = e
      /\ \A i \in 1 .. new : i < new => i \in 1 .. Len(npu)
  BY DEF TypeOK
<1>2. \A i \in 1 .. Len(npu) : ~LowAt(i)
  BY <1>1 DEF SwitchesAtFirstLow
<1>3. \A i \in 1 .. Len(npu) : ~LowAt(i)'
  BY <1>2, LowAtStays
<1>4. LowAt(Len(npu))' <=> phase' \in HandoffPhases
  <2>1. CASE e.kind = "data"
    BY <1>1, <2>1 DEF LastLow
  <2>2. CASE e.kind # "data"
    BY <1>1, <2>2 DEF LowAt
  <2> QED BY <2>1, <2>2
<1>5. phase' \notin GpuPhases /\ (phase' \in NpuPhases <=> phase' \notin HandoffPhases)
  BY DEF NpuPhases, HandoffPhases, GpuPhases
<1> HIDE DEF new
<1> QED BY <1>1, <1>3, <1>4, <1>5 DEF SwitchesAtFirstLow

(* Every step keeps the window what it says.                               *)
LEMMA WindowStep == TypeOK /\ WindowInv /\ [Next]_vars => WindowInv'
<1> SUFFICES ASSUME TypeOK, WindowInv, [Next]_vars PROVE WindowInv'
  OBVIOUS
<1> USE DEF TypeOK
<1>1. CASE SkipEvent
  <2>1. PICK e \in SkippedEvents : npu' = Append(npu, e)
    BY <1>1 DEF SkipEvent
  <2>2. e.lp = <<>>
    BY DEF SkippedEvents, Event
  <2>3. recent_logprobs' = Slide(recent_logprobs, e.lp)
    BY <1>1, <2>2, SlideSays DEF SkipEvent
  <2> QED BY <2>1, <2>3, WindowGrows DEF WindowInv
<1>2. CASE ParseEvent
  <2>1. PICK e \in DataEvents :
          npu' = Append(npu, e) /\ recent_logprobs' = Slide(recent_logprobs, e.lp)
    BY <1>2 DEF ParseEvent
  <2> QED BY <2>1, WindowGrows DEF WindowInv
<1>3. CASE UNCHANGED <<npu, recent_logprobs>>
  BY <1>3, ZenonT(60) DEF WindowInv, Recent
<1> QED BY <1>1, <1>2, <1>3
        DEF Next, BackendStep, RouterStep, NpuConnect, NpuChunk, NpuStops, KvExport,
            KvImport, StartGpu, ForwardChunk, NextChunk, SendNpuDone, GpuEvent, GpuStops,
            ForwardGpu, SendGpuDone, Abandon, Take, Leave, session, vars

(* Every step keeps the rule: only an event that is taken from the buffer  *)
(* can be low, and after it the phase is what the rule asks for.           *)
LEMMA SwitchStep == TypeOK /\ LastLow' /\ SwitchesAtFirstLow /\ [Next]_vars => SwitchesAtFirstLow'
<1> SUFFICES ASSUME TypeOK, LastLow', SwitchesAtFirstLow, [Next]_vars
             PROVE  SwitchesAtFirstLow'
  OBVIOUS
<1>1. CASE SkipEvent
  <2>1. PICK e \in SkippedEvents : npu' = Append(npu, e)
    BY <1>1 DEF SkipEvent
  <2>2. e.kind # "data"
    BY DEF SkippedEvents, Event
  <2>3. phase \in NpuPhases /\ phase' \in NpuPhases /\ phase' \notin HandoffPhases
    BY <1>1 DEF SkipEvent, Goto, NpuPhases, HandoffPhases
  <2> QED BY <2>1, <2>2, <2>3, NextEvent
<1>2. CASE ParseEvent
  <2>1. PICK e \in DataEvents :
          /\ npu' = Append(npu, e)
          /\ phase' = IF LowConfidence(recent_logprobs', accumulated')
                      THEN IF KvIds THEN "exporting" ELSE "starting"
                      ELSE "forwarding"
    BY <1>2 DEF ParseEvent
  <2>2. e.kind = "data"
    BY DEF DataEvents, Event
  <2>3. LowConfidence(recent_logprobs', accumulated') <=>
          LowConfidence(recent_logprobs, accumulated)'
    BY DEF LowConfidence
  <2>4. /\ phase \in NpuPhases /\ phase' \in NpuPhases \cup HandoffPhases
        /\ phase' \in HandoffPhases <=> LowConfidence(recent_logprobs, accumulated)'
    BY <1>2, <2>1, <2>3 DEF ParseEvent, NpuPhases, HandoffPhases
  <2> QED BY <2>1, <2>2, <2>4, NextEvent
<1>3. CASE /\ UNCHANGED npu
           /\ phase' \in NpuPhases => phase \in NpuPhases
           /\ phase' \in HandoffPhases \cup GpuPhases => phase \in HandoffPhases \cup GpuPhases
  <2>1. \A i : LowAt(i)' <=> LowAt(i)
    BY <1>3 DEF LowAt, Tokens, Scored
  <2> QED BY <1>3, <2>1 DEF SwitchesAtFirstLow
<1> USE DEF NpuPhases, HandoffPhases, GpuPhases
<1>4. CASE NpuConnect \/ NpuChunk \/ NpuStops \/ KvExport \/ KvImport \/ StartGpu \/ Abandon
  BY <1>3, <1>4 DEF NpuConnect, NpuChunk, NpuStops, KvExport, KvImport, StartGpu, Abandon,
                    AfterKvError, Goto
<1>5. CASE ForwardChunk \/ NextChunk \/ SendNpuDone
  BY <1>3, <1>5 DEF ForwardChunk, NextChunk, SendNpuDone, Goto
<1>6. CASE GpuEvent \/ GpuStops \/ ForwardGpu \/ SendGpuDone
  BY <1>3, <1>6 DEF GpuEvent, GpuStops, ForwardGpu, SendGpuDone, Goto
<1>7. CASE Take \/ Leave \/ UNCHANGED vars
  BY <1>3, <1>7 DEF Take, Leave, session, vars
<1> QED BY <1>1, <1>2, <1>4, <1>5, <1>6, <1>7 DEF Next, BackendStep, RouterStep

(* The session leaves the NPU at the first event that is low, and at no    *)
(* other: the rule stated on the NPU's whole answer, which the code        *)
(* applies to a sliding window.                                            *)
THEOREM SwitchesAtFirstLowHolds == Spec => []SwitchesAtFirstLow
<1>1. Init => ContextInv /\ WindowInv /\ SwitchesAtFirstLow
  <2> SUFFICES ASSUME Init PROVE ContextInv /\ WindowInv /\ SwitchesAtFirstLow
    OBVIOUS
  <2>1. Len(npu) = 0 /\ Len(recent_logprobs) = 0 /\ 1 .. 0 = {}
    BY DEF Init
  <2>2. Recent([k \in {} |-> 0], recent_logprobs, npu)
    BY <2>1 DEF Recent
  <2>3. WindowInv
    BY <2>2 DEF WindowInv
  <2>4. ContextInv
    BY DEF Init, ContextInv, TokensListed, Tokens, GpuPhases
  <2> QED BY <2>1, <2>3, <2>4 DEF SwitchesAtFirstLow
<1>2. TypeOK /\ ContextInv /\ WindowInv => LastLow
  BY LowAtLast DEF LastLow, ContextInv
<1> QED BY <1>1, <1>2, WindowStep, SwitchStep, ContextStep, TypeCorrect, PTL DEF Spec
=============================================================================

---------------------------- MODULE ClientStream ----------------------------
(***************************************************************************)
(* What a cascade session promises its client: one stream, first of pieces *)
(* of the NPU's answer that never go back, then of the events of the GPU's *)
(* answer, each once and in order, then a single end marker.  The marker   *)
(* says that the answer is over: before the switch it comes only after the *)
(* NPU's stream has ended by itself.  A stream that broke, or whose GPU    *)
(* could not be started, ends without one, and nothing follows a marker.   *)
(***************************************************************************)
EXTENDS Naturals, Sequences, TLAPS

CONSTANT Positions  \* places in the NPU's answer

VARIABLES
  out,       \* what was handed to the client
  source,    \* where the next piece comes from: "npu" or "gpu"; "complete" when
             \* the NPU has ended its stream, "broken" when something failed
             \* before the switch, "none" when the stream is over
  relayed,   \* events of the GPU relayed so far
  listening  \* is the client still there?

vars == <<out, source, relayed, listening>>

Piece(src, lo, hi) == [src |-> src, lo |-> lo, hi |-> hi]
End == Piece("done", 0, 0)

(* Nothing is delivered to a client that has left.                         *)
Deliver(piece) ==
  /\ out' = IF listening THEN Append(out, piece) ELSE out
  /\ UNCHANGED listening

Init == out = <<>> /\ source = "npu" /\ relayed = 0 /\ listening = TRUE

RelayNpu ==
  /\ source = "npu"
  /\ \E lo, hi \in Positions :
       /\ lo < hi
       /\ \A i \in 1 .. Len(out) : out[i].hi <= hi
       /\ Deliver(Piece("npu", lo, hi))
  /\ UNCHANGED <<source, relayed>>

Switch ==
  /\ source = "npu"
  /\ source' = "gpu"
  /\ UNCHANGED <<out, relayed, listening>>

RelayGpu ==
  /\ source = "gpu"
  /\ Deliver(Piece("gpu", relayed, relayed + 1))
  /\ relayed' = relayed + 1
  /\ UNCHANGED source

(* The NPU has said all it had to say.                                     *)
Complete ==
  /\ source = "npu"
  /\ source' = "complete"
  /\ UNCHANGED <<out, relayed, listening>>

(* Only the NPU phase and the handoff can break the stream.                *)
Break ==
  /\ source = "npu"
  /\ source' = "broken"
  /\ UNCHANGED <<out, relayed, listening>>

Finish ==
  /\ source \in {"complete", "gpu"}
  /\ source' = "none"
  /\ Deliver(End)
  /\ UNCHANGED relayed

Fail ==
  /\ source = "broken"
  /\ source' = "none"
  /\ UNCHANGED <<out, relayed, listening>>

Leave ==
  /\ listening
  /\ listening' = FALSE
  /\ UNCHANGED <<out, source, relayed>>

Next ==
  RelayNpu \/ Switch \/ RelayGpu \/ Complete \/ Break \/ Finish \/ Fail \/ Leave

Spec == Init /\ [][Next]_vars

-----------------------------------------------------------------------------
(* The stream is NPU pieces, then GPU events, then at most one end marker: *)
(* no piece follows the marker, and no NPU piece follows a GPU event       *)
(* (stream.rs:3-4: "merging them into a single coherent stream").          *)
StreamShape ==
  \A i, j \in 1 .. Len(out) : i < j =>
    /\ out[i].src # "done"
    /\ out[j].src = "npu" => out[i].src = "npu"

(* The GPU's events reach the client each once and in their order.         *)
GpuInOrder ==
  \A i, j \in 1 .. Len(out) :
    (i < j /\ out[i].src = "gpu" /\ out[j].src = "gpu") => out[i].hi <= out[j].lo

-----------------------------------------------------------------------------
(***************************************************************************)
(* Both follow from the specification.  What the source says of the stream *)
(* so far makes them inductive: before the switch there are NPU pieces     *)
(* only, before the end no marker, and no GPU event beyond the relayed.    *)
(***************************************************************************)
Pieces ==
  [src : {"npu", "done"}, lo : Positions \cup Nat, hi : Positions \cup Nat]
    \cup [src : {"gpu"}, lo : Nat, hi : Nat]

StreamInv ==
  /\ out \in Seq(Pieces) /\ relayed \in Nat
  /\ StreamShape /\ GpuInOrder
  /\ source # "none" => \A i \in 1 .. Len(out) : out[i].src # "done"
  /\ source = "npu" => \A i \in 1 .. Len(out) : out[i].src = "npu"
  /\ \A i \in 1 .. Len(out) : out[i].src = "gpu" => out[i].hi <= relayed

(* A piece delivered is the last of the stream; all others are as before.  *)
LEMMA DeliverAppends ==
  ASSUME out \in Seq(Pieces), NEW piece \in Pieces, Deliver(piece)
  PROVE  /\ out' \in Seq(Pieces)
         /\ \A i \in 1 .. Len(out') :
              \/ i \in 1 .. Len(out) /\ out'[i] = out[i]
              \/ i = Len(out) + 1 /\ out'[i] = piece
<1>1. CASE listening
  <2>1. out' = Append(out, piece)
    BY <1>1 DEF Deliver
  <2>2. Len(out') = Len(out) + 1 /\ Len(out) \in Nat
    BY <2>1
  <2>3. \A i \in 1 .. Len(out') : i \in 1 .. Len(out) \/ i = Len(out) + 1
    BY <2>2
  <2> QED BY <2>1, <2>2, <2>3
<1>2. CASE ~listening
  BY <1>2 DEF Deliver
<1> QED BY <1>1, <1>2

(* The stream only ever has the shape, and the GPU's events the order,     *)
(* that is promised.                                                       *)
THEOREM StreamInOrderHolds == Spec => [](StreamShape /\ GpuInOrder)
<1>1. Init => StreamInv
  BY DEF Init, StreamInv, StreamShape, GpuInOrder
<1>2. StreamInv /\ [Next]_vars => StreamInv'
  <2> SUFFICES ASSUME StreamInv, [Next]_vars PROVE StreamInv'
    OBVIOUS
  <2> USE DEF StreamInv, StreamShape, GpuInOrder
  <2>1. CASE UNCHANGED vars
    BY <2>1 DEF vars
  <2>len. Len(out) \in Nat
    OBVIOUS
  <2>2. CASE RelayNpu
    <3>1. PICK lo, hi \in Positions : Deliver(Piece("npu", lo, hi))
      BY <2>2 DEF RelayNpu
    <3> DEFINE piece == Piece("npu", lo, hi)
    <3>2. piece \in Pieces /\ piece.src = "npu"
      BY DEF Piece, Pieces
    <3> HIDE DEF piece
    <3>3. /\ out' \in Seq(Pieces)
          /\ \A i \in 1 .. Len(out') :
               \/ i \in 1 .. Len(out) /\ out'[i] = out[i]
               \/ i = Len(out) + 1 /\ out'[i] = piece
      BY <3>1, <3>2, DeliverAppends DEF piece
    <3>4. source' = "npu" /\ source = "npu" /\ relayed' = relayed
      BY <2>2 DEF RelayNpu
    <3>5. \A i \in 1 .. Len(out') : out'[i].src = "npu"
      BY <3>2, <3>3, <3>4
    <3> QED BY <3>3, <3>4, <3>5
  <2>3. CASE RelayGpu
    <3> DEFINE piece == Piece("gpu", relayed, relayed + 1)
    <3>1. /\ piece \in Pieces
          /\ piece.src = "gpu" /\ piece.lo = relayed /\ piece.hi = relayed + 1
      BY DEF Piece, Pieces
    <3> HIDE DEF piece
    <3>2. /\ out' \in Seq(Pieces)
          /\ \A i \in 1 .. Len(out') :
               \/ i \in 1 .. Len(out) /\ out'[i] = out[i]
               \/ i = Len(out) + 1 /\ out'[i] = piece
      BY <2>3, <3>1, DeliverAppends DEF RelayGpu, piece
    <3>3. source' = "gpu" /\ source = "gpu" /\ relayed' = relayed + 1
      BY <2>3 DEF RelayGpu
    <3>4. \A i \in 1 .. Len(out') :
            out'[i].src # "done" /\ (out'[i].src = "gpu" => out'[i].hi <= relayed')
      <4> SUFFICES ASSUME NEW i \in 1 .. Len(out')
                   PROVE  /\ out'[i].src # "done"
                          /\ out'[i].src = "gpu" => out'[i].hi <= relayed'
        OBVIOUS
      <4>1. CASE i \in 1 .. Len(out) /\ out'[i] = out[i]
        <5>1. out[i] \in Pieces
          BY <4>1
        <5>2. out[i].src = "gpu" => out[i].hi \in Nat
          BY <5>1 DEF Pieces
        <5>3. out[i].src # "done" /\ (out[i].src = "gpu" => out[i].hi <= relayed)
          BY <3>3, <4>1
        <5> QED BY <3>3, <4>1, <5>2, <5>3
      <4>2. CASE out'[i] = piece
        BY <3>1, <3>3, <4>2
      <4> QED BY <3>2, <4>1, <4>2
    <3>5. StreamShape'
      BY <3>1, <3>2, <3>3, <3>4, <2>len
    <3>6. GpuInOrder'
      BY <3>1, <3>2, <3>3, <2>len
    <3> QED BY <3>2, <3>3, <3>4, <3>5, <3>6
  <2>4. CASE Finish
    <3>1. End \in Pieces /\ End.src = "done"
      BY DEF End, Piece, Pieces
    <3>2. /\ out' \in Seq(Pieces)
          /\ \A i \in 1 .. Len(out') :
               \/ i \in 1 .. Len(out) /\ out'[i] = out[i]
               \/ i = Len(out) + 1 /\ out'[i] = End
      BY <2>4, <3>1, DeliverAppends DEF Finish
    <3>3. source' = "none" /\ source # "none" /\ relayed' = relayed
      BY <2>4 DEF Finish
    <3>4. \A i, j \in 1 .. Len(out') : i < j =>
            i \in 1 .. Len(out) /\ out'[i] = out[i]
      BY <3>2, <2>len
    <3>5. StreamShape'
      BY <3>1, <3>2, <3>3, <3>4
    <3>6. GpuInOrder'
      BY <3>1, <3>2, <3>4
    <3> QED BY <3>1, <3>2, <3>3, <3>5, <3>6
  <2>5. CASE Switch \/ Complete \/ Break \/ Fail \/ Leave
    BY <2>5 DEF Switch, Complete, Break, Fail, Leave
  <2> QED BY <2>1, <2>2, <2>3, <2>4, <2>5 DEF Next
<1>3. StreamInv => StreamShape /\ GpuInOrder
  BY DEF StreamInv
<1> QED BY <1>1, <1>2, <1>3, PTL DEF Spec

=============================================================================

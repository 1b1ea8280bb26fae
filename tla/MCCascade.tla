----------------------------- MODULE MCCascade -----------------------------
(* Small instances of Cascade for TLC.                                     *)
EXTENDS Cascade

(* An uncertain token and a confident one, and a threshold between them.   *)
MCLogProbs == {-4, -1}
MCThreshold == -2

(* The network delivers one event to a chunk, or cuts the stream anywhere. *)
OneEvent(n) == [sizes |-> {2}, events |-> n]
AnyCut(n) == [sizes |-> {1, 2, 3}, events |-> n]
MCNetworks == {OneEvent(4), AnyCut(3)}
MCOneEvent == {OneEvent(3)}
MCHalves == {[sizes |-> {1}, events |-> 2]}

(* Every token uncertain: for runs about what comes after the switch.      *)
MCLow == {-4}

=============================================================================

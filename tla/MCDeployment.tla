---------------------------- MODULE MCDeployment ----------------------------
(* Small instances of Deployment for TLC.                                  *)
EXTENDS Deployment, TLC

MCCharacters == {"system", "user", "assistant", "tool", "<|im_start|>", "<|im_end|>", "\n",
                 "<unk>", "a", "b", "c"}

(* A vocabulary of characters and one token of two, the newline unknown,   *)
(* an id of more bits than an id has, the markers added, one over an entry *)
(* of the vocabulary; and a file that knows nothing.                       *)
Vocabulary ==
  (<<"a">> :> 0) @@ (<<"b">> :> 1) @@ (<<"a", "b">> :> 2) @@ (<<"user">> :> 3) @@
  (<<"assistant">> :> 260) @@ (<<"<|im_start|>">> :> 9)
Added == << [id |-> 6, content |-> <<"<|im_start|>">>],
            [id |-> 7, content |-> <<"<|im_end|>">>] >>
MCFiles == {[vocab |-> Vocabulary, added |-> Added], [vocab |-> <<>>, added |-> <<>>]}

ASSUME MCFilesAreProper == \A file \in MCFiles : IdsAreOwn(file)

(* The first sends what is cut off after the token of two characters and   *)
(* one that follows a character that is unknown, with a message of a role  *)
(* that is left out, and asks for more than it gets; the others send what  *)
(* fits and ask for no token at all.                                       *)
Message(role, content) == [role |-> role, content |-> content]
LongTalk == <<Message("tool", <<"b">>), Message("user", <<"a", "b", "c", "a">>)>>
Body(messages, max_tokens) == [messages |-> messages, max_tokens |-> max_tokens]
MCBodies == [c \in Requests |->
  CASE c = "c1" -> {Body(LongTalk, 3)}
    [] OTHER    -> {Body(<<>>, 0)}]

(* An engine goes on after its input for up to one token more than it was  *)
(* asked for; one that was asked for some may also die in its input, or    *)
(* print something else altogether.  An id is a token's or is none, as     *)
(* what a negative number becomes.                                         *)
MCPrints(input, gen_count) ==
  {input \o SubSeq(<<1, 255>>, 1, n) : n \in 0 .. gen_count + 1}
    \cup IF gen_count = 0 THEN {}
         ELSE {Front(input), [i \in 1 .. Len(input) + 1 |-> 1]}

MCOrder == <<"npu", "gpu">>
MCKinds == [c \in Requests |->
  CASE c = "c1" -> {"stream"}
    [] c = "c2" -> {"models", "completion", "chat"}
    [] OTHER    -> {"chat"}]

=============================================================================

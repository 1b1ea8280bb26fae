----------------------------- MODULE Tokenizer ------------------------------
(***************************************************************************)
(* The tokenizer and the chat template of npu-server.  A text is a         *)
(* sequence of characters; a role's name and a marker such as <|im_start|> *)
(* count as one character each.  An id is a number below IdCount, which is *)
(* 2^32 in the code.                                                       *)
(***************************************************************************)
EXTENDS Naturals, Sequences, FiniteSetsExt, SequencesExt

CONSTANTS
  Characters,  \* the characters of texts, with the names of roles and the markers
  MaxMatch,    \* characters of the longest token that encode looks for (32)
  IdCount      \* how many ids there are: the values of a u32

ASSUME TokenizerAssumption ==
  /\ {"system", "user", "assistant", "<|im_start|>", "<|im_end|>", "\n", "<unk>"}
       \subseteq Characters
  /\ MaxMatch \in Nat \ {0} /\ IdCount \in Nat \ {0}

Texts == Seq(Characters)

(* tokenizer.json with its ids as u32, which cuts off their upper bits.    *)
Narrow(file) ==
  [vocab |-> [t \in DOMAIN file.vocab |-> file.vocab[t] % IdCount],
   added |-> [i \in DOMAIN file.added |->
                [id |-> file.added[i].id % IdCount, content |-> file.added[i].content]]]

(* Of the added tokens with a key, the last is the one that counts.        *)
LastAdded(added, withKey) == added[Max(withKey)]

(* Tokenizer::load.  An added token replaces what the vocabulary says of   *)
(* its text, and of its id; an id in between that nobody has is "<unk>".   *)
(* Of two tokens of the vocabulary with one id, one has it.                *)
Load(file) ==
  LET vocab == Narrow(file).vocab
      added == Narrow(file).added
      texts == {added[i].content : i \in DOMAIN added}
      ids   == {added[i].id : i \in DOMAIN added}
      known == {vocab[t] : t \in DOMAIN vocab}
  IN  [vocab |->
         [t \in DOMAIN vocab \cup texts |->
            IF t \in texts
            THEN LastAdded(added, {i \in DOMAIN added : added[i].content = t}).id
            ELSE vocab[t]],
       id_to_token |->
         [id \in 0 .. Max(known \cup ids \cup {0}) |->
            IF id \in ids
            THEN LastAdded(added, {i \in DOMAIN added : added[i].id = id}).content
            ELSE IF id \in known
            THEN CHOOSE t \in DOMAIN vocab : vocab[t] = id
            ELSE <<"<unk>">>]]

(* Mutant of Encode: it goes on after the first character of a match.      *)
EncodeOverlaps(tok, text) ==
  LET Matches(i) == {n \in 1 .. Min({MaxMatch, Len(text) - i + 1}) :
                       SubSeq(text, i, i + n - 1) \in DOMAIN tok.vocab}
      from[i \in 1 .. Len(text) + 1] ==
        IF i > Len(text) THEN <<>>
        ELSE IF Matches(i) = {} THEN from[i + 1]
        ELSE <<tok.vocab[SubSeq(text, i, i + Max(Matches(i)) - 1)]>> \o from[i + 1]
  IN  from[1]

(* Tokenizer::encode: the longest token that begins here, and on after it; *)
(* a character that begins none is dropped.                                *)
Encode(tok, text) ==
  LET Matches(i) == {n \in 1 .. Min({MaxMatch, Len(text) - i + 1}) :
                       SubSeq(text, i, i + n - 1) \in DOMAIN tok.vocab}
      from[i \in 1 .. Len(text) + 1] ==
        IF i > Len(text) THEN <<>>
        ELSE IF Matches(i) = {} THEN from[i + 1]
        ELSE LET n == Max(Matches(i))
             IN  <<tok.vocab[SubSeq(text, i, i + n - 1)]>> \o from[i + n]
  IN  from[1]

(* Tokenizer::decode: an id that is no index is left out.                  *)
Decode(tok, ids) ==
  LET text[i \in 0 .. Len(ids)] ==
        IF i = 0 THEN <<>>
        ELSE IF ids[i] \in DOMAIN tok.id_to_token
        THEN text[i - 1] \o tok.id_to_token[ids[i]]
        ELSE text[i - 1]
  IN  text[Len(ids)]

(* build_qwen3_prompt: a message of another role is left out.              *)
Header(role) == <<"<|im_start|>", role, "\n">>
Prompt(messages) ==
  LET said[i \in 0 .. Len(messages)] ==
        IF i = 0 THEN <<>>
        ELSE IF messages[i].role \in {"system", "user", "assistant"}
        THEN said[i - 1] \o Header(messages[i].role) \o messages[i].content
               \o <<"<|im_end|>", "\n">>
        ELSE said[i - 1]
  IN  said[Len(messages)] \o Header("assistant")

-----------------------------------------------------------------------------
(* What the tokens of a text can say of it: its characters that are tokens *)
(* themselves.                                                             *)
KnownCharacters(tok, text) ==
  LET known[i \in 0 .. Len(text)] ==
        IF i = 0 THEN <<>>
        ELSE IF <<text[i]>> \in DOMAIN tok.vocab THEN Append(known[i - 1], text[i])
        ELSE known[i - 1]
  IN  known[Len(text)]

(* The ids of a file are nobody else's, even cut off: added tokens with    *)
(* the same id have the same text, no two tokens of the vocabulary have    *)
(* the same id, and an added one has the id of a token of the vocabulary   *)
(* only in its place.                                                      *)
IdsAreOwn(file) ==
  LET vocab == Narrow(file).vocab
      added == Narrow(file).added
  IN  /\ \A i, j \in DOMAIN added :
           added[i].id = added[j].id => added[i].content = added[j].content
      /\ \A t, u \in DOMAIN vocab : vocab[t] = vocab[u] => t = u
      /\ \A i \in DOMAIN added, t \in DOMAIN vocab :
           added[i].id = vocab[t] => \E j \in DOMAIN added : added[j].content = t

=============================================================================

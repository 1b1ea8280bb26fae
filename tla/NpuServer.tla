----------------------------- MODULE NpuServer ------------------------------
(***************************************************************************)
(* npu-server (src/bin/npu-server.rs): chat requests that wait for one of  *)
(* a few permits, run an engine process each, and answer with what it      *)
(* printed.  A request is a future that its client's leaving drops at any  *)
(* await; the process it started is not killed by that.                    *)
(*                                                                         *)
(* It serves once the tokenizer is loaded and the engine has been run once *)
(* to warm up; what is modelled begins there.                              *)
(***************************************************************************)
EXTENDS Integers, FiniteSets, Functions, Tokenizer

CONSTANTS
  Requests,       \* chat requests, one of each
  MaxConcurrent,  \* MAX_CONCURRENT, the permits of the engine
  MaxPrompt,      \* tokens of a prompt that the engine is given (256)
  MaxTokens,      \* MAX_TOKENS, the most that an engine is asked to generate
  Files,          \* what tokenizer.json may say
  Bodies,         \* what each request may say: its messages and max_tokens
  Prints(_, _)    \* what an engine may print, given its input and the number
                  \* of tokens it is asked for

ASSUME NpuAssumption ==
  /\ MaxConcurrent \in Nat \ {0} /\ MaxPrompt \in Nat /\ MaxTokens \in Nat
  /\ IsFiniteSet(Requests)
  /\ \A f \in Files : /\ IsFiniteSet(DOMAIN f.vocab)
                      /\ \A t \in DOMAIN f.vocab : t \in Texts /\ f.vocab[t] \in Nat
                      /\ f.added \in Seq([id : Nat, content : Texts])
  /\ Requests \subseteq DOMAIN Bodies
  /\ \A r \in DOMAIN Bodies : \A body \in Bodies[r] :
       /\ body.messages \in Seq([role : Characters, content : Texts])
       /\ body.max_tokens \in Nat

VARIABLES
  tokenizer,  \* loaded once
  phase,      \* where each request is
  permits,    \* free permits of the semaphore
  queue,      \* requests that wait for one, first come first
  job,        \* the messages of a request and its engine's input
  engine,     \* does the engine process of a request run?
  output,     \* the ids it printed
  answer      \* the text a request is answered with, streamed or plain

npuVars == <<tokenizer, phase, permits, queue, job, engine, output, answer>>

NoJob == [messages |-> <<>>, input |-> <<>>, gen_count |-> 0]
NoAnswer == [stream |-> FALSE, text |-> <<>>]

Tokenizers == {Load(f) : f \in Files}

(* The prompt's tokens, once for each tokenizer and conversation.          *)
Conversations == {body.messages : body \in UNION Range(Bodies)}
Encoded == [t \in Tokenizers |-> [m \in Conversations |-> Encode(t, Prompt(m))]]

Phases == {"idle", "queued", "granted", "running", "done",
           "answered", "refused", "failed", "left"}
Holds(r) == phase[r] \in {"granted", "running", "done"}
Holders == {r \in Requests : Holds(r)}
Replied(r) == phase[r] \in {"answered", "refused", "failed"}

NpuInit ==
  /\ tokenizer \in Tokenizers
  /\ phase = [r \in Requests |-> "idle"]
  /\ permits = MaxConcurrent
  /\ queue = <<>>
  /\ job = [r \in Requests |-> NoJob]
  /\ engine = [r \in Requests |-> FALSE]
  /\ output = [r \in Requests |-> <<>>]
  /\ answer = [r \in Requests |-> NoAnswer]

(* Sem::acquire: a free permit is taken at once, else one waits in turn.   *)
Acquire(r) ==
  \/ /\ permits > 0
     /\ permits' = permits - 1
     /\ phase' = [phase EXCEPT ![r] = "granted"]
     /\ UNCHANGED queue
  \/ /\ permits = 0
     /\ queue' = Append(queue, r)
     /\ phase' = [phase EXCEPT ![r] = "queued"]
     /\ UNCHANGED permits

(* The permit is dropped: the first that waits gets it, else it is free.   *)
Release(r, to) ==
  \/ /\ queue = <<>>
     /\ permits' = permits + 1
     /\ phase' = [phase EXCEPT ![r] = to]
     /\ UNCHANGED queue
  \/ /\ queue # <<>>
     /\ queue' = Tail(queue)
     /\ phase' = [phase EXCEPT ![r] = to, ![Head(queue)] = "granted"]
     /\ UNCHANGED permits

Truncated(tokens) == SubSeq(tokens, 1, Min({MaxPrompt, Len(tokens)}))

(* A prompt no token of which is known: 400.                               *)
Refuse(r) ==
  /\ phase[r] = "idle"
  /\ \E body \in Bodies[r] : Encoded[tokenizer][body.messages] = <<>>
  /\ phase' = [phase EXCEPT ![r] = "refused"]
  /\ UNCHANGED <<tokenizer, permits, queue, job, engine, output, answer>>

(* The prompt is built, encoded and cut off, and a permit asked for.       *)
Arrive(r) ==
  /\ phase[r] = "idle"
  /\ \E body \in Bodies[r] :
       LET tokens == Encoded[tokenizer][body.messages]
       IN  /\ tokens # <<>>
           /\ job' = [job EXCEPT ![r] = [messages |-> body.messages,
                                         input |-> Truncated(tokens),
                                         gen_count |-> Min({body.max_tokens, MaxTokens})]]
  /\ Acquire(r)
  /\ UNCHANGED <<tokenizer, engine, output, answer>>

(* Mutant of Spawn: the permit is bound to no name and dropped at once.    *)
SpawnUnpermitted(r) ==
  /\ phase[r] = "granted"
  /\ Release(r, "running")
  /\ engine' = [engine EXCEPT ![r] = TRUE]
  /\ UNCHANGED <<tokenizer, job, output, answer>>

(* The engine's process is started, or cannot be: 500.                     *)
Spawn(r) ==
  /\ phase[r] = "granted"
  /\ \/ /\ phase' = [phase EXCEPT ![r] = "running"]
        /\ engine' = [engine EXCEPT ![r] = TRUE]
        /\ UNCHANGED <<permits, queue, job>>
     \/ /\ Release(r, "failed")
        /\ job' = [job EXCEPT ![r] = NoJob]
        /\ UNCHANGED engine
  /\ UNCHANGED <<tokenizer, output, answer>>

(* The process exits, and every integer that it has printed until then is  *)
(* an id, whatever they are and however many: neither its exit status nor  *)
(* the echo of its input is looked at.  An orphan's output nobody reads.   *)
EngineExits(r) ==
  /\ engine[r]
  /\ engine' = [engine EXCEPT ![r] = FALSE]
  /\ IF phase[r] = "running"
     THEN /\ phase' = [phase EXCEPT ![r] = "done"]
          /\ \E ids \in Prints(job[r].input, job[r].gen_count) :
               /\ ids \in Seq(Nat)
               /\ output' = [output EXCEPT ![r] = ids]
     ELSE UNCHANGED <<phase, output>>
  /\ UNCHANGED <<tokenizer, permits, queue, job, answer>>

(* The answer as plain text, and as the deltas of a stream: the first      *)
(* event carries the role in the place of the first token's text.          *)
Content(ids, stream) ==
  [stream |-> stream, text |-> Decode(tokenizer, IF stream THEN Tail(ids) ELSE ids)]

(* Mutant of Respond: the prompt's length is taken before it is cut off.   *)
RespondUncut(r, stream) ==
  LET prompt_len == Len(Encoded[tokenizer][job[r].messages])
      generated == SubSeq(output[r], prompt_len + 1, Len(output[r]))
  IN  /\ phase[r] = "done"
      /\ \/ generated = <<>> /\ Release(r, "failed") /\ UNCHANGED answer
         \/ /\ generated # <<>> /\ Release(r, "answered")
            /\ answer' = [answer EXCEPT ![r] = Content(generated, stream)]
      /\ job' = [job EXCEPT ![r] = NoJob]
      /\ output' = [output EXCEPT ![r] = <<>>]
      /\ UNCHANGED <<tokenizer, engine>>

(* infer returns and drops the permit.  What follows the prompt is the     *)
(* answer; if nothing does: 500.                                           *)
Respond(r, stream) ==
  LET prompt_len == Len(job[r].input)
      generated == SubSeq(output[r], prompt_len + 1, Len(output[r]))
  IN  /\ phase[r] = "done"
      /\ \/ generated = <<>> /\ Release(r, "failed") /\ UNCHANGED answer
         \/ /\ generated # <<>> /\ Release(r, "answered")
            /\ answer' = [answer EXCEPT ![r] = Content(generated, stream)]
      /\ job' = [job EXCEPT ![r] = NoJob]
      /\ output' = [output EXCEPT ![r] = <<>>]
      /\ UNCHANGED <<tokenizer, engine>>

(* Mutants of Cancel: a permit that was granted but not yet used is lost;  *)
(* a request that waits stays in the queue; it gives back what it has not. *)
CancelLosesGrant(r) ==
  /\ \/ phase[r] = "granted" /\ phase' = [phase EXCEPT ![r] = "left"] /\ UNCHANGED <<permits, queue>>
     \/ phase[r] \in {"running", "done"} /\ Release(r, "left")
  /\ UNCHANGED <<tokenizer, job, engine, output, answer>>
CancelStaysQueued(r) ==
  /\ \/ phase[r] = "queued" /\ phase' = [phase EXCEPT ![r] = "left"] /\ UNCHANGED <<permits, queue>>
     \/ Holds(r) /\ Release(r, "left")
  /\ UNCHANGED <<tokenizer, job, engine, output, answer>>
CancelReturnsTooMuch(r) ==
  /\ phase[r] \in {"queued", "granted", "running", "done"} /\ Release(r, "left")
  /\ UNCHANGED <<tokenizer, job, engine, output, answer>>

(* The client is gone and the request's future is dropped where it waits.  *)
Cancel(r) ==
  /\ \/ /\ phase[r] = "queued"
        /\ phase' = [phase EXCEPT ![r] = "left"]
        /\ \E i \in DOMAIN queue : queue[i] = r /\ queue' = RemoveAt(queue, i)
        /\ UNCHANGED permits
     \/ Holds(r) /\ Release(r, "left")
  /\ job' = [job EXCEPT ![r] = NoJob]
  /\ output' = [output EXCEPT ![r] = <<>>]
  /\ UNCHANGED <<tokenizer, engine, answer>>

NpuNext ==
  \E r \in Requests :
    \/ Refuse(r) \/ Arrive(r) \/ Spawn(r) \/ EngineExits(r) \/ Cancel(r)
    \/ \E stream \in BOOLEAN : Respond(r, stream)

NpuSpec == NpuInit /\ [][NpuNext]_npuVars

-----------------------------------------------------------------------------
(* Properties                                                              *)

(* The types of what the server's control hangs on.                        *)
NpuTypeOK ==
  /\ phase \in [Requests -> Phases]
  /\ permits \in 0 .. MaxConcurrent
  /\ queue \in Seq(Requests)
  /\ engine \in [Requests -> BOOLEAN]

(* No permit is lost and none is given twice, whatever fails and whenever  *)
(* clients leave, even between the grant and its use (npu-server.rs:131).  *)
PermitsConserved ==
  permits + Cardinality(Holders) = MaxConcurrent

(* Requests wait only while no permit is free, in a queue that holds each  *)
(* of them once and no request that has left (npu-server.rs:131).          *)
WaitersInQueue ==
  /\ queue # <<>> => permits = 0
  /\ Range(queue) = {r \in Requests : phase[r] = "queued"}
  /\ \A i, j \in DOMAIN queue : queue[i] = queue[j] => i = j

(* No more engines run for clients that still wait than there are permits  *)
(* (npu-server.rs:6); any other is the orphan of a request that was        *)
(* dropped (npu-server.rs:139-146).                                        *)
EnginesBounded ==
  /\ Cardinality({r \in Requests : engine[r] /\ phase[r] # "left"}) <= MaxConcurrent
  /\ \A r \in Requests : engine[r] => phase[r] \in {"running", "left"}

(* The engine is given the beginning of the prompt, each character of      *)
(* which that is a token once and in order, if the characters of every     *)
(* token are tokens too (npu-server.rs:81-117, 275).                       *)
CharactersAreTokens ==
  \A t \in DOMAIN tokenizer.vocab : \A i \in DOMAIN t : <<t[i]>> \in DOMAIN tokenizer.vocab
KnownTextSurvives ==
  CharactersAreTokens =>
    \A r \in {s \in Requests : job[s] # NoJob} :
      IsPrefix(Decode(tokenizer, job[r].input),
               KnownCharacters(tokenizer, Prompt(job[r].messages)))

(* An engine is expected to print its input and then what it generates.    *)
(* If it does, the answer is all that the request's own engine generated,  *)
(* even if the prompt was cut off, but for the first token in a stream,    *)
(* whose event has the role instead; and there is none only if nothing was *)
(* generated.  From an engine that died in its input, or after it, no      *)
(* answer is made (npu-server.rs:281-319).                                 *)
AnswerContinuesPrompt ==
  [][\A r \in Requests :
       LET Generates(g) == output[r] = job[r].input \o g
       IN  /\ phase[r] # "answered" /\ phase'[r] = "answered" =>
                /\ Len(output[r]) > Len(job[r].input)
                /\ \A g \in Suffixes(output[r]) : Generates(g) =>
                     answer'[r].text =
                       Decode(tokenizer, IF answer'[r].stream THEN Tail(g) ELSE g)
           /\ phase[r] = "done" /\ phase'[r] = "failed" =>
                \A g \in Suffixes(output[r]) : Generates(g) => g = <<>>]_npuVars

=============================================================================

------------------------------- MODULE Gateway -------------------------------
(***************************************************************************)
(* FRONT: what happens to a POST /v1/chat/completions between the client   *)
(* and the scheduler's queue.  A handler takes a permit, has its request   *)
(* validated (parameters first, then the prompt's length, which a tokenizer *)
(* thread finds out), hands an entry to the queue and reads the entry's    *)
(* response channel until it can end the answer.  A client may leave        *)
(* wherever its handler waits.                                             *)
(*                                                                         *)
(* The router has a tokenizer; the engine side is external and does what   *)
(* Colocation lets a client see: Prefill, the tokens asked for, End, or an  *)
(* error instead, or a channel that closes without either.                 *)
(***************************************************************************)
EXTENDS Integers, Sequences, FiniteSets

CONSTANTS Req,        \* the requests, each with its client and handler
          Kinds,      \* what a client may send
          Permits,    \* max_concurrent_requests
          Workers,    \* validation_workers
          MaxInput,   \* max_input_length
          MaxTotal    \* max_total_tokens

(* No max_tokens in the request. *)
Unset == -1

(* A request: is it streamed, does a sampling parameter or the number of    *)
(* stop sequences fail its check, does its chat template render, how many   *)
(* tokens has the prompt, how many may be generated.                        *)
Kind == [stream : BOOLEAN, bad : BOOLEAN, renders : BOOLEAN, len : Nat, max : Nat \cup {Unset}]

ASSUME KindsAssumption == Kinds \subseteq Kind
ASSUME PermitsAssumption == Permits \in Nat /\ IsFiniteSet(Req)
ASSUME WorkersAssumption == Workers \in Nat \ {0}
(* main refuses to start with max_input_length >= max_total_tokens. *)
ASSUME LimitsAssumption == MaxInput \in Nat /\ MaxTotal \in Nat /\ MaxInput < MaxTotal

VARIABLES
  kind,      \* what each client has sent
  pc,        \* where each handler is
  free,      \* permits left in limit_concurrent_requests
  rr,        \* the channel to round_robin_task
  turn,      \* the worker it forwards to next
  queue,     \* each tokenizer_worker's channel
  reply,     \* what is in the response channel of validate_input
  rid,       \* RID_GENERATOR
  id,        \* the request ids given out
  new,       \* max_new_tokens of the valid requests
  chan,      \* the response channel of each entry
  tx,        \* its sender: "none" before the entry exists
  sent,      \* tokens the engine has sent
  prefilled, \* first_token_time is set
  got,       \* tokens the handler has read
  heard,     \* what the client has received
  aborted    \* the router has panicked

handlerVars == <<kind, pc, free>>
tokenizerVars == <<rr, turn, queue, reply>>
entryVars == <<rid, id, new>>
channelVars == <<chan, tx, sent>>
readerVars == <<prefilled, got, heard, aborted>>
vars == <<handlerVars, tokenizerVars, entryVars, channelVars, readerVars>>

(* Events of a response channel and of an answer; tokens are numbered. *)
Plain(k) == [kind |-> k, n |-> 0]
Token(i) == [kind |-> "token", n |-> i]

(* The handlers that hold a permit. *)
Working == {"checking", "tokenizing", "admitting", "open"}
Holders == {r \in Req : pc[r] \in Working}

Init ==
  /\ kind \in [Req -> Kinds]
  /\ pc = [r \in Req |-> "away"]
  /\ free = Permits
  /\ rr = <<>> /\ turn = 1
  /\ queue = [w \in 1..Workers |-> <<>>]
  /\ reply = [r \in Req |-> "none"]
  /\ rid = 0
  /\ id = [r \in Req |-> Unset]
  /\ new = [r \in Req |-> 0]
  /\ chan = [r \in Req |-> <<>>]
  /\ tx = [r \in Req |-> "none"]
  /\ sent = [r \in Req |-> 0]
  /\ prefilled = [r \in Req |-> FALSE]
  /\ got = [r \in Req |-> 0]
  /\ heard = [r \in Req |-> <<>>]
  /\ aborted = FALSE

(* The handler's future ends and its permit is dropped with it. *)
Leave(r, where) == pc' = [pc EXCEPT ![r] = where] /\ free' = free + 1

Tells(r, events) == heard' = [heard EXCEPT ![r] = @ \o events]

------------------------------------------------------------------------------
(* Validation.                                                              *)

(* try_acquire_owned *)
Acquire(r) ==
  /\ pc[r] = "away" /\ free > 0
  /\ free' = free - 1
  /\ pc' = [pc EXCEPT ![r] = "checking"]
  /\ UNCHANGED <<kind, tokenizerVars, entryVars, channelVars, readerVars>>

Overloaded(r) ==
  /\ pc[r] = "away" /\ free = 0
  /\ pc' = [pc EXCEPT ![r] = "done"]
  /\ Tells(r, <<Plain("overloaded")>>)
  /\ UNCHANGED <<kind, free, tokenizerVars, entryVars, channelVars, prefilled, got, aborted>>

(* The checks that need no tokenizer. *)
ParametersRefused(k) == k.bad \/ k.max = 0

RefuseParameters(r) ==
  /\ pc[r] = "checking" /\ ParametersRefused(kind[r])
  /\ Leave(r, "done")
  /\ Tells(r, <<Plain("validation")>>)
  /\ UNCHANGED <<kind, tokenizerVars, entryVars, channelVars, prefilled, got, aborted>>

AskTokenizer(r) ==
  /\ pc[r] = "checking" /\ ~ParametersRefused(kind[r])
  /\ pc' = [pc EXCEPT ![r] = "tokenizing"]
  /\ rr' = Append(rr, r)
  /\ UNCHANGED <<kind, free, turn, queue, reply, entryVars, channelVars, readerVars>>

(* round_robin_task *)
Forward ==
  /\ rr # <<>>
  /\ rr' = Tail(rr)
  /\ queue' = [queue EXCEPT ![turn] = Append(@, Head(rr))]
  /\ turn' = (turn % Workers) + 1
  /\ UNCHANGED <<handlerVars, reply, entryVars, channelVars, readerVars>>

(* tokenizer_worker answers its requests in turn.  It also does the work of *)
(* a handler that is gone, and then drops the result: send(..).unwrap_or(()). *)
TokenizeUnwrapped(w) ==
  /\ queue[w] # <<>>
  /\ LET r == Head(queue[w]) IN
     /\ pc[r] = "tokenizing"
     /\ reply' = [reply EXCEPT ![r] = IF kind[r].renders THEN "ok" ELSE "error"]
  /\ queue' = [queue EXCEPT ![w] = Tail(@)]
  /\ UNCHANGED <<handlerVars, rr, turn, entryVars, channelVars, readerVars>>

Tokenize(w) ==
  /\ queue[w] # <<>>
  /\ LET r == Head(queue[w]) IN
     reply' = IF pc[r] # "tokenizing" THEN reply
              ELSE [reply EXCEPT ![r] = IF kind[r].renders THEN "ok" ELSE "error"]
  /\ queue' = [queue EXCEPT ![w] = Tail(@)]
  /\ UNCHANGED <<handlerVars, rr, turn, entryVars, channelVars, readerVars>>

(* max_new_tokens, by default what the prompt leaves of max_total_tokens. *)
NewTokens(k) ==
  IF k.max # Unset THEN k.max ELSE IF k.len < MaxTotal THEN MaxTotal - k.len ELSE 0

WithinTotalOnly(k) == k.len + NewTokens(k) <= MaxTotal

WithinLimits(k) == k.len + NewTokens(k) <= MaxTotal /\ k.len <= MaxInput

RefuseInput(r) ==
  /\ pc[r] = "tokenizing" /\ reply[r] # "none"
  /\ reply[r] = "error" \/ ~WithinLimits(kind[r])
  /\ Leave(r, "done")
  /\ Tells(r, <<Plain("validation")>>)
  /\ UNCHANGED <<kind, tokenizerVars, entryVars, channelVars, prefilled, got, aborted>>

(* The request is valid: it is numbered.  Two handlers on two threads may   *)
(* append their entries in the other order.                                 *)
TakeId(r) ==
  /\ pc[r] = "tokenizing" /\ reply[r] = "ok" /\ WithinLimits(kind[r])
  /\ id' = [id EXCEPT ![r] = rid]
  /\ rid' = rid + 1
  /\ new' = [new EXCEPT ![r] = NewTokens(kind[r])]
  /\ pc' = [pc EXCEPT ![r] = "admitting"]
  /\ UNCHANGED <<kind, free, tokenizerVars, channelVars, readerVars>>

(* queue.append; a streamed answer opens with the assistant's role.         *)
AppendEntry(r) ==
  /\ pc[r] = "admitting"
  /\ pc' = [pc EXCEPT ![r] = "open"]
  /\ tx' = [tx EXCEPT ![r] = "open"]
  /\ Tells(r, IF kind[r].stream THEN <<Plain("role")>> ELSE <<>>)
  /\ UNCHANGED <<kind, free, tokenizerVars, entryVars, chan, sent, prefilled, got, aborted>>

------------------------------------------------------------------------------
(* The engine's side of the response channel (external).  The request asks  *)
(* for exactly new[r] tokens: max_tokens = min_tokens.                      *)

Sends(r, msg) == chan' = [chan EXCEPT ![r] = Append(@, msg)]

(* With the output that carries the first token, and with the one that      *)
(* ends a request of none.                                                  *)
Prefill(r) ==
  /\ tx[r] = "open" /\ pc[r] = "open"
  /\ Sends(r, Plain("Prefill"))
  /\ tx' = [tx EXCEPT ![r] = "generating"]
  /\ UNCHANGED <<handlerVars, tokenizerVars, entryVars, sent, readerVars>>

Generate(r) ==
  /\ tx[r] = "generating" /\ pc[r] = "open" /\ sent[r] < new[r]
  /\ sent' = [sent EXCEPT ![r] = @ + 1]
  /\ Sends(r, Token(sent[r] + 1))
  /\ UNCHANGED <<handlerVars, tokenizerVars, entryVars, tx, readerVars>>

Finish(r) ==
  /\ tx[r] = "generating" /\ pc[r] = "open" /\ sent[r] = new[r]
  /\ Sends(r, Plain("End"))
  /\ tx' = [tx EXCEPT ![r] = "closed"]
  /\ UNCHANGED <<handlerVars, tokenizerVars, entryVars, sent, readerVars>>

(* The engine refuses or fails the request; without a word when the driver  *)
(* of the replica is gone.                                                  *)
Fail(r) ==
  /\ tx[r] \in {"open", "generating"} /\ pc[r] = "open"
  /\ tx' = [tx EXCEPT ![r] = "closed"]
  /\ \/ Sends(r, Plain("Err"))
     \/ UNCHANGED chan
  /\ UNCHANGED <<handlerVars, tokenizerVars, entryVars, sent, readerVars>>

------------------------------------------------------------------------------
(* Reading the channel.                                                     *)

Takes(r, msg) == pc[r] = "open" /\ chan[r] # <<>> /\ Head(chan[r]).kind = msg
               /\ chan' = [chan EXCEPT ![r] = Tail(@)]

ReadPrefill(r) ==
  /\ Takes(r, "Prefill")
  /\ prefilled' = [prefilled EXCEPT ![r] = TRUE]
  /\ UNCHANGED <<handlerVars, tokenizerVars, entryVars, tx, sent, got, heard, aborted>>

ReadToken(r) ==
  /\ Takes(r, "token")
  /\ got' = [got EXCEPT ![r] = @ + 1]
  /\ Tells(r, IF kind[r].stream THEN <<Head(chan[r])>> ELSE <<>>)
  /\ UNCHANGED <<handlerVars, tokenizerVars, entryVars, tx, sent, prefilled, aborted>>

(* The End of the driver carries a default GeneratedText, without text and  *)
(* with no tokens, and a default token: a stream adds no chunk for it, and  *)
(* the one answer of a request that is not streamed has that text.          *)
Answer(text) == [kind |-> "answer", n |-> text]

ReadEnd(r) ==
  /\ Takes(r, "End")
  /\ IF kind[r].stream \/ (got[r] > 0 /\ prefilled[r])
     THEN /\ Leave(r, "done")
          /\ Tells(r, IF kind[r].stream THEN <<Plain("finish"), Plain("DONE")>>
                      ELSE <<Answer(Head(chan[r]).n)>>)
          /\ UNCHANGED aborted
     ELSE /\ aborted' = TRUE          \* time_between_tokens.remove(0), first_token_time.unwrap()
          /\ UNCHANGED <<pc, free, heard>>
  /\ UNCHANGED <<kind, tokenizerVars, entryVars, tx, sent, prefilled, got>>

ReadErrOnly(r) ==
  /\ Takes(r, "Err")
  /\ Tells(r, <<Plain("generation")>>)
  /\ UNCHANGED <<handlerVars, tokenizerVars, entryVars, tx, sent, prefilled, got, aborted>>

ReadErr(r) ==
  /\ Takes(r, "Err")
  /\ Leave(r, "done")
  /\ Tells(r, <<Plain("generation")>>)
  /\ UNCHANGED <<kind, tokenizerVars, entryVars, tx, sent, prefilled, got, aborted>>

(* The channel closed before an End. *)
Incomplete(r) ==
  /\ pc[r] = "open" /\ tx[r] = "closed" /\ chan[r] = <<>>
  /\ Leave(r, "done")
  /\ Tells(r, <<Plain("incomplete_generation")>>)
  /\ UNCHANGED <<kind, tokenizerVars, entryVars, channelVars, prefilled, got, aborted>>

(* The client goes away: its handler's future is dropped where it waits,    *)
(* the permit and the receiving end of the channel with it.  The entry      *)
(* stays where it is.                                                       *)
Disconnect(r) ==
  /\ pc[r] \in {"tokenizing", "open"}
  /\ Leave(r, "gone")
  /\ chan' = [chan EXCEPT ![r] = <<>>]
  /\ UNCHANGED <<kind, tokenizerVars, entryVars, tx, sent, readerVars>>

Handler(r) ==
  \/ RefuseParameters(r) \/ AskTokenizer(r) \/ RefuseInput(r) \/ TakeId(r) \/ AppendEntry(r)
  \/ ReadPrefill(r) \/ ReadToken(r) \/ ReadEnd(r) \/ ReadErr(r) \/ Incomplete(r)

Engine(r) == Prefill(r) \/ Generate(r) \/ Finish(r)

Next ==
  /\ ~aborted
  /\ \/ \E r \in Req : Acquire(r) \/ Overloaded(r) \/ Handler(r) \/ Engine(r) \/ Fail(r) \/ Disconnect(r)
     \/ Forward
     \/ \E w \in 1..Workers : Tokenize(w)

(* Tokio polls every task that can run; the tokenizer threads do nothing    *)
(* but this; an engine that neither answers nor fails is not the router's.  *)
Fairness ==
  /\ \A r \in Req : WF_vars(~aborted /\ Handler(r)) /\ WF_vars(~aborted /\ Engine(r))
  /\ WF_vars(~aborted /\ Forward)
  /\ \A w \in 1..Workers : WF_vars(~aborted /\ Tokenize(w))

Spec == Init /\ [][Next]_vars

FairSpec == Spec /\ Fairness

------------------------------------------------------------------------------
Endings == {"overloaded", "validation", "generation", "incomplete_generation", "answer", "DONE"}

TypeOK ==
  /\ kind \in [Req -> Kinds]
  /\ pc \in [Req -> Working \cup {"away", "done", "gone"}]
  /\ free \in Nat
  /\ turn \in 1..Workers
  /\ rid \in Nat
  /\ id \in [Req -> Nat \cup {Unset}]
  /\ new \in [Req -> Nat]
  /\ reply \in [Req -> {"none", "ok", "error"}]

(* The permits left are those no live handler holds: none is lost on any of *)
(* the ways a handler ends, none is returned twice (infer.rs:109-121, the   *)
(* errors of validate, the end of generate and of the SSE stream).          *)
PermitsExact == free + Cardinality(Holders) = Permits

(* Every request that gets into the queue has a prompt the model can take   *)
(* and something to generate, and both fit the context: what the default of *)
(* max_new_tokens, the two checks of validate_input and main's check of the *)
(* limits establish together.                                               *)
AdmittedFit ==
  \A r \in Req : id[r] # Unset =>
    new[r] >= 1 /\ kind[r].len <= MaxInput /\ kind[r].len + new[r] <= MaxTotal

(* No two entries have the same id, by which the engine and every map of    *)
(* the driver know them.                                                    *)
IdsDistinct ==
  \A r \in Req : id[r] # Unset => id[r] < rid /\ \A s \in Req \ {r} : id[r] # id[s]

(* What the gateway promises the scheduler. *)
Admission == PermitsExact /\ AdmittedFit /\ IdsDistinct

(* A handler that has told its client an ending has told one, as the last   *)
(* event, and a client whose handler is still at work has heard none; a     *)
(* stream brings its tokens right after the role, without a gap and in      *)
(* order, all those the handler has read, and no other answer brings any;   *)
(* DONE and a plain answer come after all the tokens the request asked for, *)
(* and no panic (infer.rs:206, :249) comes instead of one.                  *)
Heard(r, kinds) == {i \in 1..Len(heard[r]) : heard[r][i].kind \in kinds}
EndsRight(r) ==
  /\ Heard(r, Endings) = IF pc[r] = "done" THEN {Len(heard[r])} ELSE {}
  /\ Heard(r, {"token"}) = IF kind[r].stream THEN 2..(got[r] + 1) ELSE {}
  /\ \A i \in Heard(r, {"token"}) : heard[r][i] = Token(i - 1)
  /\ Heard(r, {"DONE", "answer"}) # {} => got[r] = new[r]
OneEnding == ~aborted /\ \A r \in Req : EndsRight(r)

(* A client whose request was let in and who stays hears an ending,         *)
(* whatever other clients do: those who leave take no tokenizer thread and  *)
(* no turn of round_robin_task with them (validation.rs:307-334).           *)
EveryClientAnswered == \A r \in Req : pc[r] = "checking" ~> pc[r] \in {"done", "gone"}

(* "Output text.", types.rs:34: a plain answer has the text of its tokens.   *)
AnswerHasText ==
  \A r \in Req : \A i \in 1..Len(heard[r]) : heard[r][i].kind = "answer" => heard[r][i].n = got[r]
=============================================================================

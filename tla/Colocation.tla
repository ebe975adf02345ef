----------------------------- MODULE Colocation -----------------------------
(***************************************************************************)
(* One replica of the engine driver (router/src/engine/colocation.rs): the *)
(* work loop, which pulls committed requests and POSTs them to the engine, *)
(* the completion loop, which consumes the engine's step outputs, the      *)
(* exception context that keeps aborted and faulted requests, and the      *)
(* replica's LMetric counters in the ScheduleContext.                      *)
(*                                                                         *)
(* A request is its id.  Token contents, block ids and latencies are left  *)
(* out; the number of tokens an output carries is kept because the         *)
(* counters depend on it.  The engine and the client are environment: what *)
(* they may do is bounded by Env.                                          *)
(***************************************************************************)
EXTENDS Integers, FiniteSets, Sequences, FiniteSetsExt

CONSTANTS
  Req,          \* request ids
  Orphans,      \* ids the engine is still serving for an earlier router process
  ChannelCap,   \* capacity of the work-queue channel (64 in the code)
  InputLen,     \* prompt length of a request, in tokens
  MaxTokens,    \* bound: tokens the engine generates for one request
  MaxChunks,    \* bound: prefill outputs of one request (> 1: chunked prefill)
  MaxSse,       \* bound: step outputs in flight from the engine
  UsizeMod,     \* number of values of usize
  DebugBuild,   \* TRUE when debug assertions are compiled in
  Env           \* what the environment may do, a subset of EnvEvent

EnvEvent == {"disconnect", "refuse", "break", "lose", "end", "term", "preempt"}

ASSUME ColocationAssumption ==
  /\ IsFiniteSet(Req) /\ Orphans \subseteq Req
  /\ ChannelCap \in Nat \ {0} /\ InputLen \in Nat
  /\ MaxTokens \in Nat \ {0} /\ MaxChunks \in Nat \ {0} /\ MaxSse \in Nat \ {0}
  /\ UsizeMod \in Nat \ {0}
  /\ DebugBuild \in BOOLEAN /\ Env \subseteq EnvEvent

(* Phases a request goes through in request_phases; Untracked: no entry. *)
Phase == {"Untracked", "Waiting", "Prefilling", "Decoding", "Excepted"}

(* ExtStInner of a request, None when it has no state.  The live flag is    *)
(* raised only when a fault is put and cleared at the end of that cycle.    *)
ExtSt == {"None", "WaitingTerm", "FaultedLive", "Faulted", "ExitedTerm", "Exited"}
ExtHeld == {"WaitingTerm", "FaultedLive", "Faulted"}

(* What a client has seen: an answer ends its stream. *)
ClientSt == {"new", "waiting", "gone", "End", "Error", "Closed"}

(* The assertions and expects of the two loops, by what fires them. *)
PanicSite == {"exit", "fault", "term", "term_faulted", "phase_excepted",
              "phase_prefill", "missing", "underflow", "unreachable", "overflow", "queue"}

EngineSt == {"idle", "posted", "prefill", "decode", "done", "refused", "acked"}
EngineRec == [st : EngineSt, chunks : Nat, toks : Nat, err : BOOLEAN]

(* One request's part of a step output; Silent: the step does not list it.  *)
Output == [state : {"NONE", "PREFILL", "DECODE"}, ntok : 0..1, fin : BOOLEAN]
Silent == [state |-> "NONE", ntok |-> 0, fin |-> FALSE]
StepOutput == [outs : [Req -> Output], term : SUBSET Req]
NoStep == [outs |-> [r \in Req |-> Silent], term |-> {}]
Reported(m) == {r \in Req : m.outs[r] # Silent}

VARIABLES
  process,    \* "down" after a panic of a release build, which aborts
  lmetric,    \* the replica's LMetric: bs, waiting (waiting_reqs), all (all_tokens)
  committed,  \* this replica's commit buffer in PolicyRunner
  wl,         \* program counter of the work loop
  held,       \* the entry the work loop holds: {} or a singleton
  wq,         \* the channel from the work loop to the completion loop
  cq,         \* program counter of the completion loop
  step,       \* the step output being processed
  todo,       \* outputs of the step the slow path has not passed yet
  entries, phases, gen,      \* entries, request_phases, generated_token_cnt
  exents, exst,              \* ExtContext: entries and states
  leaving,    \* temp_leaving_entries
  cancel,     \* cancel_req_ids
  errs,       \* ids in the error channel
  panics,     \* assertions that have fired
  eng,        \* the engine's view of each request
  sse,        \* step outputs in flight
  stream,     \* "ended" once the engine has closed the stream
  client,     \* what each client has seen
  got         \* tokens each client has received

workVars == <<committed, wl, held>>
loopVars == <<cq, step, todo, entries, phases, gen, exents, exst, leaving, cancel>>
engineVars == <<eng, sse, stream>>
clientVars == <<client, got>>
vars == <<process, lmetric, workVars, wq, loopVars, errs, panics, engineVars, clientVars>>

(* The engine's record of a request, moved to state st or with its POST failed. *)
Failed(e) == [st |-> e.st, chunks |-> e.chunks, toks |-> e.toks, err |-> TRUE]
Moved(e, st) == [st |-> st, chunks |-> e.chunks, toks |-> e.toks, err |-> e.err]

Init ==
  /\ process = "up"
  /\ lmetric = [bs |-> 0, waiting |-> 0, all |-> 0]
  /\ committed = <<>> /\ wl = "reserve" /\ held = {} /\ wq = <<>>
  /\ cq = "recv" /\ step = NoStep /\ todo = {}
  /\ entries = {} /\ phases = [r \in Req |-> "Untracked"] /\ gen = [r \in Req |-> 0]
  /\ exents = {} /\ exst = [r \in Req |-> "None"] /\ leaving = {} /\ cancel = {}
  /\ errs = {} /\ panics = {}
  /\ eng = [r \in Req |-> [st |-> IF r \in Orphans THEN "decode" ELSE "idle",
                           chunks |-> 0, toks |-> 0, err |-> FALSE]]
  /\ sse = <<>> /\ stream = "open"
  /\ client = [r \in Req |-> "new"] /\ got = [r \in Req |-> 0]

(* Dropping an entry drops its response channel: a client still waiting on  *)
(* it sees its stream end without an answer.                                *)
Close(S, c) == [r \in Req |-> IF r \in S /\ c[r] = "waiting" THEN "Closed" ELSE c[r]]

-----------------------------------------------------------------------------
(* The completion loop ends, by StreamEnded or by a panic: its locals and   *)
(* its ends of the channels are dropped.  A panic of a release build        *)
(* (panic = "abort") takes the process, and with it every client.           *)
EndLoop(sites, c) ==
  LET down == sites # {} /\ ~DebugBuild IN
  /\ process' = IF down THEN "down" ELSE process
  /\ cq' = "dead" /\ step' = NoStep /\ todo' = {}
  /\ entries' = {} /\ phases' = [r \in Req |-> "Untracked"]
  /\ exents' = {} /\ exst' = [r \in Req |-> "None"] /\ leaving' = {} /\ cancel' = {}
  /\ wq' = <<>> /\ errs' = {}
  /\ panics' = panics \cup sites
  /\ client' = Close(IF down THEN Req ELSE entries \cup exents \cup leaving \cup Range(wq), c)
  /\ UNCHANGED <<workVars, gen, engineVars>>

-----------------------------------------------------------------------------
(* The scheduler commits a new request to this replica and applies          *)
(* apply_default_after to its counters.  A debug build checks the additions *)
(* and a panic ends the scheduler's task, dropping its commit buffer.       *)
SchedulerDead == "overflow" \in panics
AdmitOverflow == DebugBuild /\ lmetric.all + InputLen >= UsizeMod

Admit(r) ==
  /\ client[r] = "new" /\ r \notin Orphans /\ ~SchedulerDead /\ ~AdmitOverflow
  /\ client' = [client EXCEPT ![r] = "waiting"]
  /\ committed' = Append(committed, r)
  /\ lmetric' = [bs |-> lmetric.bs + 1, waiting |-> lmetric.waiting + 1,
                 all |-> (lmetric.all + InputLen) % UsizeMod]
  /\ UNCHANGED <<process, wl, held, wq, loopVars, errs, panics, engineVars, got>>

AdmitPanic(r) ==
  /\ client[r] = "new" /\ r \notin Orphans /\ ~SchedulerDead /\ AdmitOverflow
  /\ panics' = panics \cup {"overflow"}
  /\ committed' = <<>>
  /\ client' = [Close(Range(committed), client) EXCEPT ![r] = "Closed"]
  /\ lmetric' = [bs |-> lmetric.bs + 1, waiting |-> lmetric.waiting + 1, all |-> lmetric.all]
  /\ UNCHANGED <<process, wl, held, wq, loopVars, errs, engineVars, got>>

Disconnect(r) ==
  /\ "disconnect" \in Env /\ client[r] = "waiting"
  /\ client' = [client EXCEPT ![r] = "gone"]
  /\ UNCHANGED <<process, lmetric, workVars, wq, loopVars, errs, panics, engineVars, got>>

-----------------------------------------------------------------------------
(* The work loop. *)
Reserve ==
  /\ wl = "reserve" /\ cq # "dead" /\ Len(wq) < ChannelCap
  /\ wl' = "pull"
  /\ UNCHANGED <<process, lmetric, committed, held, wq, loopVars, errs, panics,
                 engineVars, clientVars>>

(* reserve() fails once the completion loop has dropped its receiver. *)
ReserveClosed ==
  /\ wl = "reserve" /\ cq = "dead"
  /\ wl' = "dead" /\ wq' = <<>>
  /\ panics' = panics \cup {"unreachable"}
  /\ process' = IF DebugBuild THEN process ELSE "down"
  /\ client' = Close(IF DebugBuild THEN Range(wq) ELSE Req, client)
  /\ UNCHANGED <<lmetric, committed, held, loopVars, errs, engineVars, got>>

(* Mutants of NextRequest: the entry is read but not popped; the last       *)
(* committed entry is left in the buffer.                                   *)
NextRequestPeek ==
  /\ wl = "pull" /\ ~SchedulerDead
  /\ IF committed = <<>>
     THEN wl' = "reserve" /\ UNCHANGED held
     ELSE wl' = "lock" /\ held' = {Head(committed)}
  /\ UNCHANGED <<process, lmetric, committed, wq, loopVars, errs, panics, engineVars, clientVars>>
NextRequestLast ==
  /\ wl = "pull" /\ ~SchedulerDead
  /\ IF Len(committed) < 2
     THEN wl' = "reserve" /\ UNCHANGED <<committed, held>>
     ELSE wl' = "lock" /\ held' = {Head(committed)} /\ committed' = Tail(committed)
  /\ UNCHANGED <<process, lmetric, wq, loopVars, errs, panics, engineVars, clientVars>>

NextRequest ==
  /\ wl = "pull" /\ ~SchedulerDead
  /\ IF committed = <<>>
     THEN wl' = "reserve" /\ UNCHANGED <<committed, held>>
     ELSE /\ wl' = "lock"
          /\ held' = {Head(committed)} /\ committed' = Tail(committed)
  /\ UNCHANGED <<process, lmetric, wq, loopVars, errs, panics, engineVars, clientVars>>

(* The command channel of the scheduler is closed: unwrap. *)
NextRequestPanic ==
  /\ wl = "pull" /\ SchedulerDead
  /\ wl' = "dead" /\ panics' = panics \cup {"queue"}
  /\ UNCHANGED <<process, lmetric, committed, held, wq, loopVars, errs, engineVars, clientVars>>

(* wqe_mtx is held from AddRequest to Send. *)
AddRequest ==
  /\ wl = "lock"
  /\ wl' = "send"
  /\ eng' = [r \in Req |-> IF r \in held THEN Moved(eng[r], "posted") ELSE eng[r]]
  /\ UNCHANGED <<process, lmetric, committed, held, wq, loopVars, errs, panics,
                 sse, stream, clientVars>>

Send ==
  /\ wl = "send"
  /\ wl' = "reserve" /\ held' = {}
  /\ \E r \in held : wq' = Append(wq, r)
  /\ UNCHANGED <<process, lmetric, committed, loopVars, errs, panics, engineVars, clientVars>>

WorkLoop == Reserve \/ ReserveClosed \/ NextRequest \/ NextRequestPanic \/ AddRequest \/ Send

-----------------------------------------------------------------------------
(* The completion loop, one step output at a time. *)
RecvStep ==
  /\ cq = "recv" /\ sse # <<>>
  /\ step' = Head(sse) /\ sse' = Tail(sse)
  /\ cq' = "drain"
  /\ UNCHANGED <<process, lmetric, workVars, wq, todo, entries, phases, gen, exents, exst,
                 leaving, cancel, errs, panics, eng, stream, clientVars>>

(* recv_step fails on this output (unparsable, or lost while reconnecting). *)
LoseStep ==
  /\ "lose" \in Env /\ cq = "recv" /\ sse # <<>>
  /\ sse' = Tail(sse)
  /\ UNCHANGED <<process, lmetric, workVars, wq, loopVars, errs, panics, eng, stream, clientVars>>

StreamEnded ==
  /\ cq = "recv" /\ sse = <<>> /\ stream = "ended"
  /\ EndLoop({}, client)
  /\ UNCHANGED <<lmetric, got>>

(* Mutant of DrainChannel: wqe_mtx is not taken. *)
DrainUnlocked ==
  /\ cq = "drain"
  /\ cq' = "metrics" /\ wq' = <<>>
  /\ entries' = entries \cup Range(wq)
  /\ phases' = [r \in Req |-> IF r \in Range(wq) THEN "Waiting" ELSE phases[r]]
  /\ UNCHANGED <<process, lmetric, workVars, step, todo, gen, exents, exst, leaving, cancel,
                 errs, panics, engineVars, clientVars>>

DrainChannel ==
  /\ cq = "drain" /\ wl # "send"
  /\ cq' = "metrics" /\ wq' = <<>>
  /\ entries' = entries \cup Range(wq)
  /\ phases' = [r \in Req |-> IF r \in Range(wq) THEN "Waiting" ELSE phases[r]]
  /\ UNCHANGED <<process, lmetric, workVars, step, todo, gen, exents, exst, leaving, cancel,
                 errs, panics, engineVars, clientVars>>

(* Fast path. *)
Known == entries \cup exents
Finished == {r \in Reported(step) : step.outs[r].fin}
ExitingNone == {}                                             \* mutant: Exit returns no entry
Exiting == {r \in Finished \ entries : exst[r] \in ExtHeld}    \* put(Exit) returns the entry
UnknownExit == {r \in Finished \ entries : exst[r] = "None"}   \* put(Exit) expects a state
PrefillsUnfinished == {r \in Reported(step) \cap Known :       \* mutant: finished ones skipped
                       step.outs[r].state = "PREFILL" /\ ~step.outs[r].fin}
Prefills == {r \in Reported(step) \cap Known : step.outs[r].state = "PREFILL"}
Updated == (Reported(step) \cap Known) \ Finished
ReleasedTracked == Finished \cap entries                      \* mutant: aborted ones skipped
Released == (Finished \cap entries) \cup Exiting

TokensReleasedAppended(r) == InputLen + gen[r] + 1             \* mutant: last token counted
TokensReleased(r) == InputLen + IF step.outs[r].state = "PREFILL" THEN 0 ELSE gen[r]
TokenDelta == Cardinality({r \in Updated : step.outs[r].ntok = 1})
              - MapThenSumSet(TokensReleased, Released)

Saturating(n) == IF n < 0 THEN 0 ELSE n
Underflow == lmetric.bs < Cardinality(Released) \/ lmetric.waiting < Cardinality(Prefills)

UpdateMetrics ==
  /\ cq = "metrics" /\ UnknownExit = {} /\ ~(DebugBuild /\ Underflow)
  /\ cq' = "pass" /\ todo' = Reported(step)
  /\ gen' = [r \in Req |-> IF r \in Updated THEN gen[r] + 1 ELSE gen[r]]
  /\ exst' = [r \in Req |-> IF r \notin Exiting THEN exst[r]
                            ELSE IF exst[r] = "WaitingTerm" THEN "ExitedTerm" ELSE "Exited"]
  /\ exents' = exents \ Exiting /\ leaving' = Exiting
  /\ lmetric' = [bs |-> Saturating(lmetric.bs - Cardinality(Released)),
                 waiting |-> Saturating(lmetric.waiting - Cardinality(Prefills)),
                 all |-> (lmetric.all + TokenDelta) % UsizeMod]
  /\ UNCHANGED <<process, workVars, wq, step, entries, phases, cancel, errs, panics,
                 engineVars, clientVars>>

(* A finished output of a request the loop has no record of. *)
ExitPanic ==
  /\ cq = "metrics" /\ UnknownExit # {}
  /\ EndLoop({"exit"}, client)
  /\ UNCHANGED <<lmetric, got>>

(* A debug build subtracts with wrap-around, then asserts. *)
UnderflowPanic ==
  /\ cq = "metrics" /\ UnknownExit = {} /\ DebugBuild /\ Underflow
  /\ EndLoop({"underflow"}, client)
  /\ lmetric' = [bs |-> (lmetric.bs - Cardinality(Released)) % UsizeMod,
                 waiting |-> IF lmetric.bs < Cardinality(Released) THEN lmetric.waiting
                             ELSE (lmetric.waiting - Cardinality(Prefills)) % UsizeMod,
                 all |-> lmetric.all]
  /\ UNCHANGED got

(* RequestPhase::transition and the assertions it makes. *)
PhaseReported(ph, state) == state                             \* mutant: the state is not mapped
PhaseAfter(ph, state) ==
  IF ph = "Excepted" THEN "Excepted" ELSE IF state = "PREFILL" THEN "Prefilling" ELSE "Decoding"
PhasePanic(r) ==
  IF phases[r] = "Excepted" THEN {"phase_excepted"}
  ELSE IF phases[r] = "Decoding" /\ step.outs[r].state = "PREFILL" THEN {"phase_prefill"}
  ELSE IF r \notin entries \cup exents \cup leaving THEN {"missing"}
  ELSE {}

(* Slow path, one output: on_prefill or on_decode, then on_finish_request.  *)
(* A send fails once the client has gone; a finish revokes the abort.       *)
SendFailsInverted(r) == client[r] = "waiting"                 \* mutant: is_ok for is_err
SendFails(r) == /\ step.outs[r].state = "PREFILL" \/ step.outs[r].ntok > 0
                /\ client[r] # "waiting"
DeliveredDecoded(r) == IF client[r] = "waiting" /\ step.outs[r].state = "DECODE"
                       THEN step.outs[r].ntok ELSE 0          \* mutant: first token not sent
Delivered(r) == IF client[r] = "waiting" THEN step.outs[r].ntok ELSE 0

PassGeneration(r) ==
  LET o == step.outs[r] IN
  /\ cq = "pass" /\ r \in todo /\ ~(DebugBuild /\ PhasePanic(r) # {})
  /\ todo' = todo \ {r}
  /\ phases' = [phases EXCEPT ![r] =
       IF (r \in entries /\ o.fin) \/ @ = "Untracked" THEN "Untracked" ELSE PhaseAfter(@, o.state)]
  /\ got' = [got EXCEPT ![r] = IF r \in entries THEN @ + Delivered(r) ELSE @]
  /\ IF r \in entries /\ o.fin
     THEN /\ entries' = entries \ {r}
          /\ client' = [client EXCEPT ![r] = IF @ = "waiting" THEN "End" ELSE @]
          /\ UNCHANGED cancel
     ELSE /\ cancel' = IF r \in entries /\ SendFails(r) THEN cancel \cup {r} ELSE cancel
          /\ UNCHANGED <<entries, client>>
  /\ UNCHANGED <<process, lmetric, workVars, wq, cq, step, gen, exents, exst, leaving,
                 errs, panics, engineVars>>

PassPanic(r) ==
  /\ cq = "pass" /\ r \in todo /\ DebugBuild /\ PhasePanic(r) # {}
  /\ EndLoop(PhasePanic(r), client)
  /\ UNCHANGED <<lmetric, got>>

(* End of the cycle: on_frontend_abort, on_backend_fault, Term, filter_drop. *)
Faulting == errs \cap (entries \ cancel)
UnknownFault == errs \ entries
Unanswered(S) == client                                       \* mutant: no error is sent
Answered(S) == [r \in Req |-> IF r \in S /\ client[r] = "waiting" THEN "Error" ELSE client[r]]
(* Mutant of ExstPut: aborts are not put. *)
ExstPutFaults == [r \in Req |-> IF r \in Faulting THEN "FaultedLive" ELSE exst[r]]
ExstPut == [r \in Req |-> IF r \in cancel THEN "WaitingTerm"
                          ELSE IF r \in Faulting THEN "FaultedLive" ELSE exst[r]]
UnknownTerm == {r \in step.term : ExstPut[r] = "None"}
FaultedTerm == {r \in step.term : ExstPut[r] \in {"FaultedLive", "Faulted", "Exited"}}
TermHeld == {r \in step.term : ExstPut[r] \in ExtHeld}
Dropped == {r \in Req \ step.term : ExstPut[r] = "Faulted"}
FreedTerm == TermHeld                                         \* mutant: drops not removed
FreedAborts == TermHeld \cup Dropped \cup cancel               \* mutant: no wait for the ACK
Freed == TermHeld \cup Dropped
TokensFreed(r) == InputLen + gen[r]
TermPanics == IF UnknownTerm # {} THEN {"term"}
              ELSE IF DebugBuild /\ FaultedTerm # {} THEN {"term_faulted"} ELSE {}

EndCycle ==
  /\ cq = "pass" /\ todo = {} /\ UnknownFault = {} /\ TermPanics = {}
  /\ cq' = "recv" /\ step' = NoStep
  /\ entries' = entries \ (cancel \cup Faulting)
  /\ exents' = (exents \cup cancel \cup Faulting) \ Freed
  /\ exst' = [r \in Req |-> IF r \in step.term \cup Dropped THEN "None"
                            ELSE IF ExstPut[r] = "FaultedLive" THEN "Faulted" ELSE ExstPut[r]]
  /\ phases' = [r \in Req |-> IF r \in step.term \cup Dropped THEN "Untracked"
                              ELSE IF r \in cancel \cup Faulting THEN "Excepted" ELSE phases[r]]
  /\ client' = Close(leaving \cup Freed, Answered(Faulting))
  /\ lmetric' = [bs |-> Saturating(lmetric.bs - Cardinality(Freed)),
                 waiting |-> lmetric.waiting,
                 all |-> IF Freed = {} THEN lmetric.all
                         ELSE Saturating(lmetric.all - MapThenSumSet(TokensFreed, Freed))]
  /\ leaving' = {} /\ cancel' = {} /\ errs' = {}
  /\ UNCHANGED <<process, workVars, wq, todo, gen, panics, engineVars, got>>

(* on_backend_fault expects every id of the error channel in entries; the   *)
(* faults it met before the unknown one have been answered.                 *)
FaultPanic ==
  /\ cq = "pass" /\ todo = {} /\ UnknownFault # {}
  /\ \E S \in SUBSET Faulting : EndLoop({"fault"}, Answered(S))
  /\ UNCHANGED <<lmetric, got>>

(* put(Term) expects a state; a debug build also refuses a faulted one.     *)
TermPanic ==
  /\ cq = "pass" /\ todo = {} /\ UnknownFault = {} /\ TermPanics # {}
  /\ EndLoop(TermPanics, Answered(Faulting))
  /\ UNCHANGED <<lmetric, got>>

CompletionLoop ==
  \/ RecvStep \/ LoseStep \/ StreamEnded \/ DrainChannel
  \/ UpdateMetrics \/ ExitPanic \/ UnderflowPanic
  \/ \E r \in Req : PassGeneration(r) \/ PassPanic(r)
  \/ EndCycle \/ FaultPanic \/ TermPanic

-----------------------------------------------------------------------------
(* The engine (external), as the loops use it. *)
Active == {r \in Req : eng[r].st \in {"posted", "prefill", "decode"}}

(* Outputs the engine may report for r in its next step: a prefill chunk    *)
(* that generates nothing, the prefill that generates the first token, or   *)
(* one decoded token; the last token finishes the request.                  *)
NextOutputs(r) ==
  LET e == eng[r]
      last(n) == IF n = MaxTokens THEN {TRUE} ELSE BOOLEAN
  IN IF e.st = "decode"
     THEN {[state |-> "DECODE", ntok |-> 1, fin |-> f] : f \in last(e.toks + 1)}
     ELSE {[state |-> "PREFILL", ntok |-> 1, fin |-> f] : f \in last(e.toks + 1)}
          \cup IF e.chunks + 1 < MaxChunks
               THEN {[state |-> "PREFILL", ntok |-> 0, fin |-> FALSE]} ELSE {}

AfterOutput(e, o) ==
  [st |-> IF o.fin THEN "done" ELSE IF o.ntok = 0 THEN "prefill" ELSE "decode",
   chunks |-> IF o.state = "PREFILL" THEN e.chunks + 1 ELSE e.chunks,
   toks |-> e.toks + o.ntok, err |-> e.err]

(* Requests whose abort the engine may acknowledge. *)
Acknowledgeable == {r \in Req : "term" \in Env /\ eng[r].st # "acked"
                                /\ exst[r] \in {"WaitingTerm", "ExitedTerm"}}

EngineStep ==
  /\ stream = "open" /\ Len(sse) < MaxSse
  /\ \E T \in SUBSET Acknowledgeable : \E B \in SUBSET (Active \ T) :
     \E o \in [B -> Output] :
       /\ B \cup T # {}
       /\ \A r \in B : o[r] \in NextOutputs(r)
       /\ sse' = Append(sse, [outs |-> [r \in Req |-> IF r \in B THEN o[r] ELSE Silent],
                              term |-> T])
       /\ eng' = [r \in Req |-> IF r \in B THEN AfterOutput(eng[r], o[r])
                                ELSE IF r \in T THEN Moved(eng[r], "acked") ELSE eng[r]]
  /\ UNCHANGED <<process, lmetric, workVars, wq, loopVars, errs, panics, stream, clientVars>>

(* The POST of r fails: the engine refuses it, or the connection breaks     *)
(* while the engine is still serving it.                                    *)
PostFails(r) ==
  /\ ~eng[r].err
  /\ \/ /\ "refuse" \in Env /\ eng[r].st = "posted"
        /\ eng' = [eng EXCEPT ![r] = Failed(Moved(@, "refused"))]
     \/ /\ "break" \in Env /\ eng[r].st \in {"prefill", "decode"} /\ r \notin Orphans
        /\ eng' = [eng EXCEPT ![r] = Failed(@)]
  /\ errs' = IF cq = "dead" THEN errs ELSE errs \cup {r}
  /\ UNCHANGED <<process, lmetric, workVars, wq, loopVars, panics, sse, stream, clientVars>>

(* The engine preempts a decoding request and will prefill it again. *)
Preempt(r) ==
  /\ "preempt" \in Env /\ eng[r].st = "decode" /\ eng[r].chunks < MaxChunks
  /\ eng' = [eng EXCEPT ![r] = Moved(@, "prefill")]
  /\ UNCHANGED <<process, lmetric, workVars, wq, loopVars, errs, panics, sse, stream, clientVars>>

EngineEnds ==
  /\ "end" \in Env /\ stream = "open" /\ stream' = "ended"
  /\ UNCHANGED <<process, lmetric, workVars, wq, loopVars, errs, panics, eng, sse, clientVars>>

Engine == EngineStep \/ EngineEnds \/ \E r \in Req : PostFails(r) \/ Preempt(r)

Next ==
  /\ process = "up"
  /\ \/ \E r \in Req : Admit(r) \/ AdmitPanic(r) \/ Disconnect(r)
     \/ WorkLoop \/ CompletionLoop \/ Engine

Spec == Init /\ [][Next]_vars

(* Both loops are tokio tasks the runtime keeps polling, and the engine     *)
(* eventually runs another step while it serves a request.  Clients and     *)
(* failures have no fairness.                                               *)
Fairness == /\ WF_vars(process = "up" /\ WorkLoop)
            /\ WF_vars(process = "up" /\ CompletionLoop)
            /\ WF_vars(process = "up" /\ EngineStep)

FairSpec == Spec /\ Fairness
-----------------------------------------------------------------------------
(* The requests that count against the replica's batch size: every place an *)
(* entry can be in, but for those the fast path of the current step has     *)
(* already released and the slow path has not yet removed.                  *)
CountedOut == {r \in todo \cap entries : step.outs[r].fin}
Live == Range(committed) \cup held \cup Range(wq) \cup (entries \ CountedOut) \cup exents
Running == process = "up" /\ cq # "dead" /\ ~SchedulerDead

(* Requests assigned to the replica whose prefill has not been reported.    *)
Unstarted == Range(committed) \cup held \cup Range(wq)
             \cup {r \in entries \ todo : phases[r] = "Waiting"}

TypeOK ==
  /\ process \in {"up", "down"}
  /\ lmetric.bs \in Nat /\ lmetric.waiting \in Nat
  /\ committed \in Seq(Req) /\ wl \in {"reserve", "pull", "lock", "send", "dead"}
  /\ held \in SUBSET Req /\ wq \in Seq(Req)
  /\ cq \in {"recv", "drain", "metrics", "pass", "dead"}
  /\ step \in StepOutput /\ todo \in SUBSET Req
  /\ entries \in SUBSET Req /\ phases \in [Req -> Phase] /\ gen \in [Req -> Nat]
  /\ exents \in SUBSET Req /\ exst \in [Req -> ExtSt]
  /\ leaving \in SUBSET Req /\ cancel \in SUBSET Req
  /\ errs \in SUBSET Req /\ panics \in SUBSET PanicSite
  /\ eng \in [Req -> EngineRec]
  /\ sse \in Seq(StepOutput) /\ stream \in {"open", "ended"}
  /\ client \in [Req -> ClientSt] /\ got \in [Req -> Nat]

(* One entry lives in exactly one place at a time: commit buffer, work      *)
(* loop, channel, entries, exception context, temp_leaving_entries          *)
(* (docs/architecture/concurrency-model.md, Invariants).                    *)
Places == <<Range(committed), held, Range(wq), entries, exents, leaving>>
EntryInOnePlace ==
  /\ \A i, j \in DOMAIN Places : i # j => Places[i] \cap Places[j] = {}
  /\ IsInjective(committed) /\ IsInjective(wq) /\ \A q, r \in held : q = r

(* While the completion loop runs, LMetric::bs, which the scheduler and two *)
(* points of the completion loop update, is the number of requests the      *)
(* replica holds: no finish, abort or fault is counted twice or forgotten.  *)
BatchSizeExact == Running => lmetric.bs = Cardinality(Live)

(* LMetric::all_tokens is the number of prompt and generated tokens of the  *)
(* requests the replica holds.                                              *)
TokensHeld(r) == InputLen + gen[r]
AllTokensExact == Running => lmetric.all = MapThenSumSet(TokensHeld, Live) % UsizeMod

(* LMetric::waiting_reqs is the number of requests that have been assigned  *)
(* but not started (state.rs).                                              *)
WaitingExact == Running => lmetric.waiting = Cardinality(Unstarted)

(* A client still waiting for its answer is one whose entry, and with it    *)
(* the sending end of its channel, is in a place that will serve it.        *)
WaitingClientOwned ==
  process = "up" => \A r \in Req : client[r] = "waiting" =>
    r \in Range(committed) \cup held \cup Range(wq) \cup entries

(* While the loop runs no client sees its stream end without an End or an   *)
(* error: an entry is dropped only after its client was answered or left.   *)
NoSilentClose == Running => \A r \in Req : client[r] # "Closed"

(* The assertions at the loop boundary: tracked requests have a live phase, *)
(* excepted ones are marked, and the two halves of ExtContext agree.        *)
LoopBoundary ==
  cq = "recv" => /\ \A r \in entries : phases[r] \notin {"Untracked", "Excepted"}
                 /\ \A r \in exents : phases[r] = "Excepted"
                 /\ exents = {r \in Req : exst[r] \in ExtHeld}

(* After the drain every request the step reports is known to the loop, for *)
(* wqe_mtx spans the POST and the send (comment "postcond: all requests in  *)
(* step output are visible to CQ").  Orphans and failed POSTs are excepted. *)
OutputVisible ==
  cq = "metrics" => \A r \in Reported(step) \ Orphans : eng[r].err \/ r \in Known

(* A client that saw End received every token the engine generated for it.  *)
DeliveredAll == \A r \in Req : client[r] = "End" => got[r] = eng[r].toks

(* While the loop runs, the replica gives up a request's slot only once the *)
(* engine is done with it or its POST failed.                               *)
ReleasedOnlyWhenDone ==
  [][Running' => \A r \in Live \ Live' :
       eng[r].err \/ eng[r].st \in {"done", "acked", "refused"}]_vars

(* The driver keeps the promise of a replica (module Replica): a slot per   *)
(* request, given up once, and one answer per client, End after the slot is *)
(* free and Error before.                                                   *)
Rep == INSTANCE Replica WITH alive <- Running, slots <- Live, bs <- lmetric.bs
ImplementsReplica == Rep!Spec

(* Every client that keeps waiting is answered. *)
ClientAnswered == \A r \in Req : client[r] = "waiting" ~> client[r] # "waiting"

(* When requests stop arriving the replica's batch size returns to zero,    *)
(* whatever clients left meanwhile.                                         *)
BatchDrains == <>[](lmetric.bs = 0)
-----------------------------------------------------------------------------
(* What makes the invariants above inductive.                               *)

(* Program counters: when the work loop holds an entry, and when the slow   *)
(* path has outputs to pass.                                                *)
LoopControl ==
  /\ held # {} => wl \in {"lock", "send"}
  /\ cq # "pass" => todo = {} /\ cancel = {}
  /\ todo \subseteq Reported(step) /\ cancel \subseteq entries /\ cancel \cap todo = {}

(* A request the scheduler has not seen is nowhere in the driver. *)
NewUntouched ==
  \A r \in Req : client[r] = "new" =>
    r \notin Range(committed) \cup held \cup Range(wq) \cup entries \cup exents \cup leaving

(* ExtContext: entries and states agree. *)
ExtAgree == exents = {r \in Req : exst[r] \in ExtHeld}

(* Clients of excepted, cancelled and leaving requests wait no more. *)
ExceptedServed == \A r \in exents \cup leaving \cup cancel : client[r] # "waiting"

-----------------------------------------------------------------------------
(* What the code's comments, assertions and documents say of it, and the    *)
(* runs refute.                                                             *)

(* on_backend_fault: every id of the error channel is in entries ("not      *)
(* found in entries. This is a bug.").                                      *)
FaultTracked == "fault" \notin panics

(* state.rs, waiting_reqs: an idle replica has no request assigned but not  *)
(* started.                                                                 *)
IdleWaitingZero == Running /\ Live = {} => lmetric.waiting = 0

(* RequestPhase::transition: excepted requests receive no phase transition. *)
ExceptedSilent == "phase_excepted" \notin panics

(* work_event_loop: the channel is never closed by the completion loop      *)
(* (unreachable!).                                                          *)
ChannelOpen == "unreachable" \notin panics

(* completion_event_loop: an output of an unknown request, such as one of a *)
(* previous router session, is skipped gracefully.                          *)
StaleSkipped == "exit" \notin panics

(* vllm_http.rs: the error channel exists to return an error code to the    *)
(* client of a request the engine refused.                                  *)
RefusalAnswered ==
  \A r \in Req : eng[r].st = "refused" /\ client[r] = "waiting" ~> client[r] # "waiting"
=============================================================================

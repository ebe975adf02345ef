-------------------------------- MODULE Routing --------------------------------
(***************************************************************************)
(* One scheduling decision after another, while the engines work.  A       *)
(* policy observes each replica under its lock, decides on what it saw,    *)
(* applies the decision under the chosen replica's lock and, with Preble,  *)
(* takes that lock once more for its window (policy-dsl/src/lower.rs and   *)
(* policies/dsl_runtime.rs).  Between any two of these the completion loop *)
(* of a replica may change its counters, its index and its window.         *)
(*                                                                         *)
(* All requests of a behaviour have one prompt: the index of a replica is  *)
(* how many blocks of it are cached.  A request generates a token when its *)
(* prefill is done and is finished by this one or by the next.             *)
(*                                                                         *)
(* Bounds: a step reports on at most one request the engine had not begun  *)
(* before and on one it had (what several outputs do to the counters adds  *)
(* up), and a prefill is cut into chunks of the lengths in Chunks.  Every  *)
(* output arrives and is of a request this router has sent; outputs that   *)
(* are lost, or come from before the router's start, are in Colocation.    *)
(***************************************************************************)
EXTENDS Policies, CostModel, SlidingWindow, SequencesExt

CONSTANTS
    N,              \* the number of replicas
    IdleTps,        \* PREBLE_IDLE_TPS
    Requests,       \* lengths of the prompt
    Chunks,         \* bounds: of how many tokens a part of a prefill can be,
    CachedAtFirst,  \* what is cached before the first request,
    MaxRequests, MaxSteps, MaxNow

(* No prompt is empty: gateway/validation.rs refuses an empty text, and a   *)
(* chat has what its template adds.  With a threshold above 500 the         *)
(* thousandths most-hit-load scores in do not tell one more waiting request.*)
ASSUME RoutingAssumption ==
    /\ N \in Nat \ {0} /\ BlockSize \in Nat \ {0}
    /\ Requests \subseteq Nat \ {0} /\ Duration \in Nat /\ IdleTps \in Nat
    /\ QueueThreshold \in 1..500 /\ PrefillBound \in Nat /\ ImbalanceCount \in Nat
    /\ MatchNum \in Nat /\ MatchDen \in Nat /\ Chunks \subseteq Nat \ {0}

VARIABLES
    policy, req, now,
    lmetric,        \* replica |-> [bs, waiting, queued, all]
    window, last_busy_at,
    cached, epoch,  \* the prefix index
    observations,   \* of the replicas that have been observed
    pc, chosen, pred_hit, next,
    waiting,        \* engine: the predicted hits of the requests it has reported nothing of
    running,        \* engine: the requests it has begun
    leaving,        \* completion loop: what its cycle has still to give back
    steps,
    admitted, log,  \* history: decisions, and the samples that count
    amiss           \* history: the counters something has happened to that they do not allow for

Replica == 0..(N - 1)
Nobody == -1
Never == -1

indexVars == <<cached, epoch>>
windowVars == <<window, last_busy_at, log>>
engineVars == <<waiting, running, leaving, amiss, steps>>
decisionVars == <<observations, pc, chosen, pred_hit, next, admitted>>
vars == <<policy, req, now, lmetric, indexVars, windowVars, engineVars, decisionVars>>

Blocks == req \div BlockSize

NoObservations == [i \in {} |-> 0]

NothingLeaves == [bs |-> 0, all |-> 0]

Init ==
    /\ policy \in PolicyNames
    /\ req \in Requests
    /\ now = 0
    /\ lmetric = [i \in Replica |-> [bs |-> 0, waiting |-> 0, queued |-> 0, all |-> 0]]
    /\ window = [i \in Replica |-> EmptyWindow]
    /\ last_busy_at = [i \in Replica |-> Never]
    /\ cached \in [Replica -> CachedAtFirst \cap 0..Blocks]
    /\ epoch = [i \in Replica |-> 0]
    /\ observations = NoObservations
    /\ pc = "idle" /\ chosen = Nobody /\ pred_hit = 0 /\ next = 0
    /\ waiting = [i \in Replica |-> <<>>]
    /\ running = [i \in Replica |-> <<>>]
    /\ leaving = [i \in Replica |-> NothingLeaves]
    /\ amiss = [i \in Replica |-> {}]
    /\ steps = 0
    /\ admitted = [i \in Replica |-> 0]
    /\ log = [i \in Replica |-> <<>>]

-------------------------------------------------------------------------------
(***************************************************************************)
(* preble/block_hash.rs: reading a window at an instant, and the samples   *)
(* that are pushed.  tps_count does not look at the window of an idle      *)
(* replica.                                                                *)
(***************************************************************************)
ReadsWindow(i) == policy \in PreblePolicies /\ (policy = "preble-tps-q" => lmetric[i].bs > 0)

WindowAt(i) == IF ReadsWindow(i) THEN Expire(window[i], now) ELSE window[i]

tps_count(i) == IF ReadsWindow(i) THEN Len(WindowAt(i).entries) ELSE Infinity

(***************************************************************************)
(* update_with_cost: 45 tokens are expected to be decoded, at 0.15 s each. *)
(* In microseconds, as preble_cost compares thousandths of seconds cut to  *)
(* integers only after the sum.                                            *)
(***************************************************************************)
request_cost(tokens) ==
    (IF tokens > 0 THEN prefill_time("A800", tokens, req) \div 1000 ELSE 0) + 45 * 150000

(***************************************************************************)
(* compensate_idle_gap: as many samples as an idle engine would have made  *)
(* steps since it was last busy, spread over that time.                    *)
(***************************************************************************)
IdleSamples(i) ==
    LET gap == now - last_busy_at[i]
        idle_dur == IF gap < Duration THEN gap ELSE Duration
        count == IdleTps * idle_dur
    IN IF last_busy_at[i] = Never THEN <<>>
       ELSE [k \in 1..count |-> now - idle_dur + k * (idle_dur \div count)]

PushAll(w, dates, item) ==
    LET pushed[k \in 0..Len(dates)] == IF k = 0 THEN w ELSE Push(pushed[k - 1], dates[k], item)
    IN pushed[Len(dates)]

Record(i, dates, item) ==
    /\ window' = [window EXCEPT ![i] = PushAll(@, dates, item)]
    /\ log' = [log EXCEPT ![i] = @ \o [k \in DOMAIN dates |-> [at |-> dates[k], item |-> item]]]

(* Of a history of samples, those that are not too old. *)
Recent(samples) ==
    LET kept[k \in 0..Len(samples)] ==
            IF k = 0 THEN <<>>
            ELSE IF TooOld(samples[k], now) THEN kept[k - 1] ELSE Append(kept[k - 1], samples[k])
    IN kept[Len(samples)]

-------------------------------------------------------------------------------
Start ==
    /\ pc = "idle" /\ FoldFunction(+, 0, admitted) < MaxRequests
    /\ pc' = "capture"
    /\ UNCHANGED <<policy, req, now, lmetric, indexVars, windowVars, engineVars,
                   observations, chosen, pred_hit, next, admitted>>

Observation(i) ==
    [idx |-> i, bs |-> lmetric[i].bs, waiting |-> lmetric[i].waiting,
     queued |-> lmetric[i].queued, all |-> lmetric[i].all, hit |-> cached[i], epoch |-> epoch[i],
     load |-> Len(WindowAt(i).entries), cost |-> WindowAt(i).agg \div 1000,
     bs_sum |-> WindowAt(i).agg, tps |-> tps_count(i)]

(***************************************************************************)
(* capture_observations: all of an observation under one lock.             *)
(***************************************************************************)
Capture(i) ==
    /\ pc = "capture" /\ i \notin DOMAIN observations
    /\ observations' = [j \in DOMAIN observations \cup {i} |->
                            IF j = i THEN Observation(i) ELSE observations[j]]
    /\ window' = [window EXCEPT ![i] = WindowAt(i)]
    /\ log' = [log EXCEPT ![i] = IF ReadsWindow(i) THEN Recent(@) ELSE @]
    /\ UNCHANGED <<policy, req, now, lmetric, indexVars, last_busy_at, engineVars,
                   pc, chosen, pred_hit, next, admitted>>

(***************************************************************************)
(* mutant: the observed hits serve whatever has happened since.            *)
(***************************************************************************)
HitsObserved(o) == o.hit

(***************************************************************************)
(* The hits that count are those under the lock the decision is applied    *)
(* with; the observed ones serve while the epoch is the same.              *)
(***************************************************************************)
HitsAtApply(o) == IF o.epoch = epoch[o.idx] THEN o.hit ELSE cached[o.idx]

(***************************************************************************)
(* The body of the policy, and apply_default_after.                        *)
(***************************************************************************)
Decide ==
    /\ pc = "capture" /\ DOMAIN observations = Replica
    /\ \E c \in MayChoose(policy, Range(observations), req, next) \cap Replica :
          LET hits == HitsAtApply(observations[c])
          IN /\ chosen' = c
             /\ pred_hit' = hits
             /\ lmetric' = [lmetric EXCEPT ![c] =
                   [bs |-> @.bs + 1, waiting |-> @.waiting + 1,
                    queued |-> @.queued + Monus(req, hits * BlockSize), all |-> @.all + req]]
             /\ admitted' = [admitted EXCEPT ![c] = @ + 1]
    /\ pc' = "extra"
    /\ UNCHANGED <<policy, req, now, indexVars, windowVars, engineVars, observations, next>>

(***************************************************************************)
(* mutant: an engine that was busy is credited with idle time too.         *)
(***************************************************************************)
CompensatesAlways(o) == TRUE

(* preble_tps_compensate_idle credits an engine that was seen idle. *)
Compensates(o) == o.bs = 0

(***************************************************************************)
(* mutant: an admission leaves no sample, only the engine's steps do.      *)
(***************************************************************************)
AfterExtraSilent(c) == UNCHANGED <<window, log>>

(***************************************************************************)
(* The policy's after_extra (preble_update_after, preble_bs_update_after,  *)
(* preble_tps_compensate_idle).                                            *)
(***************************************************************************)
AfterExtra(c) ==
    CASE policy = "preble-q" ->
            Record(c, <<now>>, request_cost(Monus(req, observations[c].hit * BlockSize)))
      [] policy = "preble-bs-q" -> Record(c, <<now>>, lmetric[c].bs)
      [] policy = "preble-tps-q" /\ Compensates(observations[c]) -> Record(c, IdleSamples(c), 1)
      [] OTHER -> UNCHANGED <<window, log>>

Finish ==
    /\ pc = "extra"
    /\ AfterExtra(chosen)
    /\ next' = IF policy = "round-robin-q" THEN (next + 1) % N ELSE next
    /\ waiting' = [waiting EXCEPT ![chosen] = Append(@, pred_hit)]
    /\ pc' = "idle" /\ chosen' = Nobody /\ pred_hit' = 0 /\ observations' = NoObservations
    /\ UNCHANGED <<policy, req, now, lmetric, indexVars, last_busy_at,
                   running, leaving, amiss, steps, admitted>>

-------------------------------------------------------------------------------
(***************************************************************************)
(* A request the engine has begun: the hits the scheduler predicted and    *)
(* those the engine found, the tokens it has generated, and those of the   *)
(* prefill under way it has not computed.                                  *)
(***************************************************************************)
Depths == CachedAtFirst \cap 0..Blocks

Hits == {d \in Depths : d = 0 \/ d * BlockSize < req}

Begun(pred, real) == [pred |-> pred, real |-> real, gen |-> 0, left |-> req - real * BlockSize]

(***************************************************************************)
(* What a step may say of a request: an output for n tokens of its prefill *)
(* that leaves it unfinished, the output that finishes it, in its prefill  *)
(* or after, or its abort or failure, the request having left the engine.  *)
(***************************************************************************)
Reports(r) ==
    {[of |-> r, what |-> "output", n |-> n] : n \in {c \in Chunks \cup {r.left} : 0 < c /\ c <= r.left}}
    \cup {[of |-> r, what |-> "finished", n |-> r.left], [of |-> r, what |-> "dropped", n |-> 0]}

Nothing == [of |-> Begun(0, 0), what |-> "nothing", n |-> 0]

FirstReports(i) ==
    IF waiting[i] = <<>> THEN {}
    ELSE UNION {Reports(Begun(Head(waiting[i]), real)) : real \in Hits}

(* A request that is preempted is to be computed from its first token again.*)
LaterReports(r) ==
    Reports(r) \cup
    {[of |-> [r EXCEPT !.real = real, !.left = req + r.gen - real * BlockSize],
      what |-> "preempted", n |-> 0] : real \in Hits}

IsPrefill(e) == e.what \in {"output", "finished"} /\ e.of.left > 0

After(e) ==
    CASE e.what = "output" -> <<[e.of EXCEPT !.left = @ - e.n, !.gen = IF e.n = e.of.left THEN @ + 1 ELSE @]>>
      [] e.what = "preempted" -> <<e.of>>
      [] OTHER -> <<>>

(***************************************************************************)
(* mutant: what the prediction was wrong by stays in the counter.          *)
(***************************************************************************)
QueuedDecUncorrected(e) == e.n

(***************************************************************************)
(* What leaves prefill_tokens: the tokens computed and, with every output  *)
(* of a prefill that does not finish the request, what was expected to be  *)
(* cached but was not, or the other way round.                             *)
(***************************************************************************)
QueuedDec(e) ==
    e.n + (IF IsPrefill(e) /\ e.what = "output" THEN (e.of.real - e.of.pred) * BlockSize ELSE 0)

(* The tokens of a request: all_tokens_inc leaves out those generated if    *)
(* the request is finished by a prefill.                                    *)
AllInc(e) ==
    CASE e.what = "output" -> IF e.n = e.of.left THEN 1 ELSE 0
      [] e.what = "finished" -> IF IsPrefill(e) THEN - req ELSE - (req + e.of.gen)
      [] OTHER -> 0

One(condition) == IF condition THEN 1 ELSE 0

Instead(s, k, t) == SubSeq(s, 1, k - 1) \o t \o SubSeq(s, k + 1, Len(s))

Dropped(e) == IF e.what = "dropped" THEN [bs |-> 1, all |-> req + e.of.gen] ELSE NothingLeaves

(***************************************************************************)
(* The counters that no longer tell what is waiting: prefill_tokens when a *)
(* prefill is reported in parts or finishes a request that was predicted   *)
(* wrong, both when the prefill of a request is reported once more or the  *)
(* request is dropped before it is.                                        *)
(***************************************************************************)
FirstAmiss(e) ==
    CASE e.what = "output" /\ e.n < e.of.left -> {"queued"}
      [] e.what = "finished" /\ e.of.real # e.of.pred -> {"queued"}
      [] e.what = "dropped" -> {"waiting", "queued"}
      [] OTHER -> {}

LaterAmiss(e) == IF IsPrefill(e) THEN {"waiting", "queued"} ELSE {}

(***************************************************************************)
(* A step of a replica's engine, as the completion loop applies it under   *)
(* the lock (engine/colocation.rs 456-700): a says something of the first  *)
(* request it had not begun, b of the k-th it had, or they are Nothing.    *)
(* The counters go down, bs and waiting_reqs in a release build not below  *)
(* zero; the index changes (removal counts an epoch even if nothing is     *)
(* removed) and the Preble window gets the batch that ran.                 *)
(***************************************************************************)
Step(i, a, b, k, depth) ==
    /\ steps < MaxSteps
    /\ leaving[i].bs = 0
    /\ lmetric' = [lmetric EXCEPT ![i] =
          [bs |-> Monus(@.bs, One(a.what = "finished") + One(b.what = "finished")),
           waiting |-> Monus(@.waiting, One(IsPrefill(a)) + One(IsPrefill(b))),
           queued |-> @.queued - (QueuedDec(a) + QueuedDec(b)), all |-> @.all + AllInc(a) + AllInc(b)]]
    /\ waiting' = [waiting EXCEPT ![i] = IF a.what = "nothing" THEN @ ELSE Tail(@)]
    /\ running' = [running EXCEPT ![i] = Instead(@, k, After(b)) \o After(a)]
    /\ leaving' = [leaving EXCEPT ![i] = [bs |-> Dropped(a).bs + Dropped(b).bs,
                                          all |-> Dropped(a).all + Dropped(b).all]]
    /\ amiss' = [amiss EXCEPT ![i] = @ \cup FirstAmiss(a) \cup LaterAmiss(b)]
    /\ cached' = [cached EXCEPT ![i] = depth]
    /\ epoch' = [epoch EXCEPT ![i] = IF depth > cached[i] THEN @ + 2 ELSE @ + 1]
    /\ CASE policy = "preble-bs-q" ->
               Record(i, <<now>>, lmetric[i].bs) /\ UNCHANGED last_busy_at
         [] policy = "preble-tps-q" ->
               Record(i, <<now>>, 1) /\ last_busy_at' = [last_busy_at EXCEPT ![i] = now]
         [] OTHER -> UNCHANGED <<window, log, last_busy_at>>
    /\ steps' = steps + 1
    /\ UNCHANGED <<policy, req, now, decisionVars>>

(***************************************************************************)
(* At the end of its cycle the completion loop takes the lock again for    *)
(* the requests that were aborted or have failed (colocation.rs 815-840):  *)
(* their places and tokens, not what they added to the waiting ones.       *)
(***************************************************************************)
Drop(i) ==
    /\ leaving[i].bs # 0
    /\ lmetric' = [lmetric EXCEPT ![i].bs = Monus(@, leaving[i].bs), ![i].all = Monus(@, leaving[i].all)]
    /\ leaving' = [leaving EXCEPT ![i] = NothingLeaves]
    /\ UNCHANGED <<policy, req, now, indexVars, windowVars, waiting, running, amiss, steps, decisionVars>>

Tick ==
    /\ policy \in PreblePolicies /\ now < MaxNow
    /\ now' = now + 1
    /\ UNCHANGED <<policy, req, lmetric, indexVars, windowVars, engineVars, decisionVars>>

(* The k-th request begun and what is said of it; beyond them is none.      *)
StepOf(i, depth) ==
    \E a \in FirstReports(i) \cup {Nothing}, k \in 1..(Len(running[i]) + 1) :
    \E b \in IF k <= Len(running[i]) THEN LaterReports(running[i][k]) ELSE {Nothing} :
        Step(i, a, b, k, depth)

Next ==
    \/ Start \/ Decide \/ Finish \/ Tick
    \/ \E i \in Replica : Capture(i) \/ Drop(i)
    \/ \E i \in Replica, depth \in Depths : StepOf(i, depth)

Spec == Init /\ [][Next]_vars

-------------------------------------------------------------------------------
(***************************************************************************)
(* A decision is applied with the hits of the index as it is then, however *)
(* stale the observation (dsl_runtime.rs:69, "the soundness condition for  *)
(* the epoch-skip optimization in apply_default_after").                   *)
(***************************************************************************)
AppliesCurrentHits == [][Decide => pred_hit' = cached[chosen']]_vars

(***************************************************************************)
(* The batch size of a replica counts the requests given to it and not     *)
(* given back, those of an unfinished cycle included.  Its waiting         *)
(* requests and tokens are those of the requests the engine has reported   *)
(* nothing of, what a decision adds being what the prefill takes away,     *)
(* whatever was cached by then, until one of the things happens that       *)
(* amiss records: nothing else makes them drift.                           *)
(***************************************************************************)
Underway(i) == IF chosen = i THEN Append(waiting[i], pred_hit) ELSE waiting[i]

ToCompute(hits) == [k \in DOMAIN hits |-> Monus(req, hits[k] * BlockSize)]

TokensWaiting(i) == lmetric[i].queued = SumFunction(ToCompute(Underway(i)))

WaitingTokensAccounted ==
    \A i \in Replica :
       /\ lmetric[i].bs = Len(running[i]) + Len(Underway(i)) + leaving[i].bs
       /\ "waiting" \notin amiss[i] => lmetric[i].waiting = Len(Underway(i))
       /\ "queued" \notin amiss[i] => TokensWaiting(i)

(***************************************************************************)
(* What state.rs 113 says of the waiting tokens, "Token sum of all waiting *)
(* (to prefill) request": a replica whose requests have all left has none. *)
(* A request finished in its prefill (colocation.rs 479-500) takes away    *)
(* what was computed, not what had been added.                             *)
(***************************************************************************)
IdleHasNoTokens == \A i \in Replica : lmetric[i].bs = 0 => lmetric[i].queued = 0

(***************************************************************************)
(* A window holds exactly the samples that were not too old when it was    *)
(* last read, wherever they are in it, and their sum: samples are never    *)
(* out of order, although those of an idle time are pushed when it is over *)
(* (sliding_window.rs 67-71).                                              *)
(***************************************************************************)
Items(samples) == [k \in DOMAIN samples |-> samples[k].item]

WindowExact ==
    policy \in PreblePolicies => \A i \in Replica :
       /\ window[i].entries = log[i]
       /\ window[i].agg = SumFunction(Items(window[i].entries))

(***************************************************************************)
(* A burst that is over before an engine has made a step, and within the   *)
(* window, is spread evenly over replicas that have the same blocks cached *)
(* (the test of preble/mod.rs 254-361, and why preble-tps-q has Design 3); *)
(* a policy that goes by the tokens to compute needs that there are any,   *)
(* one that goes by blocks that a prompt or a thousandth tells, and        *)
(* most-hit-load-q sees no difference beyond its threshold.                *)
(* bounded-most-hit-q does not spread, but loads no replica far beyond its *)
(* bound while another has less (simple.rs 56-58).                         *)
(***************************************************************************)
ByTokens == {"least-wait-token-q", "lmetric-q", "dynamo-po-q"}

Spreads(p) ==
    /\ p \notin {"random-q", "bailian-impl-q", "most-hit-q", "bounded-most-hit-q"}
    /\ p \in ByTokens => \A i \in Replica : cached[i] * BlockSize < req
    /\ p = "dynamo-po-q" => BlockSize <= 1000
    /\ p = "dynamo-q" => BlockSize <= req
    /\ p = "most-hit-load-q" => \A i \in Replica : lmetric[i].waiting <= QueueThreshold

Burst == steps = 0 /\ now <= Duration /\ \A i, j \in Replica : cached[i] = cached[j]

BurstSpread ==
    Burst => \A i, j \in Replica :
       /\ Spreads(policy) => admitted[i] <= admitted[j] + 1
       /\ policy = "bounded-most-hit-q" => \/ lmetric[i].queued < PrefillBound + req
                                           \/ lmetric[i].queued <= lmetric[j].queued + req

================================================================================

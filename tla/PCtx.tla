----------------------------------- MODULE PCtx -----------------------------------
(***************************************************************************)
(* The latency simulator beside the least-ttft-q policy                    *)
(* (router/src/scheduler/simulator/pctx.rs, policies/least_ttft.rs).  The  *)
(* scheduler's task asks each replica's PCtx in turn for the time to first *)
(* token of a candidate, takes the least, and admits the candidate there;  *)
(* each replica's completion loop brings that replica's PCtx up to date    *)
(* with every step output.  The three layers of a PCtx are under locks of  *)
(* their own, so what the two do interleaves between lock and lock: one    *)
(* action is what is done under one lock, or under two held together.      *)
(*                                                                         *)
(* The engines are the environment.  An engine may refuse a request it is  *)
(* given.  A step decodes every request that can and prefills some, in any *)
(* order and by chunks of any size within the budget; it may preempt,      *)
(* abort and evict.  Every step's output arrives, once and in order.       *)
(***************************************************************************)
EXTENDS Rollout, IncrementalMirror

CONSTANTS
    NumReplicas,
    MaxDecode,    \* bound: steps each request decodes for
    MaxPrefills,  \* bound: requests prefilled in one step
    CutsAtBudget, \* bound: whether a prompt is cut only where a step's budget ends
    Preemptible,  \* bound: requests that may be preempted, once
    Abortable,    \* bound: requests that may be aborted
    Refusable     \* bound: requests that may be refused

ASSUME PCtxAssumption ==
    NumReplicas \in Nat \ {0} /\ \A r \in Req : MaxDecode[r] \in Nat

Replicas == 1..NumReplicas

VARIABLES
    sched, mirror, ephemeral,   \* of each replica's PCtx
    policy,     \* where the scheduler's task is, and its local variables
    replicaOf,  \* the replica a request was assigned to, or 0
    cached,     \* the hashes ScheduleContext.block_hash of a replica holds
    stage,      \* what the completion loop of a replica does next
    step,       \* the step output it has in hand, or NoOutput
    engine      \* of each engine: see NewEngine

routerVars == <<sched, mirror, ephemeral, policy, replicaOf>>
vars == <<routerVars, cached, stage, step, engine>>

NoOutput == [outputs |-> <<>>, prefill_tokens |-> 0, preempted |-> <<>>, aborted |-> <<>>, evicted |-> {}]

(* An engine's queues and the progress of its requests; those it once      *)
(* preempted; those it refused; and, for the properties only, those whose  *)
(* last prefill was in a step that prefilled others.                       *)
NewEngine == [waiting |-> {}, running |-> {}, done |-> [r \in Req |-> 0], decoded |-> [r \in Req |-> 0],
              preempted |-> {}, refused |-> {}, shared |-> {}]

Idle == [pc |-> "idle", at |-> 0, cand |-> NoCandidate, hits |-> 0, kept |-> <<>>, rollout |-> <<>>,
         ttft |-> [i \in Replicas |-> NoStep]]

Init ==
    /\ sched = [i \in Replicas |-> EmptySched]
    /\ mirror = [i \in Replicas |-> EmptyMirror]
    /\ ephemeral = [i \in Replicas |-> <<>>]
    /\ policy = Idle
    /\ replicaOf = [r \in Req |-> 0]
    /\ cached = [i \in Replicas |-> {}]
    /\ stage = [i \in Replicas |-> "receive"]
    /\ step = [i \in Replicas |-> NoOutput]
    /\ engine = [i \in Replicas |-> NewEngine]

-----------------------------------------------------------------------------
(* schedule: query each replica, choose, and on_admit.                     *)

PrefixHits(known, hashes) ==
    Cardinality({n \in 1..Len(hashes) : \A k \in 1..n : hashes[k] \in known})

(* The next request reaches the head of the queue.                         *)
Schedule(r) ==
    /\ policy.pc = "idle"
    /\ r = Cardinality({q \in Req : replicaOf[q] # 0}) + 1
    /\ policy' = [Idle EXCEPT !.pc = "query", !.at = 1, !.cand = r]
    /\ UNCHANGED <<sched, mirror, ephemeral, replicaOf, cached, stage, step, engine>>

(* What is left of the cached rollout without its candidate: all of it if  *)
(* it has none, up to the savepoint if there is one, or nothing.           *)
Recovered(i) ==
    IF ephemeral[i] = <<>> THEN <<>>
    ELSE LET e == ephemeral[i][1] IN
         IF e.cand = NoCandidate THEN <<[buffer |-> e.buffer, tail |-> e.tail]>>
         ELSE IF e.savepoint = <<>> THEN <<>>
         ELSE LET s == e.savepoint[1] IN
              <<[buffer |-> [EmptyBuffer EXCEPT !.slots = SubSeq(e.buffer.slots, 1, s.idx)],
                 tail |-> s.tail]>>

(* query, to the point where the cached rollout has been taken away.       *)
QueryTake ==
    /\ policy.pc = "query"
    /\ LET i == policy.at
           hashes == Hashes[policy.cand]
           known == PrefixHits(cached[i], hashes)
           mirrored == PrefixMatch(mirror[i], hashes)
       IN /\ policy' = [policy EXCEPT !.pc = "simulate", !.kept = Recovered(i),
                                      !.hits = IF known > mirrored THEN known ELSE mirrored]
          /\ ephemeral' = [ephemeral EXCEPT ![i] = <<>>]
    /\ UNCHANGED <<sched, mirror, replicaOf, cached, stage, step, engine>>

(* query: the simulation, from the cached baseline or a clone of sched.    *)
QuerySimulate ==
    /\ policy.pc = "simulate"
    /\ LET c == policy.cand
           out == IF policy.kept = <<>> THEN FromScratch(sched[policy.at], c, policy.hits)
                  ELSE ExtendWithCandidate(policy.kept[1].buffer, policy.kept[1].tail, c, policy.hits)
       IN policy' = [policy EXCEPT !.pc = "store", !.kept = <<>>, !.rollout = <<out>>]
    /\ UNCHANGED <<sched, mirror, ephemeral, replicaOf, cached, stage, step, engine>>

(* query: the rollout is cached, its gist goes to the policy, and the      *)
(* policy turns to the next replica.                                       *)
QueryStore ==
    /\ policy.pc = "store"
    /\ LET i == policy.at
           out == policy.rollout[1]
       IN /\ ephemeral' = [ephemeral EXCEPT ![i] =
                <<[cand |-> policy.cand, buffer |-> out.buffer, tail |-> out.tail,
                   savepoint |-> out.savepoint]>>]
          /\ policy' = [policy EXCEPT !.rollout = <<>>, !.hits = 0,
                                      !.ttft[i] = TtftOf(out.buffer),
                                      !.pc = IF i = NumReplicas THEN "choose" ELSE "query",
                                      !.at = IF i = NumReplicas THEN 0 ELSE i + 1]
    /\ UNCHANGED <<sched, mirror, replicaOf, cached, stage, step, engine>>

(* The first of the replicas with the least answer; the first of all if    *)
(* none has one.                                                           *)
LeastTtft(ttft) ==
    LET answered == {i \in Replicas : ttft[i] # NoStep}
        least == {i \in answered : \A j \in answered : ttft[i] < ttft[j] \/ (ttft[i] = ttft[j] /\ i <= j)}
    IN IF answered = {} THEN 1 ELSE CHOOSE i \in least : TRUE

Choose ==
    /\ policy.pc = "choose"
    /\ LET i == LeastTtft(policy.ttft)
       IN /\ policy' = [policy EXCEPT !.pc = "sched", !.at = i]
          /\ replicaOf' = [replicaOf EXCEPT ![policy.cand] = i]
    /\ UNCHANGED <<sched, mirror, ephemeral, cached, stage, step, engine>>

AdmitSched ==
    /\ policy.pc = "sched"
    /\ sched' = [sched EXCEPT ![policy.at] = Admit(@, policy.cand, 0)]
    /\ policy' = [policy EXCEPT !.pc = "mirror"]
    /\ UNCHANGED <<mirror, ephemeral, replicaOf, cached, stage, step, engine>>

AdmitMirror ==
    /\ policy.pc = "mirror"
    /\ mirror' = [mirror EXCEPT ![policy.at] = InsertRequest(@, policy.cand)]
    /\ policy' = [policy EXCEPT !.pc = "ephemeral"]
    /\ UNCHANGED <<sched, ephemeral, replicaOf, cached, stage, step, engine>>

(* The rollout of this candidate becomes the baseline; another is dropped. *)
Promoted(e, r) ==
    IF e.cand = r THEN <<[e EXCEPT !.cand = NoCandidate, !.savepoint = <<>>]>> ELSE <<>>

(* The end of on_admit, and the commit: the replica's work loop posts the  *)
(* request to the engine, which has it from then on unless it refuses      *)
(* (engine/colocation.rs 197).  Of a refusal the completion loop tells the *)
(* client and corrects the counters (254-284); the PCtx is not told.       *)
AdmitEphemeral ==
    /\ policy.pc = "ephemeral"
    /\ LET i == policy.at IN
       /\ ephemeral' = [ephemeral EXCEPT ![i] =
                            IF @ = <<>> THEN <<>> ELSE Promoted(@[1], policy.cand)]
       /\ \/ engine' = [engine EXCEPT ![i].waiting = @ \cup {policy.cand}]
          \/ /\ policy.cand \in Refusable
             /\ engine' = [engine EXCEPT ![i].refused = @ \cup {policy.cand}]
    /\ policy' = Idle
    /\ UNCHANGED <<sched, mirror, replicaOf, cached, stage, step>>

-----------------------------------------------------------------------------
(* An engine takes a step, and the completion loop has updated block_hash. *)

EngineHits(i, r) == Least(PrefixHits(cached[i], Hashes[r]) * BlockSize, InputLength[r] - 1)

Computed(e, r) == {Hashes[r][n] : n \in 1..Least(e.done[r] \div BlockSize, Len(Hashes[r]))}

(* The chunks of the requests a step prefills: of those under way and      *)
(* those that wait.                                                        *)
PrefillChoices(e) ==
    LET underway == {r \in e.running : e.done[r] < InputLength[r]}
    IN UNION {[P -> 1..TokenBudget] :
                P \in {Q \in SUBSET (underway \cup e.waiting) : Cardinality(Q) <= MaxPrefills}}

(* A step that prefills by chunk, preempts pre and aborts abo.             *)
StepWith(i, chunk, pre, abo) ==
    LET e == engine[i]
        P == DOMAIN chunk
        tokens == SumFunction(chunk)
        left == abo \cup pre
        D == {r \in e.running : e.done[r] >= InputLength[r]} \ left
        prev(r) == IF r \in e.waiting THEN EngineHits(i, r) ELSE e.done[r]
        done == [r \in Req |-> IF r \in left THEN 0
                               ELSE IF r \in D THEN e.done[r] + 1
                               ELSE IF r \in P THEN prev(r) + chunk[r] ELSE e.done[r]]
        decoded == [r \in Req |-> IF r \in D THEN e.decoded[r] + 1 ELSE e.decoded[r]]
        over == {r \in D \cup P : done[r] >= InputLength[r] /\ decoded[r] = MaxDecode[r]}
        together == IF Cardinality(P) > 1 THEN P ELSE {}
        rest == [waiting |-> (e.waiting \ (P \cup abo)) \cup (pre \ abo),
                 running |-> (e.running \cup P) \ (over \cup left),
                 done |-> [r \in Req |-> IF r \in over THEN 0 ELSE done[r]],
                 decoded |-> decoded,
                 preempted |-> e.preempted \cup pre,
                 refused |-> e.refused,
                 shared |-> ((e.shared \ P) \cup together) \ (over \cup left)]
        now == cached[i] \cup UNION {Computed([done |-> done], r) : r \in P}
        free == {h \in cached[i] : \A r \in rest.running : h \notin Computed(rest, r)}
        out(r, s) == [rid |-> r, state |-> s, prev |-> prev(r), finished |-> r \in over]
        order == Sorted(P) \o Sorted(D)
    IN /\ D \cup P # {}
       /\ tokens <= TokenBudget - Cardinality(D)
       /\ \A r \in P : prev(r) + chunk[r] <= InputLength[r]
       /\ CutsAtBudget => \/ tokens = TokenBudget - Cardinality(D)
                          \/ \A r \in P : prev(r) + chunk[r] = InputLength[r]
       /\ \E evicted \in {{}} \cup {{g \in now : IsPrefix(h, g)} : h \in free} :
            /\ evicted \subseteq free
            /\ cached' = [cached EXCEPT ![i] = now \ evicted]
            /\ step' = [step EXCEPT ![i] =
                  [outputs |-> [n \in 1..Len(order) |->
                                  out(order[n], IF order[n] \in P THEN "PREFILL" ELSE "DECODE")],
                   prefill_tokens |-> tokens,
                   preempted |-> Sorted(pre \ abo), aborted |-> Sorted(abo), evicted |-> evicted]]
       /\ engine' = [engine EXCEPT ![i] = rest]

EngineStep(i) ==
    /\ stage[i] = "receive"
    /\ \E chunk \in PrefillChoices(engine[i]) :
       \E pre \in SUBSET ((engine[i].running \cap Preemptible) \ (engine[i].preempted \cup DOMAIN chunk)) :
       \E abo \in SUBSET (((engine[i].running \cup engine[i].waiting) \cap Abortable) \ DOMAIN chunk) :
          StepWith(i, chunk, pre, abo)
    /\ stage' = [stage EXCEPT ![i] = "absorb"]
    /\ UNCHANGED routerVars

(* on_sse: sched and the mirror, under both their locks.                   *)
OnSseAbsorb(i) ==
    /\ stage[i] = "absorb"
    /\ sched' = [sched EXCEPT ![i] = Sync(@, step[i])]
    /\ mirror' = [mirror EXCEPT ![i] = ApplySse(@, step[i], sched'[i])]
    /\ stage' = [stage EXCEPT ![i] = "check"]
    /\ UNCHANGED <<ephemeral, policy, replicaOf, cached, step, engine>>

(* mutant: the split of the baseline stays where it was.                   *)
SavepointNotMoved(savepoint) == savepoint

(* The split of the baseline moves with the head; with no baseline left    *)
(* there is nothing to recover.                                            *)
SavepointAfterPop(savepoint) ==
    IF savepoint = <<>> \/ savepoint[1].idx <= 1 THEN <<>>
    ELSE <<[savepoint[1] EXCEPT !.idx = @ - 1]>>

(* A rollout is kept while the engine prefills and does what its head says.*)
CrossChecked(e, m) ==
    IF StepHasPrefill(m) /\ e.buffer.slots # <<>> /\ RidSetsMatch(Head(e.buffer.slots), m)
    THEN <<[e EXCEPT !.buffer = PopHead(@), !.savepoint = SavepointAfterPop(@)]>>
    ELSE <<>>

(* on_sse: the rollout is checked against the step.                        *)
OnSseCheck(i) ==
    /\ stage[i] = "check"
    /\ ephemeral' = [ephemeral EXCEPT ![i] = IF @ = <<>> THEN <<>> ELSE CrossChecked(@[1], step[i])]
    /\ stage' = [stage EXCEPT ![i] = "receive"]
    /\ step' = [step EXCEPT ![i] = NoOutput]
    /\ UNCHANGED <<sched, mirror, policy, replicaOf, cached, engine>>

Next ==
    \/ \E r \in Req : Schedule(r)
    \/ QueryTake \/ QuerySimulate \/ QueryStore \/ Choose
    \/ AdmitSched \/ AdmitMirror \/ AdmitEphemeral
    \/ \E i \in Replicas : EngineStep(i) \/ OnSseAbsorb(i) \/ OnSseCheck(i)

Spec == Init /\ [][Next]_vars

-----------------------------------------------------------------------------
AssignedTo(i) == {r \in Req : replicaOf[r] = i}

(***************************************************************************)
(* The trie of a replica and the index beside it hold the prompts of the   *)
(* requests that claim them, all of them and nothing else, and only of     *)
(* requests in flight: whatever the engine evicts, finishes, aborts and    *)
(* preempts, in one step or in several, and however admissions fall        *)
(* between them (mirror.rs, req_id_hash.rs).                               *)
(***************************************************************************)
MirrorExact ==
    \A i \in Replicas :
        LET t == mirror[i].tree
            has(h) == {r \in mirror[i].claims : h \in Range(Hashes[r])}
            through(p) == {r \in mirror[i].claims : IsPrefix(p, Hashes[r])}
        IN /\ mirror[i].claims \subseteq InFlight(sched[i])
           /\ Paths(t) = UNION {PathOf(Hashes[r]) : r \in mirror[i].claims}
           /\ \A p \in Paths(t) : t.owners[p] = through(p)
           /\ DOMAIN t.hash_owners = UNION {Range(Hashes[r]) : r \in mirror[i].claims}
           /\ \A h \in DOMAIN t.hash_owners : t.hash_owners[h] = has(h)

(* Where the snapshot may have the progress of r: where engine e has it    *)
(* and, once r has shared a step, less than a step's budget away.          *)
Close(e, r, processed) ==
    IF r \in e.shared
    THEN processed < e.done[r] + TokenBudget /\ e.done[r] < processed + TokenBudget
    ELSE processed = e.done[r]

(***************************************************************************)
(* With every output absorbed, the snapshot has the engine's requests in   *)
(* the engine's queues, with those on their way and those refused, which   *)
(* it never gets rid of.  It has the engine's progress, though it is told  *)
(* of no prefix hit; and it is exact again at the first step a request     *)
(* does not share, the split of a step's tokens being a guess made afresh  *)
(* for each step (sched.rs:131-142).                                       *)
(***************************************************************************)
ProgressExact ==
    \A i \in Replicas : stage[i] # "absorb" =>
        LET s == sched[i]
            e == engine[i]
            admitting == IF policy.pc \in {"mirror", "ephemeral"} /\ policy.at = i THEN {policy.cand} ELSE {}
        IN /\ s.running = e.running
           /\ Range(s.waiting) = e.waiting \cup admitting \cup e.refused
           /\ \A r \in InFlight(s) : Close(e, r, s.processed[r])

SlotRequests(slots) == UNION {slots[n].prefill \cup slots[n].decode : n \in DOMAIN slots}

(***************************************************************************)
(* A savepoint is what its declaration says (pctx.rs:77-89): there is one  *)
(* only beside a candidate, and what it recovers, slots and queues, is     *)
(* without the candidate, after any number of steps popped off the head.   *)
(***************************************************************************)
SavepointRecovers ==
    \A i \in Replicas : ephemeral[i] # <<>> =>
        LET e == ephemeral[i][1] IN
        e.savepoint # <<>> =>
            LET s == e.savepoint[1] IN
            /\ e.cand # NoCandidate
            /\ s.idx \in 1..Len(e.buffer.slots)
            /\ e.cand \notin SlotRequests(SubSeq(e.buffer.slots, 1, s.idx)) \cup InFlight(s.tail)

(***************************************************************************)
(* A candidate is tried on every replica and admitted on one: no rollout,  *)
(* cached or taken up again, carries a request of another replica but the  *)
(* candidate it is for (pctx.rs, query and on_admit).                      *)
(***************************************************************************)
RolloutOwnRequests ==
    \A i \in Replicas :
        /\ ephemeral[i] # <<>> =>
             LET e == ephemeral[i][1] IN
             SlotRequests(e.buffer.slots) \cup InFlight(e.tail) \subseteq AssignedTo(i) \cup {e.cand}
        /\ policy.pc = "simulate" /\ policy.at = i /\ policy.kept # <<>> =>
             SlotRequests(policy.kept[1].buffer.slots) \cup InFlight(policy.kept[1].tail)
               \subseteq AssignedTo(i)

(***************************************************************************)
(* A step with prefill never finds a rollout without slots: "L3 invariant: *)
(* ephemeral exists but has no slots" (pctx.rs, on_sse's debug_assert).    *)
(***************************************************************************)
SlotsNonEmpty ==
    \A i \in Replicas :
        stage[i] = "check" /\ StepHasPrefill(step[i]) /\ ephemeral[i] # <<>> =>
            ephemeral[i][1].buffer.slots # <<>>
====

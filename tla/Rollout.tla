--------------------------------- MODULE Rollout ---------------------------------
(***************************************************************************)
(* The rollout: the steps the engine is expected to take, simulated from a *)
(* snapshot of its queues (router/src/scheduler/simulator/rollout.rs, and  *)
(* the schedule loop of pctx.rs).  Slots are numbered from zero, as in the *)
(* code; NoStep is the None of a marker that is not set.                   *)
(***************************************************************************)
EXTENDS SchedSnapshot, FiniteSetsExt

CONSTANTS
    TokenBudget,   \* tokens of a step
    BlockSize,
    MaxSlots,      \* the code has 256
    Predict(_)     \* the regressor: the latency of a batch

NoCandidate == 0
NoStep == -1

EmptyBuffer == [slots |-> <<>>, prefill_begin |-> NoStep, prefill_end |-> NoStep, in_decode |-> NoStep]

Least(a, b) == IF a < b THEN a ELSE b

Sorted(S) == Only([k \in 1..Cardinality(Req) |-> k], S)

(* One request takes its chunk of what is left of the budget.              *)
TakeChunk(w, r) ==
    LET chunk == Least(PrefillRemaining(w.sched, r), w.budget)
    IN IF w.budget <= 0 \/ chunk = 0 THEN w
       ELSE [w EXCEPT !.sched.processed[r] = @ + chunk, !.budget = @ - chunk,
                      !.prefill = @ \cup {r}]

(* A waiting request is moved to running while there is budget, even one   *)
(* with nothing to prefill, which is then in no bucket of this slot.       *)
TakeWaiting(w, r) ==
    IF w.budget <= 0 THEN w
    ELSE TakeChunk([w EXCEPT !.sched = PromoteToRunning(@, r)], r)

TakeChunks(w, q) ==
    LET after[k \in 0..Len(q)] == IF k = 0 THEN w ELSE TakeChunk(after[k - 1], q[k])
    IN after[Len(q)]

TakeWaitings(w, q) ==
    LET after[k \in 0..Len(q)] == IF k = 0 THEN w ELSE TakeWaiting(after[k - 1], q[k])
    IN after[Len(q)]

(* The step the engine would take next: [sched, budget, prefill, decode].  *)
Work(s) ==
    LET decode == {r \in s.running : ~IsPrefilling(s, r)}
        start == [sched |-> s, budget |-> TokenBudget - Cardinality(decode),
                  prefill |-> {}, decode |-> decode]
    IN TakeWaitings(TakeChunks(start, Sorted(s.running \ decode)), s.waiting)

RoundUp(n) == ((n + BlockSize - 1) \div BlockSize) * BlockSize

Batch(w) ==
    LET prefill == TokenBudget - w.budget - Cardinality(w.decode)
    IN [num_tokens |-> prefill + Cardinality(w.decode),
        num_tokens_rounded |-> RoundUp(prefill + Cardinality(w.decode)),
        size |-> Cardinality(w.prefill) + Cardinality(w.decode)]

(* The regressor gives a latency to every batch a step can be.             *)
Batches ==
    LET tokens == 0..(TokenBudget + Cardinality(Req))
    IN [num_tokens : tokens, num_tokens_rounded : {RoundUp(n) : n \in tokens},
        size : 0..(2 * Cardinality(Req))]

ASSUME RolloutAssumption ==
    /\ TokenBudget \in Nat /\ MaxSlots \in Nat /\ BlockSize \in Nat \ {0}
    /\ \A b \in Batches : Predict(b) \in Nat

(* The markers of the candidate, once slot number at holds the work w.     *)
MarkCandidate(b, w, cand, at) ==
    LET inPrefill == cand \in w.prefill
    IN [b EXCEPT
         !.prefill_begin = IF inPrefill /\ @ = NoStep THEN at ELSE @,
         !.prefill_end = IF inPrefill /\ ~IsPrefilling(w.sched, cand) THEN at ELSE @,
         !.in_decode = IF cand \in w.decode /\ @ = NoStep THEN at ELSE @]

(* The loop over slots, up to the candidate's first decode, a slot with    *)
(* nothing in it, or the cap on the whole buffer.  At most MaxSlots rounds *)
(* do anything, so the loop is that many.  x is [buffer, sched, done].     *)
OneSlot(x, cand) ==
    LET w == Work(x.sched)
        at == Len(x.buffer.slots)
        slot == [prefill |-> w.prefill, decode |-> w.decode, lat |-> Predict(Batch(w))]
        b == [MarkCandidate(x.buffer, w, cand, at) EXCEPT !.slots = Append(@, slot)]
    IN IF x.done \/ at >= MaxSlots THEN x
       ELSE IF w.prefill \cup w.decode = {} THEN [x EXCEPT !.sched = w.sched, !.done = TRUE]
       ELSE [buffer |-> b, sched |-> w.sched, done |-> b.in_decode # NoStep]

ScheduleLoop(buffer, s, cand) ==
    LET start == [buffer |-> buffer, sched |-> s, done |-> FALSE]
        round[n \in 0..MaxSlots] == IF n = 0 THEN start ELSE OneSlot(round[n - 1], cand)
    IN round[MaxSlots]

(* The candidate joins the snapshot with the tokens it will find cached.   *)
WithCandidate(s, cand, hits) ==
    Admit(s, cand, Least(hits * BlockSize, InputLength[cand]))

Unmarked(b) == [b EXCEPT !.prefill_begin = NoStep, !.prefill_end = NoStep, !.in_decode = NoStep]

(* mutant: the savepoint is taken after the extension.                     *)
ExtendThenSave(b, baseline, cand, hits) ==
    LET x == ScheduleLoop(Unmarked(b), WithCandidate(baseline, cand, hits), cand)
    IN [buffer |-> x.buffer, tail |-> x.sched,
        savepoint |-> IF b.slots = <<>> THEN <<>>
                      ELSE <<[idx |-> Len(x.buffer.slots), tail |-> baseline]>>]

(* Both return [buffer, tail, savepoint]; an option is a sequence.         *)
FromScratch(s, cand, hits) ==
    LET x == ScheduleLoop(EmptyBuffer, WithCandidate(s, cand, hits), cand)
    IN [buffer |-> x.buffer, tail |-> x.sched, savepoint |-> <<>>]

ExtendWithCandidate(b, baseline, cand, hits) ==
    LET x == ScheduleLoop(Unmarked(b), WithCandidate(baseline, cand, hits), cand)
    IN [buffer |-> x.buffer, tail |-> x.sched,
        savepoint |-> IF b.slots = <<>> THEN <<>>
                      ELSE <<[idx |-> Len(b.slots), tail |-> baseline]>>]

(* gist: the projected time to the first token, or NoStep.                 *)
TtftOf(b) ==
    IF b.prefill_end = NoStep THEN NoStep
    ELSE SumFunction([n \in 1..Least(b.prefill_end + 1, Len(b.slots)) |-> b.slots[n].lat])

(* The head of the rollout has been taken by the engine.                   *)
PopHead(b) ==
    LET back(i) == IF i > 0 THEN i - 1 ELSE i
    IN [slots |-> Tail(b.slots), prefill_begin |-> back(b.prefill_begin),
        prefill_end |-> back(b.prefill_end), in_decode |-> back(b.in_decode)]

OutputsIn(m, state) == {o.rid : o \in {x \in Range(m.outputs) : x.state = state}}

RidSetsMatch(slot, m) ==
    slot.prefill = OutputsIn(m, "PREFILL") /\ slot.decode = OutputsIn(m, "DECODE")

StepHasPrefill(m) == m.prefill_tokens > 0 \/ OutputsIn(m, "PREFILL") # {}
====

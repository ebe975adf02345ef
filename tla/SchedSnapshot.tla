------------------------------ MODULE SchedSnapshot ------------------------------
(***************************************************************************)
(* The router's picture of one engine's queues                             *)
(* (router/src/scheduler/simulator/sched.rs) and the step output it is     *)
(* kept up to date with.  A snapshot is a record: waiting, a sequence of   *)
(* requests, running, a set of them, and processed, the tokens of each     *)
(* request that are computed (zero for a request the snapshot has not).    *)
(*                                                                         *)
(* A step output m has outputs, a sequence of [rid, state, prev, finished],*)
(* prefill_tokens, preempted and aborted, sequences of requests, and       *)
(* evicted, a set of hashes.                                               *)
(***************************************************************************)
EXTENDS Integers, Sequences, FiniteSets, SequencesExt

CONSTANTS
    Req,        \* requests, 1..n: ids grow in the order of arrival
    InputLength \* tokens of each prompt

(* No prompt is empty: validation.rs:245 refuses an empty text; what the   *)
(* template makes of a chat is taken not to be empty either.               *)
ASSUME ReqAssumption ==
    /\ IsFiniteSet(Req) /\ Req = 1..Cardinality(Req)
    /\ InputLength \in [Req -> Nat \ {0}]

EmptySched == [waiting |-> <<>>, running |-> {}, processed |-> [r \in Req |-> 0]]

InFlight(s) == Range(s.waiting) \cup s.running

IsPrefilling(s, r) == s.processed[r] < InputLength[r]

(* The elements of a sequence that are in S, in their order.               *)
Only(q, S) ==
    LET kept[k \in 0..Len(q)] ==
            IF k = 0 THEN <<>> ELSE IF q[k] \in S THEN Append(kept[k - 1], q[k]) ELSE kept[k - 1]
    IN kept[Len(q)]

PrefillRemaining(s, r) == IF IsPrefilling(s, r) THEN InputLength[r] - s.processed[r] ELSE 0

Admit(s, r, processed) ==
    [s EXCEPT !.waiting = Append(@, r), !.processed[r] = processed]

(* mutant: the progress of a preempted request is kept.                    *)
PreemptKeepsProgress(s, r) ==
    IF r \notin s.running THEN s
    ELSE [s EXCEPT !.waiting = <<r>> \o @, !.running = @ \ {r}]

PromoteToRunning(s, r) ==
    IF r \notin Range(s.waiting) THEN s
    ELSE [s EXCEPT !.waiting = Only(@, Req \ {r}), !.running = @ \cup {r}]

Preempt(s, r) ==
    IF r \notin s.running THEN s
    ELSE [waiting |-> <<r>> \o s.waiting, running |-> s.running \ {r},
          processed |-> [s.processed EXCEPT ![r] = 0]]

DropRequest(s, r) ==
    [waiting |-> Only(s.waiting, Req \ {r}), running |-> s.running \ {r},
     processed |-> [s.processed EXCEPT ![r] = 0]]

(* sync spreads the prefill tokens of a step evenly over its PREFILL       *)
(* outputs, the first ones taking the remainder.                           *)
PrefillOutputs(m, k) == {j \in 1..k : m.outputs[j].state = "PREFILL"}

ChunkOf(m, k) ==
    LET n == Cardinality(PrefillOutputs(m, Len(m.outputs)))
        more == Cardinality(PrefillOutputs(m, k)) <= m.prefill_tokens % n
    IN m.prefill_tokens \div n + (IF more THEN 1 ELSE 0)

(* The progress of a request in running after output k of the step.        *)
ProgressAfter(s, m, k) ==
    LET o == m.outputs[k]
        end == o.prev + ChunkOf(m, k)
        all == IF InputLength[o.rid] = 0 THEN 1 ELSE InputLength[o.rid]
    IN IF o.state = "PREFILL" THEN (IF end < all THEN end ELSE all)
       ELSE (IF o.rid \in s.running THEN s.processed[o.rid] ELSE InputLength[o.rid]) + 1

SyncOutput(s, m, k) ==
    LET r == m.outputs[k].rid
        t == IF r \in s.running THEN s ELSE PromoteToRunning(s, r)
        u == IF r \in t.running THEN [t EXCEPT !.processed[r] = ProgressAfter(s, m, k)] ELSE t
    IN IF m.outputs[k].finished THEN DropRequest(u, r) ELSE u

SyncOutputs(s, m) ==
    LET after[k \in 0..Len(m.outputs)] == IF k = 0 THEN s ELSE SyncOutput(after[k - 1], m, k)
    IN after[Len(m.outputs)]

PreemptAll(s, rids) ==
    LET after[k \in 0..Len(rids)] == IF k = 0 THEN s ELSE Preempt(after[k - 1], rids[k])
    IN after[Len(rids)]

DropAll(s, rids) ==
    LET after[k \in 0..Len(rids)] == IF k = 0 THEN s ELSE DropRequest(after[k - 1], rids[k])
    IN after[Len(rids)]

Sync(s, m) == DropAll(PreemptAll(SyncOutputs(s, m), m.preempted), m.aborted)
====

# A TLA+ development for blitz-router

blitz-router is a Rust router for LLM serving engines. It accepts generation
requests over HTTP, chooses an engine replica for each by a scheduling policy,
drives the replicas, and streams their tokens back. This directory holds TLA+
modules that model the router's own logic, TLC configurations that check them
on small instances, and TLAPS proofs of the main results for every instance.

All paths below are relative to `src/`; `colocation.rs`, `policy_runner.rs`,
`dsl_runtime.rs` and `state.rs` are `router/src/engine/colocation.rs`,
`router/src/scheduler/policies/policy_runner.rs`,
`router/src/scheduler/policies/dsl_runtime.rs` and
`router/src/scheduler/state.rs`; `kvcache.rs`, `infer.rs` and `simulator/` are in
`router/src/scheduler/`, `server.rs` and `validation.rs` in `router/src/gateway/`,
`block_hash.rs` and `req_id_hash.rs` in `radixtree/src/`. `PROJECT.json` maps every
definition to the lines it models.

## The system

```
client -- HTTP --> gateway --> Infer --> PolicyRunner.queue_task --+
                     ^  (FRONT)             (MIDDLE) ^   |         |
                     |                               |   | commit  |
                     |                  next_request |   v buffer  | observe / add
                     |                               work loop[i]  v
                     |                                   | POST   ScheduleContext[i]
                     |   token, End, Error               v         ^  (LMetric, block_hash)
                     +---------------- completion loop[i] <- engine| subtract
                                                 (BACK) -----------+
```

### Components

| component | state | operations | interacts by | what makes it correct |
|---|---|---|---|---|
| **Work loop** (`colocation.rs` 163-224), one per replica | a channel permit, the entry in hand | reserve, `next_request`, POST, send | asks `PolicyRunner`; POSTs under `wqe_mtx`; sends the entry to the completion loop over a bounded channel | an entry is neither lost nor duplicated; an output never overtakes its entry |
| **Completion loop** (390-876), one per replica | `entries`, `request_phases`, `cancel_req_ids`, `temp_leaving_entries`, `skipped_fault_entries` | one cycle per engine step: drain the channel, update the metrics (fast path), pass each generation (slow path), abort / fault / term / drop | engine steps, the channel, the POST errors, the clients' response channels, `ScheduleContext` | counters agree with the entries held, each client is answered once and with all of its tokens |
| **Exception context** (889-1127) | entries and `ExtStInner` states of aborted and faulted requests | `put(Abort/Fault/Exit/Term)`, `filter_drop` | called by the completion loop only | a slot is given up once, whatever the order of finish, abort ACK and fault |
| **Engine clients** (`engine/client.rs`, `vllm_http.rs`, `zmq.rs`) | an SSE stream, an error channel | `add_request` (the POST runs in a task of its own), `recv_step` | network | lost and failed calls reach the loop as errors |
| **`PolicyRunner`** (`policy_runner.rs`), one task | `uncommit_buffer`, `all_commit_req_buffers`, the policy's `gctx` | `Append`, `NextRequest` | an unbounded command channel; oneshot answers; `Policy::schedule` locks every `ScheduleContext` | lossless, first in first out, every work loop that asks is answered |
| **Policies** (`policies/*.rs`, `dsl_runtime.rs`, crate `policy-dsl`) | `gctx` (round-robin) | `capture_observations`, `select_*`, `filter_then`, `apply_default_after` | read and add to the `ScheduleContext`s | the replica chosen has the least score, and the score means what it says |
| **`LMetric` / `ScheduleContext`** (`state.rs`) | `bs`, `waiting_reqs`, `prefill_tokens`, `all_tokens`, averages | `+=` by the scheduler, `-=` by the completion loop | shared under one async mutex per replica | each counter is the quantity its comment says |
| **Prefix index** (`kvcache.rs`, crate `radixtree`) | block hashes per request; a hash table or radix tree per replica; an epoch | insert, get, remove, alias | called by policies and by the completion loop, each under the replica's `ScheduleContext` mutex | `get` returns the length of a prefix the engine really has |
| **Simulator** (`scheduler/simulator`, feature) | per replica a snapshot of the engine's queues, a trie of the prompts in flight, a regression, a cached rollout | `on_admit`, `on_sse`, `query` | hooks in `PolicyRunner` and the completion loop; one mutex per layer | the snapshot and the trie track the engine; a rollout is taken up again only where it still applies |
| **Preble** (`policies/preble`, feature) | sliding windows of load and cost | push, expire, sum | as a `block_hash` of a replica | the aggregate is that of the entries in the window |
| **Gateway, `Validation`, `Infer`** (`gateway/`, `infer.rs`) | request id counter, concurrency semaphore, tokenizer threads and their channels | validate, `generate`, `generate_stream` | `PolicyRunner::append`, the response channel | a permit per handler at work, one ending per answer, what is let in fits the model |
| statistics, CLI, chat templates, API types, benches | - | parsing, formatting, I/O | - | - |

### What is hard here

* The work loop, the completion loop, the scheduler and the engine interleave.
  The POST and the hand-over of an entry are two steps, and the engine may
  report the request between them; `wqe_mtx` is what keeps this from showing.
* A client may leave at any point, and the engine is never asked to abort: an
  aborted request goes on, finishes, or is acknowledged cycles later.
* A POST fails in a task of its own; its error may arrive after the request was
  aborted or finished, or before its entry was received.
* Four counters are updated at five places with different amounts.
* Observations are taken replica by replica and applied later; the counters, the
  prefix index and the windows they come from change in between.
* The engine shares, duplicates, evicts and hands out again blocks whose hashes
  the router computed itself, from tokens it saw come by.
* The simulator's layers are under locks of their own; admissions and step outputs
  fall between the parts of a query.
* A handler's future is dropped wherever it waits, and with it whatever it holds.
* One loop may end while the others go on (debug build), or the process aborts
  (release build, `panic = "abort"` in `Cargo.toml`).

`PROJECT.json` lists the hazards with their lines and the properties aimed at them;
those without a property say why.

## Modules

| module | what it is |
|---|---|
| `Colocation` | one replica of the engine driver: work loop, completion loop, exception context, `LMetric` |
| `Replica` | what a replica promises to scheduler and clients: the abstract specification of the driver |
| `PolicyRunner` | the scheduler over all replicas, with the policies that choose by `bs` and `waiting_reqs`, round-robin, random, and an arbitrary policy |
| `BlockHashState`, `HashTableBlockHash`, `RadixTreeBlockHash` | the block hashes of a request, and the two prefix indexes |
| `PrefixCache` | both indexes and the requests' states beside an engine's block cache |
| `PolicyDsl`, `Policies` | the vocabulary of the policies, and the bodies of twenty of them |
| `SlidingWindow`, `CostModel` | Preble's windows and its prefill-time model |
| `Routing` | one decision after another by any of those policies, while the engines make steps |
| `SchedSnapshot`, `RadixTreeReqIdHash`, `IncrementalMirror`, `Rollout` | the simulator's queue snapshot, trie, overlay, and simulated steps |
| `PCtx` | the simulator of each replica beside `least-ttft-q`, lock by lock |
| `Gateway` | a request between the client and the scheduler's queue, and its answer |
| `MCColocation`, `MCPolicyRunner`, `MCPrefixCache`, `MCRouting`, `MCPCtx`, `MCGateway` | model-checking instances |
| `DataTheorems` | lemmas on induction over numbers and sets, recursive functions, the elements of a sequence, and sums |
| `ColocationProofs`, `DeliveryProofs`, `PolicyRunnerProofs`, `PrefixCacheProofs`, `RoutingProofs`, `PCtxProofs`, `GatewayProofs` | theorems |

`Colocation`, `PolicyRunner`, `PrefixCache`, `Routing`, `PCtx` and `Gateway` are
specifications with a next-state relation. Each shows the others as far as its
properties need: `Colocation` sees the scheduler as `Admit`, `PolicyRunner` sees
a replica as the actions of `Replica`, `Routing` merges the two to follow one
decision at the grain of the locks, and `Gateway` sees a replica as what its
client can observe. The remaining modules are data and operators those use.

The operators marked "mutant" are plausible bugs of
the definition that follows. Nothing uses them; `PROJECT.json` says which
property notices which.

### Colocation

A request is its id. Token contents, block ids, latencies and averages are
left out; the number of tokens of an output is kept, as the counters depend on
it.

* **Work loop.** `wl` is its program counter. `Reserve` is `wq_tx.reserve()`,
  `NextRequest` the answer of the scheduler, `AddRequest` the POST with
  `wqe_mtx` taken, `Send` the hand-over. `ReserveClosed` and
  `NextRequestPanic` are the two ways it panics.
* **Completion loop.** `cq` is its program counter: `RecvStep` (or `LoseStep`,
  an output that `recv_step` fails on; `StreamEnded`, the `break`),
  `DrainChannel` under `wqe_mtx`, `UpdateMetrics` (the whole fast path),
  `PassGeneration(r)` (the slow path for one output), `EndCycle` (`on_frontend_abort`,
  `on_backend_fault`, `put(Term)`, `filter_drop`, the metric correction and the
  clearing of the cycle's buffers, in that order). Each panic is an action of
  its own next to the action it replaces: `ExitPanic`, `UnderflowPanic`,
  `PassPanic`, `FaultPanic`, `TermPanic`.
  The slow path runs over the outputs of a step in any order: the code runs over
  them in the order of the message, and the engine may list them in any order.
* **Panics.** `EndLoop` drops the loop's locals and its channel ends. In a
  release build it takes the process down. `panics` records which assertion fired.
* **Environment.** `Admit` is the scheduler's commit as one replica sees it.
  `EngineStep` lets the engine report any set of active requests, with or
  without acknowledging aborts. `Env` says which failures may happen: a client
  that leaves, a refused POST, a connection that breaks while the engine
  serves, lost outputs, end of stream, abort ACKs, preemption.
* **Integers.** `all_tokens` is a `usize`: additions wrap modulo `UsizeMod` in a
  release build and panic in a debug build (`AdmitPanic`); subtractions saturate
  in release and wrap-and-panic in debug.

### Replica

Its variables are `alive`, `slots`, `bs` and `client`. A request takes a slot
when assigned; slots are given up in sets, by a finish or at the end of a
cycle; `End` comes after the slot is free, `Error` while it is held, and no
client is left waiting for a slot given up without one. Nothing is promised
once the driver has failed.

`Colocation` implements it (`ImplementsReplica`) under
`slots <- Live, alive <- Running, bs <- lmetric.bs, client <- client`, where
`Live` is every place an entry can be in, less the requests that the fast path
of the current step has released and the slow path has not yet removed, and
`Running` says that neither the loop nor the scheduler nor the process has
failed. `PolicyRunner` keeps it for each replica (`ReplicasKept`) with
`slots <- Slots(i)` (commit buffer and driver), where a client is `"waiting"`
from the commit on: answers are below the scheduler's view.

### PolicyRunner

* **Commands.** `Arrive(r)` is `append`, called by `Infer`; `Ask(i)` is
  `next_request`, called by work loop `i`, which then waits. Both put a command
  in `commands`.
* **The task.** `pc` is its program counter. `Recv` takes a command. `Append`
  pushes the entry and schedules; `NextRequest` schedules while the asking
  replica's buffer is empty and an entry waits (`NextStop`), then answers.
  `Observe(i)` is one replica's part of `capture_observations`: each locks its
  own context, in any order, with the replicas' own steps in between.
  `Assign(i)` is the decision with all that follows it: the addition to
  `LMetric`, the round-robin counter, the move from `uncommit_buffer` to the
  commit buffer. `Decline` is `None`. `Reply(i)` answers.
* **Policies.** `join-shortest-weight`, `least-bs`, `least-waiting`,
  `round-robin`, `random`, and `"any"`, which stands for the runner over an
  arbitrary `P: Policy`: any replica, or none. `min_by` returns the first of
  equal scores.
* **Replicas** are seen as `Prefill` (one off `waiting_reqs`, as often as the
  engine reports it), `Release` and `ReplicaFails`, after which a replica asks for
  nothing and releases nothing, while the scheduler, which is not told, goes on
  assigning to it. In a debug build this lasts; in a release build it is the time
  from the end of the completion loop to the work loop's next `reserve`, which
  aborts the process. Subtraction saturates as in a release build. A debug build
  that would go below zero panics instead with the wrapped value left in the
  counter (`UnderflowPanic` of `Colocation`); what a score computes from such a
  value is not followed here.

### The prefix index

* **`BlockHashState`** is a record with the fields of the struct. A hash is the
  tokens it covers, so hashes do not collide; chaining a block onto the hash of
  those before it is concatenation. The `usize` with its highest bit set that
  stands for "no prediction" is `NONE_SENTINEL`. Each assertion is a predicate
  (`SetPredPanics`, `SetRealPanics`, `GetOntoPanics`).
* **`HashTableBlockHash`** has the two maps as variables, and insert, remove and get.
* **`RadixTreeBlockHash`** is the Patricia tree over allocated nodes: runs of hashes
  with a set of blocks each, children in a `Vec` until there are more than
  `SmallMax`, insertion with its split at a partial match and its freeing of empty
  children on the way, aliases for a block committed twice, removal from the end of
  a node's run. A use of a freed node is an application outside a function's
  domain, which TLC reports. Walks along and below a node are recursive functions.
* **`PrefixCache`** joins them with what calls them: `Schedule` (the prediction),
  `ProcessStep` and `InsertNew` (the part of the completion loop's critical
  section that evicts, appends tokens, sets block ids and inserts what a request
  has committed), against an engine with a cache of blocks: it shares a cached
  prefix or computes it again in blocks of its own, takes back blocks nobody holds,
  keeps a prefix-closed cache, preempts and restarts. `Reports` says which blocks
  a step reports as committed: those of this step, or all of the request so far.

### Policies and Routing

* **`PolicyDsl`** has the observation, the scores, reducers and combinators of
  `dsl_runtime.rs`: a combinator gives the set of replicas that may be chosen, which
  is the first or the last of equals, or any in a weighted choice. Quotients are
  compared by cross-multiplication and scores on a scale, never as floats.
* **`Policies`** gives each policy's body in that vocabulary. `CostModel` is in
  nanoseconds with each coefficient rounded; `SlidingWindow` keeps entries and
  their sum.
* **`Routing`**: `Start`, `Capture(i)` (one observation, under that replica's lock,
  which also expires its window), `Decide` (the policy's body and
  `apply_default_after` under the chosen replica's lock, with the observed hits if
  the epoch is still the same and fresh ones otherwise), `Finish` (the policy's
  after-hook, which takes the lock once more), and `Step`, an engine's step as
  the completion loop applies it, anywhere in between, with `Drop`, the end of its
  cycle. All requests have one prompt, so an index is how many of its blocks are cached.
  Of a request it has begun or begins, a step reports (`Reports`, `LaterReports`) a
  chunk of its prefill or all of it, a decoded token, the finish in the prefill or after
  it, a preemption, or its abort or failure; `QueuedDec` and `AllInc` are what each of
  these takes from the counters. `amiss` is a history of the things the counters of what
  is waiting do not allow for.

### Simulator

* **`SchedSnapshot`** is the picture of an engine's queues: `Admit`, `Preempt`,
  `DropRequest`, and `Sync`, which replays a step output, guessing how the step's
  prefill tokens divide among its outputs.
* **`RadixTreeReqIdHash`** names a node by its path, so a trie is a function on a
  prefix-closed set of paths; **`IncrementalMirror`** owns one, with the requests
  that claim it, and arbitrates evictions with those in flight.
* **`Rollout`** simulates engine steps from a snapshot, up to the candidate's first
  decode, and pops its head when the engine has taken that step.
* **`PCtx`** is the policy's task (query each replica in three parts, choose, admit
  in three parts) and each replica's completion loop (`OnSseAbsorb`, `OnSseCheck`),
  one action per critical section. `EngineStep` is the environment: a step prefills
  by chunks of any size, several prompts at once or none; and an engine may refuse what it
  is given (`AdmitEphemeral`), of which a `PCtx` is never told.

### Gateway

`pc` is where a handler is. `Acquire` or `Overloaded` is `try_acquire_owned`;
`RefuseParameters`, `AskTokenizer`, `Forward` (the round-robin task), `Tokenize` (a
tokenizer thread), `RefuseInput` and `TakeId` are validation; `AppendEntry` hands
the request to the scheduler; `ReadPrefill`, `ReadToken`, `ReadEnd`, `ReadErr` and
`Incomplete` are the two ways of reading the response channel, for a stream and for
one answer. `Disconnect` drops the handler's future where it waits. `Prefill`,
`Generate`, `Finish` and `Fail` are what `Colocation` lets a client see.

## What the runs check

Distinct states are those of TLC, after symmetry reduction where it is used.

| run | instance | states | properties |
|---|---|---|---|
| `colocation_safety` | 3 requests, channel of 2, 2 tokens, 2 steps in flight; clients leave, aborts are acknowledged | 249,878 | type; `bs`, `all_tokens`, `waiting_reqs` exact; loop boundary; outputs visible; tokens delivered; slots released only when done |
| `colocation_faults` | 2 requests, chunked prefill; all failures but preemption; release build | 2,438,685 | an entry in one place; waiting clients owned; no silent close |
| `colocation_debug` | the same with debug assertions and preemption, no lost outputs | 422,925 | the refinement of `Replica` |
| `colocation_liveness` | 2 requests, channel of 1; clients leave | 4,764 | a waiting client is answered; the batch size drains |
| `scheduler` | 3 requests, 2 replicas of which one may fail, 5 policies | 328,536 | type; a request in one place; `bs` exact; no backlog; round-robin balanced; first in first out; commits to the least; each replica keeps `Replica`; every ask is answered; every request is served or with a failed replica |
| `index` | 3 requests (two share a block), 4 blocks of 2 tokens, 2 requests a step, one preemptible, both kinds of report | 246,060 | no assertion fails; the table's halves agree; both indexes exact; the tree's answers; hashes aligned with the engine's tokens |
| `routing` | 2 replicas, 3 requests of 48 tokens, 2 engine steps, clock to 4, each of 20 policies | 3,183,331 | batch exact, waiting tokens accounted for; windows exact; a burst is spread; decisions use current hits |
| `simulator` | 2 replicas, 4 requests, budget 3, blocks of 2, 2 prefills a step; one request preemptible, one abortable, one refusable | 777,285 | trie exact; progress exact; savepoints recover; rollouts of own requests |
| `gateway` | 3 clients, 2 permits, 2 tokenizer threads, limits 2 and 3, 5 kinds of request | 586,620 | admission exact; one ending; every client answered |
| `waiting_drift` | as `routing` | violation | `IdleHasNoTokens` |
| `rollout_slots` | as `simulator`, 1 replica | violation | `SlotsNonEmpty` |
| `answer_text` | as `gateway`, 2 clients | violation | `AnswerHasText` |

The deeper properties, and what would break them:

* `BatchSizeExact`: `bs` is what policies route by. A request that finishes in
  the same step in which its client leaves, one that finishes and is
  acknowledged, or one that faults and finishes, is a candidate for being
  subtracted twice or never; a release build saturates and hides it.
* `AllTokensExact`: the amount subtracted differs for a finish in the prefill
  (the prompt), in decode (the last token not counted), and at the end of a
  cycle. It is checked where a PREFILL output carries a token, that is without
  chunked prefill, and without lost outputs or faults.
* `OutputVisible`: the postcondition the code states after the drain. It rests
  on `wqe_mtx` covering POST and send; without the lock TLC finds the output
  that overtakes its entry.
* `ReleasedOnlyWhenDone`: a slot is not handed out again while the engine still
  works on the request that had it. It rests on the two phases of the abort.
* `DeliveredAll`: a client that saw `End` has every token, also of a finish in
  the same output.
* `CommitsToLeast`: observations are stale when applied, but only downwards
  moves can have happened since, because only the scheduler's task adds. So the
  chosen replica has, when the request is committed, at most the weight any
  replica had when observed. `ObservedNotBelow` is the invariant behind it.
* `NoBacklog`: `Append` schedules the front of the queue and not the entry just
  pushed, so a policy that declined once would leave a request behind for good.
  The contract in `policy_trait.rs` lets a policy decline only when every replica is
  disqualified, and none of the policies modelled by name does. Then the queue
  is empty between commands and the scheduling loop of `NextRequest` is never
  entered. The policy `"any"` exercises that loop.
* `FifoAdmission`: across `Append`, `NextRequest` and any number of declined
  decisions, requests leave the queue in the order of arrival: of two that wait,
  in the command channel or the queue, the one behind neither overtakes the other
  nor is committed while it waits.
* `RoundRobinBalanced`: counted over everything ever assigned.
* `IndexExact`, `HashesAligned`: after each step each index has exactly the blocks the
  engine has cached, under the hash of the tokens the engine has in them. What the
  router knows it worked out itself, from the prompt, the tokens that came by and
  block ids, across duplicates of a block, evictions, preemption and restart; a
  block that ends with the prompt's last tokens and the first generated ones
  is where the two counts can slip.
* `TreeAnswers`: the tree never predicts more than is cached. That it predicts *all*
  of it holds only for an engine that reports whole prefixes: of a suffix the two
  indexes answer differently by design (`kvcache.rs:656-665`).
* `AppliesCurrentHits`: an unchanged epoch proves the observed hits current, because
  every insertion and every removal counts one, removals that remove nothing included.
* `WaitingTokensAccounted`: `bs` is the requests a replica has been given and not given
  back, whichever way each leaves. What a decision adds to `waiting_reqs` and
  `prefill_tokens` is taken away with the first report of a whole prefill, though prediction and truth
  differ in either direction. The code does not allow for four things, and the property
  says that only these make a counter drift: a prefill reported in parts or a second time, each
  report of which takes away a request and (but for the last) corrects the tokens once more; a
  request dropped before it is reported, which gives back neither; and, for the tokens, a
  finish in the prefill of a request predicted wrong (`waiting_drift`). `amiss` records them.
* `WindowExact`: expiry looks at the front only, which is right while dates are in
  order; the samples of an idle time are pushed after it, dated back. The window
  is compared with a history from which the old samples go wherever they are.
* `BurstSpread`: what the tests of `preble/mod.rs` want of the Preble policies, asked
  of every policy that promises it: requests that arrive faster than any engine
  reports must not pile up on the replica that was best when the burst began. What
  such a policy needs is in `Spreads`: one that multiplies or goes by the tokens to
  compute sees no difference between replicas that have the whole prompt cached;
  `dynamo-q` counts whole blocks, so a prompt must fill one; `dynamo-po-q` cuts its logit to
  thousandths, so a block may have 1000 tokens at most; and `most-hit-load-q` looks at no
  more than `LOAD_AWARE_QUEUE_T` waiting requests: past 128 a burst goes to one replica.
* `MirrorExact`: the trie is updated by hash when requests end and by subtree when
  blocks are evicted; a request that ends in a step that also evicts its blocks must
  leave nothing behind, in the trie or in the index beside it.
* `ProgressExact`: the snapshot is told of neither prefix hits nor chunk sizes. Its queues
  are the engine's all the same, plus the requests an engine refused: they wait in
  it for ever, as only `on_sse` takes anything off. Its progress is right for a request that
  had its last prefill step to itself; of a step shared by several prompts it makes
  an even split (`sched.rs:131-142`), and the property bounds what that is wrong by: less
  than one step's budget (`Close`), however many steps are shared, since each output
  states the progress before it. TLC reaches states where the split is wrong.
* `SavepointRecovers`, `RolloutOwnRequests`: every candidate is tried on every replica
  and admitted to one; the others must return to what they cached before.
* `Admission`: permits are neither lost nor returned twice on any of the ways a handler
  ends; what gets past validation fits the model, which takes `main`'s check of
  the limits, the default of `max_new_tokens` and both comparisons together;
  ids are distinct.
* `OneEnding`: on both ways of reading the channel, with the tokens of a stream right
  after its role, in order and without a gap, and that the `remove(0)` and the
  `unwrap` of the plain answer (`infer.rs:206`, `:249`) cannot panic, since what is
  let in generates at least one token.

### Bounds

`MaxTokens`, `MaxChunks` and `MaxSse` bound the engine: two tokens give a
prefill and a decode output, which are the cases the code distinguishes (the
first token, a later one, the last one); two chunks give a prefill that is
reported twice; two steps in flight let a step be produced while one is being
processed. `ChannelCap` 1 or 2 with 2 or 3 requests makes the channel full,
which the code's 64 reaches in the same way. `InputLen` 2 differs from every
number of generated tokens, so that a missing prompt shows in `all_tokens`.
`UsizeMod` 16 exceeds what the instances reach, as 2^64 does in practice; the
proofs hold for every value. Two or three requests suffice for the loops, which
treat requests independently but for the counters and the order within a step:
one to leave, one to finish, and one on its way. For the scheduler two replicas give a
choice and three requests a full turn of round-robin and the start of the next. Only
one replica may fail, so that the other must be seen to be unaffected.

**Index.** `BlockSize` 2 with prompts of 4 and 5 tokens gives a prompt of whole blocks
and one that ends within a block; the third request shares nothing. Four
blocks are fewer than the requests need together, so the engine evicts. `SmallMax` 1
makes two children turn a `Vec` into a `HashMap`. At most `MaxBatch` 2 requests
are in a step; `MaxGen` lets one request complete a block while decoding. The
code's `MinChunk` of 16 is 2, as `BlockSize`.

**Routing.** Three requests are one more than the replicas; a prompt of 48 tokens is three
blocks, of which none or two are cached, so that predictions go wrong both ways. `Chunks`
of 16 make a prefill of two or three parts. A step reports on one request begun
before and on one not begun: of several, the effects on the counters add up. `Duration` 2
with `MaxNow` 4 makes samples expire. `QueueThreshold` 2, `ImbalanceCount` 1
and `PrefillBound` 60 are thresholds of three policies (128, 8 and 2048 in the code), small enough
for three requests to cross them; the match ratio is the code's default, 1/2. `MaxSteps` 2 is one step between each two parts of a decision, or two in one place.
The CONSTRAINT `Explored` saves repetition: engine steps are followed in full under
`random-q`, which may choose any replica and so has the decisions of each policy without
a window, and under `preble-tps-q`, whose idle samples need two steps; the other two
with a window have one step, and what is left is explored up to the first step, which is as
far as `BurstSpread` looks. The proofs have no such restriction.

**Simulator.** `TokenBudget` 3 splits a prompt of 4 in two chunks and lets a decode
take part of a step. Two of the prompts are equal, one shares their first block,
one nothing. `MaxSlots` 8 is more than a rollout of these needs; the code has 256.
`MaxPrefills` 2 lets prompts share a step. With `CutsAtBudget` a prompt is cut only
where the budget of a step ends, which leaves out chunks smaller than need be. Only the
third request may be refused. The proofs hold for any values of these.

**Gateway.** The five kinds in `MCGateway` have one request for each outcome of
validation; limits 2 and 3 are the least that leave room for prompt and answer. Clients
are interchangeable, so kinds are chosen up to order; at most `MaxQueued` 2 of
the three get past validation. Two permits for three clients make the third
overloaded; two tokenizer threads let a later request overtake.

`Symmetry` permutes requests in safety runs; it is not used in runs with
temporal properties under fairness, nor where `Orphans` singles one out.
`CHECK_DEADLOCK FALSE` is set where a loop may really end.

### Fairness

`Colocation!FairSpec` assumes weak fairness of the work loop, of the completion
loop, and of the engine's next step. The loops are tokio tasks the runtime keeps
polling, and every wait in them is on a channel or a mutex held for a bounded
time. An engine that serves a request eventually reports another step; that is
an assumption about the engine, and without it nothing can be answered. Clients
and failures have no fairness. `PolicyRunner!FairSpec` assumes weak fairness of
the queue task, of its declining a decision (else an arbitrary policy could be
thought to choose always or never), and of each work loop asking again. Requests
need not arrive, and replicas need not prefill or release.

`ClientAnswered` is checked without failures; with refused POSTs it does not
hold, as noted below.

`Gateway!Fairness` assumes weak fairness of each handler, of the round-robin task and
of each tokenizer thread, which do nothing but this work, and of the engine's side
of each channel: an engine that goes on answering is again an assumption.
Clients arrive and leave, and engines fail, as they like. `Routing`, `PCtx` and `PrefixCache`
have safety properties only: each is a critical section's worth of a task whose
progress `PolicyRunner` and `Colocation` cover.

## Findings

Three runs end in a violation of what the code's comments, assertions or tests say.

| run | what is stated | what the code does |
|---|---|---|
| `waiting_drift` | `state.rs:113`: `prefill_tokens` is the "Token sum of all waiting (to prefill) request" | a request finished by its prefill (`colocation.rs:479-500`) takes away the tokens computed (`:461`), without the correction that unfinished ones get (`:502-522`): mispredicted, it leaves a wrong sum, also a negative one, on a replica that has no request left |
| `rollout_slots` | `pctx.rs:629`: an ephemeral rollout has slots; `:478`: an empty one should not happen | a prompt of whole blocks, all cached, on an idle replica gives a rollout without slots, which the admission promotes and the next prefill step finds |
| `answer_text` | `types.rs:34`: the answer has the output text | `End` carries `GeneratedText::default()` (`colocation.rs:378`), and the answer of a request that is not streamed uses its text, not the tokens collected |

Seen while modelling, without a run of their own. Definitions at the end of
`Colocation` state the first six; TLC refutes each under the environment named.

* `FaultTracked` (refused POSTs, clients that leave): `colocation.rs:273` calls an id
  not in `entries` a bug; an error that arrives after its request was aborted in an
  earlier cycle, has finished, or before its entry is drained, reaches that `expect`.
* `StaleSkipped` (orphans): `colocation.rs:578` says an output of an unknown request is
  skipped gracefully; a *finished* one reaches the `expect` of `put(Exit)` first.
* `RefusalAnswered` (refused POSTs): `vllm_http.rs:29` has the error channel return an
  error to the client; it is drained only after the next engine output, so a
  refused request alone on the replica waits for ever.
* `IdleWaitingZero` (refused POSTs): `state.rs:109` has `waiting_reqs` count requests
  assigned but not started; a fault before the first output is never subtracted.
* `ExceptedSilent` (clients that leave): `colocation.rs:140` has excepted requests receive
  no phase transition; the engine is not asked to stop, so they do, and a
  debug build panics.
* `ChannelOpen` (end of stream): `colocation.rs:220` has the channel never closed by its
  receiver; the completion loop breaks when the stream ends.
* In the driver: a faulted request that then finishes leaves its `Exited` state
  behind (`colocation.rs:1119`), and the phase of a request that finishes in the
  exception context is never removed (`:496`). `waiting_reqs` loses one per prefill
  *output*, so chunked prefill subtracts too much, and a chunk without tokens
  makes `generated_token_cnt` and `all_tokens` differ (`:477`, `:523`). `prefill_tokens` is
  corrected for a wrong prediction at each unfinished PREFILL output of a request (`:506-522`),
  so more than once for one reported in chunks or prefilled again, and keeps the tokens of a
  request dropped before its prefill (`:815-840`). A preempted
  request is reported PREFILL after DECODE, which the phase machine asserts against
  (`:132`). The ZMQ feature does not compile at this commit: `client.rs:478` reads a
  field its output type lacks.
* In the policies: `least_ttft` passes over a replica where the candidate is fully
  cached, as it has no time to first token there; `lmetric.rs:18` scores 0 for a fully cached prompt
  whatever the batch; `cost_model.rs:172` is negative near the end of its piece
  (361 to 383 tokens); the idle samples of `dsl_runtime.rs:277` are decided on by an
  observation and counted from a later instant; most-hit and bounded-most-hit do
  not spread a burst.
* In the simulator: a preempted request's claim leaves the trie and does not return
  (`pctx.rs:166`). A request whose POST is refused (`colocation.rs:254-284`) stays in the
  snapshot's `waiting` and keeps its claim in the mirror for ever, as no output names it;
  every later rollout prefills it. The progress of prompts that share a step is a guess until
  the next output of each (`sched.rs:28`, `:131-142`).
* In the gateway: the prompt's token count is never filled in, so usage says 0; without a tokenizer
  the `u32` sum at `validation.rs:138` wraps in a release build; a permit is returned
  when a client leaves although its request goes on, so permits bound clients and not
  requests (`infer.rs:155`).
* `docs/architecture/concurrency-model.md` calls the completion loop the only writer of
  a `ScheduleContext`, while `apply_default_after` writes it too. `BatchSizeExact`
  shows that the mutex is enough for `bs` all the same.

`spec/abort-recovery/AbortRecovery.tla` in the repository models an earlier
design of the abort path and is not what the code does; nothing here is taken
from it.

## What is proved

TLAPS proves the following for every finite `Req`, every bound, both build
profiles, every environment, every number of replicas, every choice of
policies and every regressor. The assumptions on constants only say what kind of values
they are, but for three: `Gateway!LimitsAssumption`, `MaxInput < MaxTotal`, which
`main.rs:484` checks before the router starts; `SchedSnapshot!ReqAssumption`, that no
prompt is empty, which `validation.rs:245` refuses for a text, and which is assumed of what the
template makes of a chat; and `Routing!RoutingAssumption`, the same of its
prompts, and `QueueThreshold` at most 500, where the code has 128. Four theorems have a hypothesis of their own, in the
table; the text below says what it stands for.

| module | theorem | statement |
|---|---|---|
| `ColocationProofs` | `TypeCorrect` | `Spec => []TypeOK` |
| | `OnePlacePerEntry` | `Spec => []EntryInOnePlace` |
| | `ClientsOwned`, `ClientsNeverClosed` | `Spec => []WaitingClientOwned`, `Spec => []NoSilentClose` |
| | `BatchSizeIsExact` | `Spec => []BatchSizeExact` |
| | `LoopBoundaryHolds` | `Spec => []LoopBoundary` |
| | `DriverImplementsReplica` | `Spec => ImplementsReplica` |
| `DeliveryProofs` | `OutputsVisible` | `Spec => []OutputVisible` |
| | `SlotsReleasedWhenDone` | `Spec => ReleasedOnlyWhenDone` |
| | `AllTokensDelivered` | no lost step output: `Spec => []DeliveredAll` |
| | `TokensExact` | one whole prefill per request, no overflow: `Spec => []AllTokensExact` |
| | `WaitingIsExact` | one whole prefill per request, no lost step output, no failed POST: `Spec => []WaitingExact` |
| `PolicyRunnerProofs` | `TypeCorrect` | `Spec => []TypeOK` |
| | `OnePlacePerRequest` | `Spec => []RequestInOnePlace` |
| | `BatchSizeIsExact` | `Spec => []BatchSizeMatches` |
| | `LosslessAdmission` | `Spec => []NoBacklog` |
| | `RoutesToLeast` | `Spec => CommitsToLeast` |
| | `RoundRobinIsBalanced` | `Spec => []RoundRobinBalanced` |
| | `EveryReplicaKept` | `Spec => ReplicasKept` |
| | `AdmissionIsFifo` | `Spec => FifoAdmission` |
| `PrefixCacheProofs` | `TableStaysConsistent` | `TableSpec => [](TableTypeOK /\ TableConsistent)` |
| | `HashesStayAligned` | prompts cut in whole blocks only: `Spec => []HashesAligned` |
| `RoutingProofs` | `DecisionsAreCurrent` | `Spec => AppliesCurrentHits` |
| | `WaitingCountersAccounted` | `Spec => []WaitingTokensAccounted` |
| | `WindowsExact` | `Spec => []WindowExact` |
| | `BurstsAreSpread` | `Spec => []BurstSpread` |
| `PCtxProofs` | `SimulatorRolloutOwnRequests` | `Spec => []RolloutOwnRequests` |
| | `SimulatorSavepointRecovers` | `Spec => []SavepointRecovers` |
| | `SimulatorProgressExact` | `Spec => []ProgressExact` |
| | `SimulatorMirrorExact` | `Spec => []MirrorExact` |
| `GatewayProofs` | `AdmissionHolds` | `Spec => []Admission` |
| | `OneEndingPerClient` | `Spec => []OneEnding` |

**Colocation.** The proof goes in layers, each using the earlier ones.
1. `TypeOK` is inductive.
2. `Struct` adds `EntryInOnePlace` and what it needs: `LoopControl` (the work loop
   holds an entry only between pull and send; the slow path's leftovers are
   outputs of the step, and cancelled entries are still in `entries`),
   `NewUntouched` (a request not yet committed is nowhere, so `Admit` cannot
   duplicate it) and `ExtAgree` (entries and states of the exception context
   agree, so `put` cannot find a state without an entry).
3. `ClientInv` adds `ExceptedServed` (nobody waits for an excepted, cancelled or
   leaving request) to the two client properties: dropping an entry closes a
   stream only if its client waits.
4. `BatchSizeExact` needs `Struct` alone: what is subtracted is a subset of
   `Live` (`ReleaseExact`), so saturation never happens, and the set removed is
   the set counted.
5. `PhaseInv`: a request has no state in the exception context before it is
   tracked, the tracked ones are neither untracked nor excepted, and those of
   the exception context are marked excepted. With `Struct` it gives `LoopBoundary`.
6. The refinement: each step of the loops is an `Assign`, `Leave`, `Finish`,
   `Answer`, `Except`, a `Fail` or a stutter; `Finish` and `Except` use the
   exactness of 4.

**Delivery.** These theorems relate the loop to the engine, in layers over `Struct` and
`PhaseInv`; the result is `DeliveryInv`.
1. `EngineTold`: the engine has reported nothing of a request before its POST
   (`PostedOnce`, `IdleSilent`), nothing of it is in flight behind the output that
   finishes it or the acknowledgement of its abort (`EndsLast`), and an error is on
   record for each fault the loop handles (`ErrsTrue`). `ReleasedOnlyWhenDone`
   follows, as each way of giving up a slot reads such an ending.
2. `InTime`: a request with a report still to come is in the driver, in the commit
   buffer, the work loop's hand, the channel, `entries` or the exception context
   (`Kept`); after the drain the step at hand reports nothing that is still in one of
   the first three (`Drained`), so what it reports is in one of the last two
   (`OutputVisible`). `Drained` rests on `wqe_mtx`, which is held from POST to send.
3. `TokenInv`, for `DeliveredAll`: the tokens delivered, those of the step at hand and
   those in flight add up to what the engine has generated (`Accounted`).
   `AllTokensDelivered` assumes `"lose" \notin Env`, that no step output is dropped
   between the engine and the loop, for what is dropped is gone.
4. `CountInv`, for `AllTokensExact`: a request's first report is PREFILL and its only
   one (`PrefillFirst`), each report carries one token (`OneToken`), what is counted is
   what was generated and bounded (`GenBound`), and `lmetric.all` is the *sum* over
   the requests held of the tokens each holds (`AllCounted`).
5. `StartedInv`, for `WaitingExact`: a request the loop has not started has its PREFILL
   still ahead, in the step at hand, in flight or in the engine, and a started one
   has not (`PrefillAhead`).

`TokensExact` and `WaitingIsExact` assume `MaxChunks = 1`: no chunked prefill, and no
second prefill after a preemption. The code counts an output of a chunk but no token
of it, drops what a request had generated when it finishes with a second prefill,
and takes one from `waiting_reqs` at each PREFILL output, so neither property holds
without. `TokensExact` also assumes that the tokens of all requests fit `usize` at once
(`NoWrap`). `WaitingIsExact` assumes that no output is lost and no POST fails, as a
request whose PREFILL the loop never reads is never taken from `waiting_reqs`. Drop any
one of these hypotheses but `NoWrap` and TLC finds the property violated.

**PolicyRunner.** `IInv` is inductive: `TypeOK`, `TaskControl` (an entry waits
while the task observes; with a policy that chooses there is exactly one, and
`NextRequest` has none), `AskPending` (a work loop has one command outstanding,
so commands are distinct), `ObservedNotBelow`, `RequestInOnePlace`,
`BatchSizeMatches`, and `RoundRobinRounds`, which says which replicas are one
ahead. The last is the exact form of `RoundRobinBalanced`, which is not
inductive: it does not say where the next request goes.
`EveryReplicaKept` maps each step, as one replica sees it, to an `Assign`, a release or
a stutter of `Replica`; a release is one of `Replica` because `BatchSizeMatches` rules
out saturation. `AdmissionIsFifo` is an action argument from `RequestInOnePlace`: the
queue only grows at the back and shrinks at the front, entries of the command channel
are received in order, and a request is nowhere twice, so of two that wait the
order stays.

**Hash table.** The invariant is inductive with the table's types alone, for any
sequence of insertions that keep the code's assertions and of removals.
`PrefixCache` takes such steps only, or panics (`NoPanic`), by the same operators.

**Block hashes.** `AlignedInv` says what the state of a request stands for at any
instant: its hashes, the hash of the last complete block and the tokens after it are
those of the first n tokens of the request (`Covers`), n being all tokens but the one of
the step in hand, and but the last of a finished request, which no step ever reports
(`Known`). A step in hand has one token of a request at most, and it is the request's
last (`Pending`). `NewCovers` shows `new` to establish it for a prompt, `PushCovers` that
`push_token` keeps it on either side of a block boundary, and truncating the hashes, setting
block ids and making a prediction leave it alone. The hypothesis `WholeBlocks` is that a
block is no shorter than the shortest piece `new` hashes, and that the rest of each
prompt is: with the block size the code has, which is that length, every prompt satisfies
it. With longer blocks `new` would hash an incomplete last one, and the property fails.

**Routing.** `IInv` says that an observation's epoch is at most the replica's, and
that if they are equal its hits are those of the index: an index changes only with its
epoch, which never goes back. `Decide` then takes current hits in both cases.
`WaitInv` says, of each replica, that `bs` is the number of requests begun, underway
(the one being decided on included) and leaving, and that the other two counters are those of the
requests underway unless `amiss` has them. A predicted hit is at most the blocks of the
prompt, so what is added to `prefill_tokens` is what the first report takes away: the tokens
computed, corrected by real less predicted hits; and no subtraction of `bs` saturates.
The invariant follows the sequence of requests underway, to which a decision appends and
from which a first report takes the head (`ComputeAppend`, `ComputeTail`), through every kind of
report (`StepWait`). `WindowInv` says that a window is its samples and their sum, and
that the samples are in the order of their dates, so that dropping old ones from the
front drops all old ones. The order is the hard part. Idle samples are dated from the
engine's last step, which may be earlier than the present; they follow no younger one
because a replica *seen* idle has no sample younger than that step (`SeenIdle`: with no request now
but such as the cycle is giving back, or
in the observation the next decision goes by).
`BurstInv` is about several decisions. Until an engine makes a step, the counters of a
replica are multiples of the number of requests it was given, its window has one sample
of each (`OnlyAdmitted`), less the one whose extra step is due (`Recorded`), and what was
observed for the decision under way is still so (`StillSeen`). All observations then
differ in that number only (`Alike`, `LoadsAre`), and each policy's choice
is reduced to it: the lemmas `Pick...`, one for each scoring function, show its score to rise (or
fall) with the number strictly, through the divisions that cut scores to integers, so that the replica
picked was given least (`MayChooseLeast`). A policy that picks the least keeps any two
numbers within one of each other (`Even`). `most-hit-load-active-q`, which scales to the range
over the replicas, needs that to begin with; `aibrix-q`'s filter needs that the least batch is
never above the mean (`NearIs`). Round robin needs no observation:
who has had one more is told by `next` (`Rounds`). `bounded-most-hit-q` has its own conjunct,
`Bounded`, over tokens and not requests.

**Simulator.** Three invariants, each resting on the one before.
1. `RolloutInv` is for the rollouts. A candidate is assigned to no replica until the
   policy chooses (`InOrder`), a snapshot has only requests of its replica, and a
   rollout, wherever it is, cached, taken up or just made, has those and the candidate it is
   for, with a savepoint whose slots and queues are without the candidate (`OwnOk`). What
   happens in between the locks matters here: an admission may make a request the replica's
   while a rollout is being checked against a step, and the invariant holds at each lock.
   The operators need lemmas: the schedule loop adds slots made of the requests the
   snapshot has (`WorkIs`, `ScheduleLoopGrown`), the recovery cuts the slots at the
   savepoint, and a step popped off the head moves it (`CrossCheckedIs`).
2. `ProgressInv` is for the snapshot. `ProgressExact` speaks of states with every output
   absorbed and is not inductive; `SnapshotOk` says for the others that the output in
   hand is a step from what the snapshot has (`Absorbs`) to what is due (`Due`): the engine's
   queues and progress, with those refused and the candidate admitted but not yet committed
   (`Admitted`) waiting in addition. `EngineStepIs` shows what an engine's steps may say of it
   (`Stepped`), `StepDue` that this is to be absorbed, `SyncExact` that `sync` ends in what is
   due, and `AdmitDue` that an admission falling between an engine's step and its absorption
   changes both sides alike. `sync` is told of no prefix hit; each output states the
   progress before it, so an error of the even split does not add up: it is that of one step,
   and both the true chunk and the guessed one are between nothing and the step's tokens
   (`TokensIs`, `QuotientIs`), while a prompt alone in its step has them all.
3. `MirrorInv` adds `MirrorExact` itself, which is inductive on the second: a request
   enters the mirror when its snapshot already has it (`AdmittedInFlight`). Within one
   `apply_sse` the mirror is not exact: an eviction takes the subtree of a hash away before
   its claims go. `ExactBut` says that the mirror holds what the claims say but for what is
   under a set of hashes, and `Unclaimed` that no request in flight has one of them; an
   eviction adds to the set (`EvictExact`), a removal keeps it (`RemoveExact`), and when
   all claims of requests that ended are gone, what is left has none of its hashes.

**Gateway.** `AdmissionInv` is `PermitsExact` with `IdsDistinct`, types, and
`Validated` (a handler past the tokenizer was not refused before it, and what is
numbered is within the limits). `ValidFits` is the arithmetic: within both limits, and with
`MaxInput < MaxTotal`, the default leaves at least one token to generate.
`AnswerInv` numbers the messages of a channel: with those the handler has read, the
j-th is Prefill, then the tokens in order, then one End, which is there only after
all the tokens asked for, or one error (`ChannelRight`), and what the client heard
is the part already read, with an ending exactly when the handler is done
(`HeardRight`). `OneEnding` follows, as does that neither `remove(0)` nor `unwrap` panics.

**Data.** `DataTheorems` carries what the counters need of sums over a set, a function or a
sequence, and what functions by recursion over an interval need: the fold of the community modules is unfolded once, with its recursive
function given in closed form, and the facts (adding, removing, splitting, a bound,
the tail of a sequence) follow by induction. The library's induction theorems take an
operator, which the provers cannot instantiate, so `NatSetInduction` and `SubsetInduction`
are stated with a *set* of numbers or subsets in its place, from the well-foundedness of
`<` and of strict inclusion.

Model-checked only:
* liveness, under the three fairness conditions: this and ENABLED are out of the
  prover's reach;
* `AllTokensExact` and `WaitingExact` in instances outside their theorems' hypotheses,
  as far as they hold there;
* `NoPanic`, `IndexExact` and `TreeAnswers` of `PrefixCache`: they rest on what a tree of any
  shape holds after a split or a removal, which is an induction over the tree's paths.

## Plan

Done: the driver and its refinement, the scheduler, the prefix index, the policies,
the simulator, the gateway, and the theorems above. Left, in this order:

1. A proof of `IndexExact`, with an invariant on the shape of the tree.
2. A module `Router` composing `PolicyRunner` with several replicas of `Colocation` over
   one `LMetric` each. `PolicyRunner` against `Replica`, and `Colocation` implementing
   `Replica`, is the same argument in two steps; the composition would add the
   races of the two on all three counters at once.
3. The readers of `RadixTreeBlockHash` without the replica's mutex, should a
   caller ever use them so.

## Not modelled

* `main.rs` (CLI and wiring), chat templates, API types, the statistics dump,
  `to_jsonl`: parsing and formatting, without shared state.
* The parsing and checking of the procedural macro `policy-dsl`: compile time. The
  function it emits is `Capture`, `Decide` and `Finish`.
* ZMQ framing and the wire formats of both engine clients: pure I/O. What a lost or
  failed call does to the loops is modelled.
* The simulator's regression (`predictor`, `vidur_rf`, the L2 grids): floating-point
  arithmetic. A batch's latency is a constant function of the batch.
* Latency averages (`tbt`, `tpot`, `tps`): floating point, and read by no policy. The
  running sum of a window is exact here and a float in the code.
* The spin lock of the radix tree: every caller in the router holds the replica's mutex.
* Of the gateway: a router without a tokenizer, `best_of` (no caller), metrics,
  shutdown and the static endpoints.
* `radixtree/src/verified.rs` and benches: not run by the router.

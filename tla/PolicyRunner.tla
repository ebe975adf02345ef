---------------------------- MODULE PolicyRunner ----------------------------
(***************************************************************************)
(* The scheduler: the queue task of PolicyRunner, which the gateway and    *)
(* the work loops of all replicas send commands to, the policies it asks   *)
(* for a replica, and the LMetric counters they choose by.                 *)
(*                                                                         *)
(* The task observes one replica after another, each under its own lock,   *)
(* while the replicas go on changing their counters; it chooses from what  *)
(* it has seen.  A replica is seen from here as it takes requests,         *)
(* prefills and releases them (module Colocation is the whole of it).      *)
(***************************************************************************)
EXTENDS Integers, Sequences, FiniteSets, Functions

CONSTANTS
  Req,          \* request ids
  NumReplicas,  \* replicas, numbered from 0
  Policies,     \* the policies to consider, a subset of Policy
  CanFail       \* the replicas whose loops may end

Replicas == 0 .. NumReplicas - 1

(* The policy a router is built with.  "any" is the runner over an          *)
(* arbitrary P: Policy: it may choose any replica, or none.                 *)
Policy == {"join-shortest-weight", "least-bs", "least-waiting", "round-robin", "random", "any"}

ASSUME PolicyRunnerAssumption ==
  /\ IsFiniteSet(Req) /\ NumReplicas \in Nat \ {0}
  /\ Policies \subseteq Policy /\ CanFail \subseteq Replicas

VARIABLES
  policy,    \* the policy the router is built with
  commands,  \* the command channel
  pc,        \* where queue_task stands: "recv", "observe", "reply"
  asker,     \* the replica of the NextRequest being handled: {} or a singleton
  uncommit,  \* uncommit_buffer
  buffers,   \* all_commit_req_buffers
  seen, obs, \* the replicas observed for this decision, and their Observation
  next,      \* gctx.next_replica_id of round-robin
  lmetric,   \* each replica's bs and waiting (waiting_reqs)
  asking,    \* replicas whose work loop awaits the answer of NextRequest
  serving,   \* requests each replica has taken and not released
  released,  \* requests each replica has released
  alive      \* replicas whose loops run

taskVars == <<pc, asker, uncommit, buffers, seen, obs, next>>
replicaVars == <<serving, released, alive>>
vars == <<policy, commands, taskVars, lmetric, asking, replicaVars>>

Counters == [bs : Nat, waiting : Nat]
Zero == [bs |-> 0, waiting |-> 0]
Unobserved == [i \in Replicas |-> Zero]

Command == [op : {"append"}, req : Req] \cup [op : {"next"}, replica : Replicas]
AppendCmd(r) == [op |-> "append", req |-> r]
NextCmd(i) == [op |-> "next", replica |-> i]

Sent == {r \in Req : AppendCmd(r) \in Range(commands)}
Slots(i) == Range(buffers[i]) \cup serving[i]
AssignedTo(i) == Slots(i) \cup released[i]
Fresh == Req \ (Sent \cup Range(uncommit) \cup UNION {AssignedTo(i) : i \in Replicas})

Init ==
  /\ policy \in Policies
  /\ commands = <<>>
  /\ pc = "recv" /\ asker = {} /\ uncommit = <<>> /\ buffers = [i \in Replicas |-> <<>>]
  /\ seen = {} /\ obs = Unobserved /\ next = 0
  /\ lmetric = [i \in Replicas |-> Zero]
  /\ asking = {} /\ serving = [i \in Replicas |-> {}]
  /\ released = [i \in Replicas |-> {}] /\ alive = Replicas

-----------------------------------------------------------------------------
(* The callers. *)
Arrive(r) ==
  /\ r \in Fresh
  /\ commands' = Append(commands, AppendCmd(r))
  /\ UNCHANGED <<policy, taskVars, lmetric, asking, replicaVars>>

Ask(i) ==
  /\ i \in alive \ asking
  /\ commands' = Append(commands, NextCmd(i)) /\ asking' = asking \cup {i}
  /\ UNCHANGED <<policy, taskVars, lmetric, replicaVars>>

-----------------------------------------------------------------------------
(* The queue task. *)
(* After NextRequest or an assignment for it: replica i's buffer is empty   *)
(* and an entry waits, so the loop schedules again; else it answers.        *)
NextStop(i, q, b) == IF b[i] = <<>> /\ q # <<>> THEN "observe" ELSE "reply"

EnqueueFront(q, r) == <<r>> \o q                             \* mutant: push_front
Enqueue(q, r) == Append(q, r)

(* Mutant of Recv: Append schedules only while every commit buffer is empty.*)
RecvLazy ==
  /\ pc = "recv" /\ commands # <<>>
  /\ commands' = Tail(commands)
  /\ LET c == Head(commands) IN
     \/ /\ c.op = "append"
        /\ uncommit' = Enqueue(uncommit, c.req)
        /\ pc' = IF \A i \in Replicas : buffers[i] = <<>> THEN "observe" ELSE "recv"
        /\ UNCHANGED asker
     \/ /\ c.op = "next"
        /\ asker' = {c.replica}
        /\ pc' = NextStop(c.replica, uncommit, buffers) /\ UNCHANGED uncommit
  /\ UNCHANGED <<policy, buffers, seen, obs, next, lmetric, asking, replicaVars>>

Recv ==
  /\ pc = "recv" /\ commands # <<>>
  /\ commands' = Tail(commands)
  /\ LET c == Head(commands) IN
     \/ /\ c.op = "append"
        /\ uncommit' = Enqueue(uncommit, c.req)
        /\ pc' = "observe" /\ UNCHANGED asker
     \/ /\ c.op = "next"
        /\ asker' = {c.replica}
        /\ pc' = NextStop(c.replica, uncommit, buffers) /\ UNCHANGED uncommit
  /\ UNCHANGED <<policy, buffers, seen, obs, next, lmetric, asking, replicaVars>>

(* capture_observations locks each replica's context on its own. *)
Observe(i) ==
  /\ pc = "observe" /\ i \notin seen
  /\ seen' = seen \cup {i} /\ obs' = [obs EXCEPT ![i] = lmetric[i]]
  /\ UNCHANGED <<policy, commands, pc, asker, uncommit, buffers, next, lmetric, asking,
                 replicaVars>>

Score(i) ==
  CASE policy = "join-shortest-weight" -> 4 * obs[i].waiting + obs[i].bs
    [] policy = "least-bs" -> obs[i].bs
    [] policy = "least-waiting" -> obs[i].waiting
    [] policy = "round-robin" -> IF i = next THEN 0 ELSE 1
    [] OTHER -> 0

SelectableMost ==                                               \* mutant: max_by
  IF policy \in {"random", "any"} THEN Replicas
  ELSE {i \in Replicas : \A j \in Replicas : Score(j) < Score(i) \/ (Score(i) = Score(j) /\ j <= i)}

(* min_by returns the first replica of the least score; a rand selection    *)
(* and an arbitrary policy may return any.                                  *)
Selectable ==
  IF policy \in {"random", "any"} THEN Replicas
  ELSE {i \in Replicas : \A j \in Replicas : Score(i) < Score(j) \/ (Score(i) = Score(j) /\ i <= j)}

AssignedWaiting(c) == [bs |-> c.bs, waiting |-> c.waiting + 1]  \* mutant: bs_inc left out
Assigned(c) == [bs |-> c.bs + 1, waiting |-> c.waiting + 1]
AdvanceNot(n) == n                              \* mutant: the counter is not incremented
Advance(n) == (n + 1) % NumReplicas

(* The entry is pushed to the buffer of the chosen replica once             *)
(* apply_default_after has added it to the replica's counters.              *)
Assign(i) ==
  /\ pc = "observe" /\ seen = Replicas /\ i \in Selectable
  /\ lmetric' = [lmetric EXCEPT ![i] = Assigned(@)]
  /\ uncommit' = Tail(uncommit)
  /\ buffers' = [buffers EXCEPT ![i] = Append(@, Head(uncommit))]
  /\ next' = IF policy = "round-robin" THEN Advance(next) ELSE next
  /\ \/ asker = {} /\ pc' = "recv"
     \/ \E a \in asker : pc' = NextStop(a, uncommit', buffers')
  /\ seen' = {} /\ obs' = Unobserved
  /\ UNCHANGED <<policy, commands, asker, asking, replicaVars>>

(* Mutant of Decline: no break, the policy is asked again. *)
DeclineRetry ==
  /\ pc = "observe" /\ seen = Replicas /\ policy = "any"
  /\ pc' = IF asker = {} THEN "recv" ELSE "observe"
  /\ seen' = {} /\ obs' = Unobserved
  /\ UNCHANGED <<policy, commands, asker, uncommit, buffers, next, lmetric, asking, replicaVars>>

(* P::schedule returns None. *)
Decline ==
  /\ pc = "observe" /\ seen = Replicas /\ policy = "any"
  /\ pc' = IF asker = {} THEN "recv" ELSE "reply"
  /\ seen' = {} /\ obs' = Unobserved
  /\ UNCHANGED <<policy, commands, asker, uncommit, buffers, next, lmetric, asking, replicaVars>>

(* Mutants of Reply: the front is not popped; the answer is lost. *)
ReplyPeek(i) ==
  /\ pc = "reply" /\ i \in asker
  /\ pc' = "recv" /\ asker' = {} /\ asking' = asking \ {i}
  /\ serving' = [serving EXCEPT ![i] = IF buffers[i] = <<>> THEN @ ELSE @ \cup {Head(buffers[i])}]
  /\ UNCHANGED <<policy, commands, uncommit, buffers, seen, obs, next, lmetric, released, alive>>
ReplyLost(i) ==
  /\ pc = "reply" /\ i \in asker
  /\ pc' = "recv" /\ asker' = {} /\ asking' = asking \ {i}
  /\ buffers' = [buffers EXCEPT ![i] = IF @ = <<>> THEN @ ELSE Tail(@)]
  /\ UNCHANGED <<policy, commands, uncommit, serving, seen, obs, next, lmetric, released, alive>>

(* The answer of NextRequest: the front of the replica's own buffer, or     *)
(* None.                                                                    *)
Reply(i) ==
  /\ pc = "reply" /\ i \in asker
  /\ pc' = "recv" /\ asker' = {} /\ asking' = asking \ {i}
  /\ IF buffers[i] = <<>>
     THEN UNCHANGED <<buffers, serving>>
     ELSE /\ serving' = [serving EXCEPT ![i] = @ \cup {Head(buffers[i])}]
          /\ buffers' = [buffers EXCEPT ![i] = Tail(@)]
  /\ UNCHANGED <<policy, commands, uncommit, seen, obs, next, lmetric, released, alive>>

QueueTask == Recv \/ \E i \in Replicas : Observe(i) \/ Assign(i) \/ Reply(i)

-----------------------------------------------------------------------------
(* The replicas: a prefill output of a request is taken off waiting_reqs;   *)
(* its finish, abort or fault takes it off bs, prefilled or not.  Counters  *)
(* saturate, as in a release build; Colocation has both builds.             *)
Unsaturated(n) == n                                            \* mutant: plain subtraction
Saturating(n) == IF n < 0 THEN 0 ELSE n

Prefill(i, r) ==
  /\ i \in alive /\ r \in serving[i]
  /\ lmetric' = [lmetric EXCEPT ![i] = [bs |-> @.bs, waiting |-> Saturating(@.waiting - 1)]]
  /\ UNCHANGED <<policy, commands, taskVars, asking, replicaVars>>

Release(i, r) ==
  /\ i \in alive /\ r \in serving[i]
  /\ serving' = [serving EXCEPT ![i] = @ \ {r}]
  /\ released' = [released EXCEPT ![i] = @ \cup {r}]
  /\ lmetric' = [lmetric EXCEPT ![i] = [bs |-> Saturating(@.bs - 1), waiting |-> @.waiting]]
  /\ UNCHANGED <<policy, commands, taskVars, asking, alive>>

(* A loop of the replica ends; the scheduler is not told. *)
ReplicaFails(i) ==
  /\ i \in CanFail \cap alive
  /\ alive' = alive \ {i}
  /\ UNCHANGED <<policy, commands, taskVars, lmetric, asking, serving, released>>

Next ==
  \/ \E r \in Req : Arrive(r)
  \/ QueueTask \/ Decline
  \/ \E i \in Replicas : Ask(i) \/ ReplicaFails(i) \/ \E r \in Req : Prefill(i, r) \/ Release(i, r)

Spec == Init /\ [][Next]_vars

(* The queue task and the work loops are tokio tasks the runtime keeps      *)
(* polling, and the replicas' locks are released after each use.            *)
Fairness == /\ WF_vars(QueueTask) /\ WF_vars(Decline)
            /\ \A i \in Replicas : WF_vars(Ask(i))

FairSpec == Spec /\ Fairness
-----------------------------------------------------------------------------
TypeOK ==
  /\ policy \in Policies
  /\ commands \in Seq(Command)
  /\ pc \in {"recv", "observe", "reply"} /\ asker \in SUBSET Replicas
  /\ uncommit \in Seq(Req) /\ buffers \in [Replicas -> Seq(Req)]
  /\ seen \in SUBSET Replicas /\ obs \in [Replicas -> Counters] /\ next \in Replicas
  /\ lmetric \in [Replicas -> Counters]
  /\ asking \in SUBSET Replicas
  /\ serving \in [Replicas -> SUBSET Req] /\ released \in [Replicas -> SUBSET Req]
  /\ alive \in SUBSET Replicas

(* A request is in one place: the command channel, the uncommitted queue,   *)
(* or with one replica (its commit buffer, its driver, or done).            *)
RequestInOnePlace ==
  /\ IsInjective(commands) /\ IsInjective(uncommit) /\ Sent \cap Range(uncommit) = {}
  /\ \A i \in Replicas :
       /\ IsInjective(buffers[i])
       /\ Range(buffers[i]) \cap serving[i] = {} /\ Slots(i) \cap released[i] = {}
       /\ AssignedTo(i) \cap (Sent \cup Range(uncommit)) = {}
       /\ \A j \in Replicas : i # j => AssignedTo(i) \cap AssignedTo(j) = {}

(* A replica's bs is the number of requests committed to it and not         *)
(* released, dead replicas included: what the policies choose by.           *)
BatchSizeMatches == \A i \in Replicas : lmetric[i].bs = Cardinality(Slots(i))

(* Requests are committed in the order in which they were sent, across      *)
(* Append and NextRequest and whatever the policy declines: of two requests *)
(* that wait, the one behind goes on waiting until the one ahead, and only  *)
(* that one, has been committed; whoever comes later is behind.             *)
Queued == Range(uncommit) \cup Sent
Ahead(r, s) ==
  \/ \E k, l \in DOMAIN uncommit : k < l /\ uncommit[k] = r /\ uncommit[l] = s
  \/ r \in Range(uncommit) /\ s \in Sent
  \/ \E k, l \in DOMAIN commands : k < l /\ commands[k] = AppendCmd(r) /\ commands[l] = AppendCmd(s)
StaysAhead(r, s) == s \in Queued' /\ (r \in Queued' => Ahead(r, s)')
FifoAdmission ==
  [][\A r, s \in Req : Ahead(r, s) \/ (r \in Queued /\ s \in Queued' \ Queued) => StaysAhead(r, s)]_vars

(* The lossless-admission contract (policy_trait.rs): with a policy that    *)
(* always chooses, no request waits once its command has been handled.      *)
NoBacklog == pc = "recv" /\ policy # "any" => uncommit = <<>>

(* The counters a decision rests on are stale by the time it is applied,    *)
(* but only upwards: nothing but this task adds to them.                    *)
ObservedNotBelow ==
  \A i \in seen : lmetric[i].bs <= obs[i].bs /\ lmetric[i].waiting <= obs[i].waiting

(* So the replica a request goes to has, when it is committed, no more      *)
(* weight than any replica had when it was observed.                        *)
Weight(c) == CASE policy = "join-shortest-weight" -> 4 * c.waiting + c.bs
               [] policy = "least-bs" -> c.bs
               [] policy = "least-waiting" -> c.waiting
               [] OTHER -> 0
CommitsToLeast ==
  [][\A i, j \in Replicas :
       lmetric'[i].bs > lmetric[i].bs => Weight(lmetric[i]) <= Weight(obs[j])]_vars

(* round-robin: the numbers of requests given to two replicas differ by at  *)
(* most one, whatever was released and whoever asked.                       *)
RoundRobinBalanced ==
  policy = "round-robin" => \A i, j \in Replicas :
    Cardinality(AssignedTo(i)) <= Cardinality(AssignedTo(j)) + 1

(* Seen from the scheduler each replica is what module Replica promises: a  *)
(* request takes a slot once, bs counts the slots.                          *)
Rep(i) == INSTANCE Replica WITH
  alive <- i \in alive, slots <- Slots(i), bs <- lmetric[i].bs,
  client <- [r \in Req |-> IF r \in AssignedTo(i) THEN "waiting" ELSE "new"]
ReplicasKept ==
  /\ \A i \in Replicas : Rep(i)!Init
  /\ [][\A i \in Replicas : Rep(i)!Next \/ UNCHANGED Rep(i)!vars]_vars

(* A work loop that asks is answered: the task never spins on a replica     *)
(* that gets nothing, or on a policy that declines.                         *)
AskAnswered == \A i \in Replicas : i \in asking ~> i \notin asking

(* Every request sent is handed to a replica that serves it, or waits for   *)
(* one that has failed: a failed replica holds up no other.                 *)
EntryServed ==
  policy # "any" => \A r \in Req :
    r \in Sent ~> \E i \in Replicas : r \in serving[i] \cup released[i]
                                     \/ (i \notin alive /\ r \in Slots(i))

-----------------------------------------------------------------------------
(* What makes the invariants above inductive.                               *)

(* Where the queue task stands.  A policy that always chooses leaves one    *)
(* entry to decide on, the one just appended, and none to NextRequest.      *)
TaskControl ==
  /\ pc = "observe" => uncommit # <<>>
  /\ pc # "observe" => seen = {}
  /\ pc = "recv" => asker = {}
  /\ policy # "any" => IF pc = "observe" THEN asker = {} /\ Len(uncommit) = 1 ELSE uncommit = <<>>

(* A work loop has at most one NextRequest, in the channel or being handled.*)
AskPending ==
  LET queued == {i \in Replicas : NextCmd(i) \in Range(commands)}
  IN queued \cup asker \subseteq asking /\ queued \cap asker = {}

(* round-robin has given one request more to the replicas before next.      *)
RoundRobinRounds ==
  policy = "round-robin" => \A i \in Replicas :
    Cardinality(AssignedTo(i)) = Cardinality(AssignedTo(NumReplicas - 1)) + IF i < next THEN 1 ELSE 0

IInv == /\ TypeOK /\ TaskControl /\ AskPending /\ ObservedNotBelow
        /\ RequestInOnePlace /\ BatchSizeMatches /\ RoundRobinRounds
=============================================================================

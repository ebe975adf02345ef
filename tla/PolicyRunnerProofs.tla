------------------------- MODULE PolicyRunnerProofs -------------------------
(***************************************************************************)
(* Theorems about PolicyRunner, for every number of requests and replicas, *)
(* every policy and whichever replicas fail.                               *)
(***************************************************************************)
EXTENDS PolicyRunner, DataTheorems, FiniteSetTheorems, SequenceTheorems, TLAPS

(* Every step is a step of one of the parties. *)
LEMMA NextCases ==
  ASSUME Next
  PROVE  \/ \E r \in Req : Arrive(r)
         \/ Recv \/ Decline
         \/ \E i \in Replicas : Observe(i) \/ Assign(i) \/ Reply(i) \/ Ask(i) \/ ReplicaFails(i)
         \/ \E i \in Replicas, r \in Req : Prefill(i, r) \/ Release(i, r)
BY DEF Next, QueueTask

(* Counters stay natural numbers. *)
LEMMA CounterTypes ==
  /\ Zero \in Counters /\ Unobserved \in [Replicas -> Counters]
  /\ \A c \in Counters : /\ Assigned(c) \in Counters
                         /\ Assigned(c).bs = c.bs + 1 /\ Assigned(c).waiting = c.waiting + 1
  /\ \A n \in Int : Saturating(n) \in Nat /\ (n >= 0 => Saturating(n) = n)
  /\ \A n \in Nat : Saturating(n - 1) <= n
BY DEF Zero, Unobserved, Counters, Assigned, Saturating

LEMMA AdvanceValue ==
  \A n \in Replicas : Advance(n) = IF n = NumReplicas - 1 THEN 0 ELSE n + 1
BY PolicyRunnerAssumption, SMTT(60) DEF Advance, Replicas

LEMMA CommandTypes ==
  /\ \A r \in Req : AppendCmd(r) \in Command /\ AppendCmd(r).op = "append" /\ AppendCmd(r).req = r
  /\ \A i \in Replicas : NextCmd(i) \in Command /\ NextCmd(i).op = "next" /\ NextCmd(i).replica = i
  /\ \A c \in Command : \/ c.op = "append" /\ c.req \in Req /\ c = AppendCmd(c.req)
                        \/ c.op = "next" /\ c.replica \in Replicas /\ c = NextCmd(c.replica)
BY DEF AppendCmd, NextCmd, Command

-----------------------------------------------------------------------------
(* Type correctness. *)
LEMMA InitType == Init => TypeOK
<1> SUFFICES ASSUME Init PROVE TypeOK
  OBVIOUS
<1>1. next \in Replicas
  BY PolicyRunnerAssumption DEF Init, Replicas
<1>2. lmetric \in [Replicas -> Counters] /\ obs \in [Replicas -> Counters]
  BY CounterTypes DEF Init
<1> QED BY <1>1, <1>2 DEF Init, TypeOK

LEMMA TypeStep == TypeOK /\ TaskControl /\ [Next]_vars => TypeOK'
<1> SUFFICES ASSUME TypeOK, TaskControl, Next PROVE TypeOK'
  BY DEF vars, taskVars, replicaVars, TypeOK
<1> USE DEF TypeOK
<1>1. CASE \E r \in Req : Arrive(r)
  <2>1. commands' \in Seq(Command)
    BY <1>1, CommandTypes, AppendProperties DEF Arrive
  <2> QED BY <1>1, <2>1 DEF Arrive, taskVars, replicaVars
<1>2. CASE Recv
  <2>1. commands \in Seq(Command) /\ commands # <<>>
    BY <1>2 DEF Recv
  <2>2. commands' \in Seq(Command) /\ Head(commands) \in Command
    BY <1>2, <2>1, RangeTail DEF Recv
  <2>3. CASE Head(commands).op = "append"
    <3>1. Head(commands).req \in Req
      BY <2>2, <2>3, CommandTypes
    <3>2. uncommit' = Append(uncommit, Head(commands).req) /\ pc' = "observe" /\ asker' = asker
      BY <1>2, <2>3 DEF Recv, Enqueue
    <3>3. uncommit' \in Seq(Req)
      BY <3>1, <3>2, AppendProperties
    <3> QED BY <1>2, <2>2, <3>2, <3>3 DEF Recv, replicaVars
  <2>4. CASE Head(commands).op = "next"
    <3>1. Head(commands).replica \in Replicas
      BY <2>2, <2>4, CommandTypes
    <3> QED BY <1>2, <2>2, <2>4, <3>1 DEF Recv, NextStop, replicaVars
  <2> QED BY <2>2, <2>3, <2>4, CommandTypes
<1>3. CASE Decline
  BY <1>3, CounterTypes DEF Decline, replicaVars
<1>4. ASSUME NEW i \in Replicas, Observe(i) \/ Ask(i) \/ ReplicaFails(i) PROVE TypeOK'
  <2>1. CASE Observe(i)
    BY <2>1 DEF Observe, replicaVars
  <2>2. CASE Ask(i)
    <3>1. commands' \in Seq(Command)
      BY <2>2, CommandTypes, AppendProperties DEF Ask
    <3> QED BY <2>2, <3>1 DEF Ask, taskVars, replicaVars
  <2>3. CASE ReplicaFails(i)
    BY <2>3 DEF ReplicaFails, taskVars
  <2> QED BY <1>4, <2>1, <2>2, <2>3
<1>5. ASSUME NEW i \in Replicas, Assign(i) PROVE TypeOK'
  <2>1. uncommit \in Seq(Req) /\ uncommit # <<>> /\ buffers[i] \in Seq(Req)
    BY <1>5 DEF Assign, TaskControl
  <2>2. Head(uncommit) \in Req /\ uncommit' \in Seq(Req)
    BY <1>5, <2>1, RangeTail DEF Assign
  <2>3. Append(buffers[i], Head(uncommit)) \in Seq(Req)
    BY <2>1, <2>2, AppendProperties
  <2>4. buffers' \in [Replicas -> Seq(Req)] /\ lmetric' \in [Replicas -> Counters]
    BY <1>5, <2>3, CounterTypes DEF Assign
  <2>5. next' \in Replicas
    <3>1. Advance(next) = IF next = NumReplicas - 1 THEN 0 ELSE next + 1
      BY AdvanceValue
    <3>2. next \in 0 .. NumReplicas - 1 /\ NumReplicas \in Nat \ {0}
      BY PolicyRunnerAssumption DEF Replicas
    <3>3. Advance(next) \in Replicas
      BY <3>1, <3>2 DEF Replicas
    <3> QED BY <1>5, <3>3 DEF Assign
  <2>6. obs' \in [Replicas -> Counters] /\ seen' \in SUBSET Replicas
    BY <1>5, CounterTypes DEF Assign
  <2>7. pc' \in {"recv", "observe", "reply"}
    BY <1>5 DEF Assign, NextStop
  <2> QED BY <1>5, <2>2, <2>4, <2>5, <2>6, <2>7 DEF Assign, replicaVars
<1>6. ASSUME NEW i \in Replicas, Reply(i) PROVE TypeOK'
  <2>1. buffers[i] \in Seq(Req)
    OBVIOUS
  <2>2. CASE buffers[i] = <<>>
    BY <1>6, <2>2 DEF Reply
  <2>3. CASE buffers[i] # <<>>
    <3>1. Head(buffers[i]) \in Req /\ Tail(buffers[i]) \in Seq(Req)
      BY <2>1, <2>3, RangeTail
    <3>2. buffers' \in [Replicas -> Seq(Req)] /\ serving' \in [Replicas -> SUBSET Req]
      <4>1. serving[i] \cup {Head(buffers[i])} \in SUBSET Req
        BY <3>1
      <4>2. buffers' = [buffers EXCEPT ![i] = Tail(buffers[i])]
        BY <1>6, <2>3 DEF Reply
      <4>3. serving' = [serving EXCEPT ![i] = serving[i] \cup {Head(buffers[i])}]
        BY <1>6, <2>3 DEF Reply
      <4> QED BY <3>1, <4>1, <4>2, <4>3
    <3> QED BY <1>6, <3>2 DEF Reply
  <2> QED BY <2>2, <2>3
<1>7. ASSUME NEW i \in Replicas, NEW r \in Req, Prefill(i, r) \/ Release(i, r) PROVE TypeOK'
  <2>1. lmetric[i].bs - 1 \in Int /\ lmetric[i].waiting - 1 \in Int
    BY SMTT(30) DEF Counters
  <2>2. Saturating(lmetric[i].bs - 1) \in Nat /\ Saturating(lmetric[i].waiting - 1) \in Nat
    BY <2>1, CounterTypes
  <2>3. lmetric' \in [Replicas -> Counters]
    <3> DEFINE c == [bs |-> lmetric[i].bs, waiting |-> Saturating(lmetric[i].waiting - 1)]
               d == [bs |-> Saturating(lmetric[i].bs - 1), waiting |-> lmetric[i].waiting]
    <3>1. c \in Counters /\ d \in Counters
      BY <2>2 DEF Counters
    <3>2. lmetric' = [lmetric EXCEPT ![i] = c] \/ lmetric' = [lmetric EXCEPT ![i] = d]
      BY <1>7 DEF Prefill, Release
    <3> HIDE DEF c, d
    <3> QED BY <3>1, <3>2
  <2>4. serving' \in [Replicas -> SUBSET Req] /\ released' \in [Replicas -> SUBSET Req]
    <3>1. CASE Prefill(i, r)
      BY <3>1 DEF Prefill, replicaVars
    <3>2. CASE Release(i, r)
      <4>1. serving[i] \ {r} \in SUBSET Req /\ released[i] \cup {r} \in SUBSET Req
        OBVIOUS
      <4> QED BY <3>2, <4>1 DEF Release
    <3> QED BY <1>7, <3>1, <3>2
  <2>5. UNCHANGED <<policy, commands, taskVars, asking, alive>>
    BY <1>7 DEF Prefill, Release, replicaVars
  <2> QED BY <2>3, <2>4, <2>5 DEF taskVars
<1> QED BY NextCases, <1>1, <1>2, <1>3, <1>4, <1>5, <1>6, <1>7

-----------------------------------------------------------------------------
(* Where the queue task stands. *)
LEMMA ControlStep == TypeOK /\ TaskControl /\ [Next]_vars => TaskControl'
<1> SUFFICES ASSUME TypeOK, TaskControl, Next PROVE TaskControl'
  BY DEF vars, taskVars, replicaVars, TaskControl
<1> DEFINE task == <<policy, pc, asker, uncommit, seen>>
<1>1. CASE Recv
  <2>1. pc = "recv" /\ asker = {} /\ seen = {} /\ seen' = {} /\ policy' = policy
    BY <1>1 DEF Recv, TaskControl, replicaVars
  <2>2. Head(commands) \in Command
    BY <1>1, RangeTail DEF Recv, TypeOK
  <2>3. CASE Head(commands).op = "append"
    <3>1. Head(commands).req \in Req /\ uncommit \in Seq(Req)
      BY <2>2, <2>3, CommandTypes DEF TypeOK
    <3>2. uncommit' = Append(uncommit, Head(commands).req) /\ pc' = "observe" /\ asker' = asker
      BY <1>1, <2>3 DEF Recv, Enqueue
    <3>3. Len(uncommit') = Len(uncommit) + 1 /\ uncommit' # <<>>
      BY <3>1, <3>2, AppendProperties
    <3>4. uncommit = <<>> => Len(uncommit') = 1
      BY <3>3, EmptySeq
    <3> QED BY <2>1, <3>2, <3>3, <3>4 DEF TaskControl
  <2>4. CASE Head(commands).op = "next"
    <3>1. /\ uncommit' = uncommit
          /\ pc' = NextStop(Head(commands).replica, uncommit, buffers)
      BY <1>1, <2>4 DEF Recv
    <3> QED BY <2>1, <3>1 DEF NextStop, TaskControl
  <2> QED BY <2>2, <2>3, <2>4, CommandTypes
<1>2. CASE Decline
  BY <1>2 DEF Decline, TaskControl, replicaVars
<1>3. ASSUME NEW i \in Replicas, Observe(i) PROVE TaskControl'
  BY <1>3 DEF Observe, TaskControl
<1>4. ASSUME NEW i \in Replicas, Assign(i) PROVE TaskControl'
  <2>1. pc = "observe" /\ uncommit \in Seq(Req) /\ uncommit # <<>>
    BY <1>4 DEF Assign, TaskControl, TypeOK
  <2>2. Len(uncommit) = 1 => Tail(uncommit) = <<>>
    <3>1. Tail(uncommit) \in Seq(Req) /\ Len(Tail(uncommit)) = Len(uncommit) - 1
      BY <2>1, HeadTailProperties
    <3> DEFINE t == Tail(uncommit)
    <3>2. t \in Seq(Req) /\ (Len(t) = 0 => t = <<>>)
      BY <3>1, EmptySeq
    <3>3. Len(uncommit) = 1 => Len(t) = 0
      BY <3>1
    <3> HIDE DEF t
    <3>4. Len(uncommit) = 1 => t = <<>>
      BY <3>2, <3>3
    <3> QED BY <3>4 DEF t
  <2>3. /\ uncommit' = Tail(uncommit) /\ seen' = {} /\ asker' = asker /\ policy' = policy
        /\ \/ asker = {} /\ pc' = "recv"
           \/ \E a \in asker : pc' = NextStop(a, uncommit', buffers')
    BY <1>4 DEF Assign, replicaVars
  <2> QED BY <2>1, <2>2, <2>3 DEF NextStop, TaskControl
<1>5. ASSUME NEW i \in Replicas, Reply(i) PROVE TaskControl'
  BY <1>5 DEF Reply, TaskControl
<1>6. CASE UNCHANGED task
  BY <1>6 DEF task, TaskControl
<1>7. \/ Recv \/ Decline \/ \E i \in Replicas : Observe(i) \/ Assign(i) \/ Reply(i)
      \/ UNCHANGED task
  <2>1. ASSUME NEW r \in Req, Arrive(r) PROVE UNCHANGED task
    BY <2>1 DEF Arrive, taskVars, task
  <2>2. ASSUME NEW i \in Replicas, Ask(i) \/ ReplicaFails(i) PROVE UNCHANGED task
    BY <2>2 DEF Ask, ReplicaFails, taskVars, task
  <2>3. ASSUME NEW i \in Replicas, NEW r \in Req, Prefill(i, r) \/ Release(i, r) PROVE UNCHANGED task
    BY <2>3 DEF Prefill, Release, taskVars, task
  <2> HIDE DEF task
  <2> QED BY NextCases, <2>1, <2>2, <2>3
<1> QED BY <1>1, <1>2, <1>3, <1>4, <1>5, <1>6, <1>7

(* What an observation is worth once the replicas have gone on. *)
LEMMA CountersStep ==
  ASSUME TypeOK, Next, NEW j \in Replicas
  PROVE  \/ Assign(j)
         \/ lmetric'[j].bs <= lmetric[j].bs /\ lmetric'[j].waiting <= lmetric[j].waiting
<1>0. lmetric[j].bs \in Nat /\ lmetric[j].waiting \in Nat /\ lmetric \in [Replicas -> Counters]
  BY DEF TypeOK, Counters
<1>1. CASE lmetric' = lmetric
  BY <1>0, <1>1
<1>2. ASSUME NEW i \in Replicas, Assign(i) PROVE i = j \/ lmetric'[j] = lmetric[j]
  BY <1>0, <1>2 DEF Assign
<1>3. ASSUME NEW i \in Replicas, NEW r \in Req, Prefill(i, r) \/ Release(i, r)
      PROVE  lmetric'[j].bs <= lmetric[j].bs /\ lmetric'[j].waiting <= lmetric[j].waiting
  <2>1. i # j => lmetric'[j] = lmetric[j]
    BY <1>0, <1>3 DEF Prefill, Release
  <2>2. i = j => \/ /\ lmetric'[j].bs = lmetric[j].bs
                    /\ lmetric'[j].waiting = Saturating(lmetric[j].waiting - 1)
                 \/ /\ lmetric'[j].bs = Saturating(lmetric[j].bs - 1)
                    /\ lmetric'[j].waiting = lmetric[j].waiting
    BY <1>0, <1>3 DEF Prefill, Release
  <2>3. Saturating(lmetric[j].bs - 1) <= lmetric[j].bs /\ Saturating(lmetric[j].waiting - 1) <= lmetric[j].waiting
    BY <1>0, CounterTypes
  <2> QED BY <1>0, <2>1, <2>2, <2>3
<1>4. \/ lmetric' = lmetric \/ \E i \in Replicas : Assign(i)
      \/ \E i \in Replicas, r \in Req : Prefill(i, r) \/ Release(i, r)
  BY NextCases DEF Arrive, Recv, Decline, Observe, Reply, Ask, ReplicaFails
<1> QED BY <1>0, <1>1, <1>2, <1>3, <1>4

LEMMA ObservedStep == TypeOK /\ TypeOK' /\ ObservedNotBelow /\ [Next]_vars => ObservedNotBelow'
<1> SUFFICES ASSUME TypeOK, TypeOK', ObservedNotBelow, Next PROVE ObservedNotBelow'
  BY DEF vars, taskVars, ObservedNotBelow
<1>1. CASE seen' = {}
  BY <1>1 DEF ObservedNotBelow
<1>2. ASSUME NEW i \in Replicas, Observe(i) PROVE ObservedNotBelow'
  <2>1. \A j \in seen' : j = i \/ (j \in seen /\ obs'[j] = obs[j])
    BY <1>2 DEF Observe, TypeOK
  <2>2. obs'[i] = lmetric[i] /\ lmetric' = lmetric
    BY <1>2 DEF Observe, TypeOK
  <2>3. lmetric[i].bs \in Nat /\ lmetric[i].waiting \in Nat
    BY DEF TypeOK, Counters
  <2> QED BY <2>1, <2>2, <2>3 DEF ObservedNotBelow
<1>3. CASE seen' = seen /\ obs' = obs /\ \A i \in Replicas : ~Assign(i)
  <2> SUFFICES ASSUME NEW j \in seen
               PROVE  lmetric'[j].bs <= obs[j].bs /\ lmetric'[j].waiting <= obs[j].waiting
    BY <1>3 DEF ObservedNotBelow
  <2>1. j \in Replicas /\ lmetric[j] \in Counters /\ obs[j] \in Counters /\ lmetric'[j] \in Counters
    BY DEF TypeOK
  <2>2. lmetric'[j].bs <= lmetric[j].bs /\ lmetric'[j].waiting <= lmetric[j].waiting
    BY <1>3, <2>1, CountersStep
  <2>3. lmetric[j].bs <= obs[j].bs /\ lmetric[j].waiting <= obs[j].waiting
    BY DEF ObservedNotBelow
  <2> QED BY <2>1, <2>2, <2>3 DEF Counters
<1>4. \/ seen' = {} \/ \E i \in Replicas : Observe(i)
      \/ seen' = seen /\ obs' = obs /\ \A i \in Replicas : ~Assign(i)
  <2>1. ASSUME NEW i \in Replicas, Assign(i) PROVE seen' = {}
    BY <2>1 DEF Assign
  <2>2. CASE \A i \in Replicas : ~Assign(i)
    BY <2>2, NextCases DEF Arrive, Recv, Decline, Reply, Ask, ReplicaFails, Prefill, Release, taskVars
  <2> QED BY <2>1, <2>2
<1> QED BY <1>1, <1>2, <1>3, <1>4

-----------------------------------------------------------------------------
(* TypeOK: every variable of the scheduler keeps its type.                  *)
THEOREM TypeCorrect == Spec => []TypeOK
<1>1. Init => TypeOK /\ TaskControl
  BY InitType DEF Init, TaskControl
<1>2. TypeOK /\ TaskControl /\ [Next]_vars => (TypeOK /\ TaskControl)'
  BY TypeStep, ControlStep
<1> QED BY <1>1, <1>2, PTL DEF Spec

(* NoBacklog: with a policy that always chooses, queue_task leaves no       *)
(* request waiting once it has handled a command.                           *)
THEOREM LosslessAdmission == Spec => []NoBacklog
<1>1. Init => TypeOK /\ TaskControl
  BY InitType DEF Init, TaskControl
<1>2. TypeOK /\ TaskControl /\ [Next]_vars => (TypeOK /\ TaskControl)'
  BY TypeStep, ControlStep
<1>3. TaskControl => NoBacklog
  BY DEF TaskControl, NoBacklog
<1> QED BY <1>1, <1>2, <1>3, PTL DEF Spec

(* CommitsToLeast: the replica a request is committed to weighs no more     *)
(* then than any replica did when it was observed.                          *)
LEMMA AssignToLeast ==
  ASSUME TypeOK, ObservedNotBelow, NEW i \in Replicas, NEW j \in Replicas, Assign(i)
  PROVE  Weight(lmetric[i]) <= Weight(obs[j])
<1>1. /\ lmetric[i].bs \in Nat /\ lmetric[i].waiting \in Nat
      /\ obs[i].bs \in Nat /\ obs[i].waiting \in Nat /\ obs[j].bs \in Nat /\ obs[j].waiting \in Nat
  BY DEF TypeOK, Counters
<1>2. lmetric[i].bs <= obs[i].bs /\ lmetric[i].waiting <= obs[i].waiting /\ i \in Selectable
  BY DEF Assign, ObservedNotBelow
<1>3. CASE policy \in {"join-shortest-weight", "least-bs", "least-waiting"}
  <2>1. Score(i) < Score(j) \/ Score(i) = Score(j)
    BY <1>2, <1>3 DEF Selectable
  <2>2. CASE policy = "join-shortest-weight"
    BY <1>1, <1>2, <2>1, <2>2 DEF Score, Weight
  <2>3. CASE policy = "least-bs"
    BY <1>1, <1>2, <2>1, <2>3 DEF Score, Weight
  <2>4. CASE policy = "least-waiting"
    BY <1>1, <1>2, <2>1, <2>4 DEF Score, Weight
  <2> QED BY <1>3, <2>2, <2>3, <2>4
<1>4. CASE policy \notin {"join-shortest-weight", "least-bs", "least-waiting"}
  BY <1>4 DEF Weight
<1> QED BY <1>3, <1>4

THEOREM RoutesToLeast == Spec => CommitsToLeast
<1> DEFINE Inv == TypeOK /\ TaskControl /\ ObservedNotBelow
<1>1. Init => Inv
  BY InitType DEF Init, TaskControl, ObservedNotBelow
<1>2. Inv /\ [Next]_vars => Inv'
  BY TypeStep, ControlStep, ObservedStep
<1>3. Inv /\ [Next]_vars =>
        [\A i, j \in Replicas : lmetric'[i].bs > lmetric[i].bs => Weight(lmetric[i]) <= Weight(obs[j])]_vars
  <2> SUFFICES ASSUME Inv, Inv', Next, NEW i \in Replicas, NEW j \in Replicas, lmetric'[i].bs > lmetric[i].bs
               PROVE  Weight(lmetric[i]) <= Weight(obs[j])
    BY <1>2
  <2>1. lmetric[i].bs \in Nat /\ lmetric'[i].bs \in Nat
    BY DEF TypeOK, Counters
  <2>2. Assign(i)
    BY <2>1, CountersStep
  <2> QED BY <2>2, AssignToLeast
<1> QED BY <1>1, <1>2, <1>3, PTL DEF Spec, CommitsToLeast

-----------------------------------------------------------------------------
(* A request is in one place. *)
queues == <<commands, uncommit, buffers, serving, released>>

LEMMA PlaceUnchanged ==
  RequestInOnePlace /\ UNCHANGED queues => RequestInOnePlace' /\ \A i : Slots(i)' = Slots(i) /\ AssignedTo(i)' = AssignedTo(i)
BY DEF queues, RequestInOnePlace, Sent, Slots, AssignedTo

(* Sending a command adds it, and nothing else, to the channel. *)
LEMMA SendStep ==
  ASSUME TypeOK, NEW c \in Command, commands' = Append(commands, c)
  PROVE  /\ Range(commands') = Range(commands) \cup {c}
         /\ IsInjective(commands) /\ c \notin Range(commands) => IsInjective(commands')
         /\ c.op = "append" => Sent' = Sent \cup {c.req}
         /\ c.op = "next" => Sent' = Sent
<1>1. commands \in Seq(Command)
  BY DEF TypeOK
<1>2. Range(commands') = Range(commands) \cup {c}
  BY <1>1, RangeAppend
<1>3. IsInjective(commands) /\ c \notin Range(commands) => IsInjective(commands')
  BY <1>1, RangeAppend
<1>4. c.op = "append" => Sent' = Sent \cup {c.req}
  BY <1>2, CommandTypes DEF Sent
<1>5. c.op = "next" => Sent' = Sent
  BY <1>2, CommandTypes DEF Sent
<1> QED BY <1>2, <1>3, <1>4, <1>5

(* Handling a command takes it off the channel. *)
LEMMA RecvStep ==
  ASSUME TypeOK, RequestInOnePlace, Recv
  PROVE  LET c == Head(commands) IN
         /\ c \in Command /\ c \in Range(commands) /\ c \notin Range(commands')
         /\ Range(commands) = Range(commands') \cup {c} /\ IsInjective(commands')
         /\ c.op = "append" => c.req \in Sent /\ Sent' = Sent \ {c.req}
         /\ c.op = "next" => Sent' = Sent
<1> DEFINE c == Head(commands)
<1>1. commands \in Seq(Command) /\ commands # <<>> /\ commands' = Tail(commands) /\ IsInjective(commands)
  BY DEF TypeOK, Recv, RequestInOnePlace
<1>2. /\ c \in Command /\ Range(commands) = Range(commands') \cup {c}
      /\ IsInjective(commands') /\ c \notin Range(commands')
  BY <1>1, RangeTail
<1>3. c.op = "append" => c.req \in Sent /\ Sent' = Sent \ {c.req}
  BY <1>2, CommandTypes DEF Sent
<1>4. c.op = "next" => Sent' = Sent
  BY <1>2, CommandTypes DEF Sent
<1> QED BY <1>2, <1>3, <1>4

LEMMA AskStep == TypeOK /\ RequestInOnePlace /\ TaskControl /\ AskPending /\ [Next]_vars => AskPending'
<1> SUFFICES ASSUME TypeOK, RequestInOnePlace, TaskControl, AskPending, Next PROVE AskPending'
  BY DEF vars, taskVars, AskPending
<1>1. ASSUME NEW r \in Req, Arrive(r) PROVE AskPending'
  <2>1. Range(commands') = Range(commands) \cup {AppendCmd(r)}
    BY <1>1, CommandTypes, SendStep DEF Arrive
  <2>2. \A i \in Replicas : NextCmd(i) # AppendCmd(r)
    BY <1>1, CommandTypes
  <2> QED BY <1>1, <2>1, <2>2 DEF Arrive, AskPending, taskVars
<1>2. ASSUME NEW i \in Replicas, Ask(i) PROVE AskPending'
  <2>1. Range(commands') = Range(commands) \cup {NextCmd(i)}
    BY <1>2, CommandTypes, SendStep DEF Ask
  <2>2. \A j \in Replicas : NextCmd(j) = NextCmd(i) => j = i
    BY <1>2, CommandTypes
  <2>3. i \notin asker /\ asker' = asker /\ asking' = asking \cup {i}
    BY <1>2 DEF Ask, AskPending, taskVars
  <2> QED BY <2>1, <2>2, <2>3 DEF AskPending
<1>3. CASE Recv
  <2> DEFINE c == Head(commands)
  <2>1. /\ c \in Command /\ c \in Range(commands) /\ c \notin Range(commands')
        /\ Range(commands) = Range(commands') \cup {c}
    BY <1>3, RecvStep
  <2>2. asker = {} /\ asking' = asking
    BY <1>3 DEF Recv, TaskControl
  <2>3. CASE c.op = "append"
    <3>1. asker' = asker
      BY <1>3, <2>3 DEF Recv
    <3> QED BY <2>1, <2>2, <3>1 DEF AskPending
  <2>4. CASE c.op = "next"
    <3>1. asker' = {c.replica} /\ c = NextCmd(c.replica) /\ c.replica \in Replicas
      BY <1>3, <2>1, <2>4, CommandTypes DEF Recv
    <3> HIDE DEF c
    <3> QED BY <2>1, <2>2, <3>1 DEF AskPending
  <2> QED BY <2>1, <2>3, <2>4, CommandTypes
<1>4. ASSUME NEW i \in Replicas, Reply(i) PROVE AskPending'
  BY <1>4 DEF Reply, AskPending
<1>5. CASE UNCHANGED <<commands, asker, asking>>
  BY <1>5 DEF AskPending
<1> QED
  BY NextCases, <1>1, <1>2, <1>3, <1>4, <1>5
     DEF Decline, Observe, Assign, ReplicaFails, Prefill, Release, taskVars

(* What an assignment, an answer and a release do to the requests of a      *)
(* replica: the first adds one, the others only move one.                   *)
LEMMA AssignMoves ==
  ASSUME TypeOK, TaskControl, RequestInOnePlace, NEW i \in Replicas, Assign(i)
  PROVE  LET h == Head(uncommit) IN
         /\ h \in Req /\ Sent' = Sent /\ serving' = serving /\ released' = released
         /\ Range(uncommit) = Range(uncommit') \cup {h} /\ h \notin Range(uncommit')
         /\ IsInjective(uncommit') /\ IsInjective(buffers'[i])
         /\ \A j \in Replicas \ {i} : buffers'[j] = buffers[j]
         /\ \A j \in Replicas : h \notin AssignedTo(j)
         /\ Range(buffers'[i]) = Range(buffers[i]) \cup {h}
<1> DEFINE h == Head(uncommit)
<1>1. uncommit \in Seq(Req) /\ uncommit # <<>> /\ buffers[i] \in Seq(Req) /\ IsInjective(uncommit)
  BY DEF Assign, TaskControl, TypeOK, RequestInOnePlace
<1>2. uncommit' = Tail(uncommit) /\ buffers' = [buffers EXCEPT ![i] = Append(buffers[i], h)]
  BY DEF Assign
<1>3. /\ h \in Req /\ Range(uncommit) = Range(uncommit') \cup {h}
      /\ h \notin Range(uncommit') /\ IsInjective(uncommit')
  BY <1>1, <1>2, RangeTail
<1>4. \A j \in Replicas : h \notin AssignedTo(j)
  BY <1>3 DEF RequestInOnePlace
<1>5. h \notin Range(buffers[i]) /\ IsInjective(buffers[i])
  BY <1>4 DEF AssignedTo, Slots, RequestInOnePlace
<1>6. buffers'[i] = Append(buffers[i], h) /\ \A j \in Replicas \ {i} : buffers'[j] = buffers[j]
  BY <1>2 DEF TypeOK
<1> HIDE DEF h
<1>7. Range(buffers'[i]) = Range(buffers[i]) \cup {h} /\ IsInjective(buffers'[i])
  BY <1>1, <1>3, <1>5, <1>6, RangeAppend
<1>8. Sent' = Sent /\ serving' = serving /\ released' = released
  BY DEF Assign, Sent, replicaVars
<1> QED BY <1>3, <1>4, <1>6, <1>7, <1>8 DEF h

LEMMA ReplyMoves ==
  ASSUME TypeOK, RequestInOnePlace, NEW i \in Replicas, Reply(i)
  PROVE  /\ Sent' = Sent /\ uncommit' = uncommit /\ released' = released
         /\ \A j \in Replicas : Slots(j)' = Slots(j) /\ AssignedTo(j)' = AssignedTo(j)
         /\ \A j \in Replicas : IsInjective(buffers'[j]) /\ Range(buffers'[j]) \cap serving'[j] = {}
<1>1. Sent' = Sent /\ uncommit' = uncommit /\ released' = released
  BY DEF Reply, Sent
<1>2. buffers[i] \in Seq(Req) /\ IsInjective(buffers[i]) /\ Range(buffers[i]) \cap serving[i] = {}
  BY DEF TypeOK, RequestInOnePlace
<1>3. \A j \in Replicas \ {i} : buffers'[j] = buffers[j] /\ serving'[j] = serving[j]
  BY DEF Reply, TypeOK
<1>4. /\ Range(buffers'[i]) \cup serving'[i] = Range(buffers[i]) \cup serving[i]
      /\ IsInjective(buffers'[i]) /\ Range(buffers'[i]) \cap serving'[i] = {}
  <2>1. CASE buffers[i] = <<>>
    BY <1>2, <2>1 DEF Reply
  <2>2. CASE buffers[i] # <<>>
    <3>1. buffers'[i] = Tail(buffers[i]) /\ serving'[i] = serving[i] \cup {Head(buffers[i])}
      BY <2>2 DEF Reply, TypeOK
    <3>2. /\ Range(buffers[i]) = Range(Tail(buffers[i])) \cup {Head(buffers[i])}
          /\ IsInjective(Tail(buffers[i])) /\ Head(buffers[i]) \notin Range(Tail(buffers[i]))
      BY <1>2, <2>2, RangeTail
    <3> QED BY <1>2, <3>1, <3>2
  <2> QED BY <2>1, <2>2
<1>5. \A j \in Replicas : Slots(j)' = Slots(j)
  BY <1>3, <1>4 DEF Slots
<1>6. \A j \in Replicas : AssignedTo(j)' = AssignedTo(j)
  BY <1>1, <1>5 DEF AssignedTo
<1>7. \A j \in Replicas : IsInjective(buffers'[j]) /\ Range(buffers'[j]) \cap serving'[j] = {}
  BY <1>3, <1>4 DEF RequestInOnePlace
<1> QED BY <1>1, <1>5, <1>6, <1>7

LEMMA ReleaseMoves ==
  ASSUME TypeOK, RequestInOnePlace, NEW i \in Replicas, NEW r \in Req, Release(i, r)
  PROVE  /\ Sent' = Sent /\ uncommit' = uncommit /\ buffers' = buffers
         /\ r \in Slots(i) /\ Slots(i)' = Slots(i) \ {r}
         /\ \A j \in Replicas \ {i} : Slots(j)' = Slots(j) /\ serving'[j] = serving[j] /\ released'[j] = released[j]
         /\ serving'[i] = serving[i] \ {r} /\ released'[i] = released[i] \cup {r}
         /\ \A j \in Replicas : AssignedTo(j)' = AssignedTo(j)
<1>1. Sent' = Sent /\ uncommit' = uncommit /\ buffers' = buffers
  BY DEF Release, Sent, taskVars
<1>2. /\ serving'[i] = serving[i] \ {r} /\ released'[i] = released[i] \cup {r} /\ r \in serving[i]
      /\ \A j \in Replicas \ {i} : serving'[j] = serving[j] /\ released'[j] = released[j]
  BY DEF Release, TypeOK
<1>3. r \notin Range(buffers[i])
  BY <1>2 DEF RequestInOnePlace
<1>4. Slots(i)' = Slots(i) \ {r} /\ r \in Slots(i) /\ \A j \in Replicas \ {i} : Slots(j)' = Slots(j)
  BY <1>1, <1>2, <1>3 DEF Slots
<1>5. \A j \in Replicas : AssignedTo(j)' = AssignedTo(j)
  BY <1>2, <1>4 DEF AssignedTo
<1> QED BY <1>1, <1>2, <1>4, <1>5

LEMMA PlaceStep ==
  TypeOK /\ TaskControl /\ AskPending /\ RequestInOnePlace /\ [Next]_vars => RequestInOnePlace'
<1> SUFFICES ASSUME TypeOK, TaskControl, AskPending, RequestInOnePlace, Next PROVE RequestInOnePlace'
  BY PlaceUnchanged DEF vars, taskVars, replicaVars, queues
<1>1. ASSUME NEW r \in Req, Arrive(r) PROVE RequestInOnePlace'
  <2>1. AppendCmd(r) \notin Range(commands) /\ r \notin Range(uncommit)
    BY <1>1 DEF Arrive, Fresh, Sent
  <2>2. \A i \in Replicas : r \notin AssignedTo(i)
    BY <1>1 DEF Arrive, Fresh
  <2>3. Sent' = Sent \cup {r} /\ IsInjective(commands')
    <3>1. AppendCmd(r) \in Command /\ AppendCmd(r).op = "append" /\ AppendCmd(r).req = r
      BY CommandTypes
    <3>2. IsInjective(commands) /\ commands' = Append(commands, AppendCmd(r))
      BY <1>1 DEF Arrive, RequestInOnePlace
    <3> QED BY <2>1, <3>1, <3>2, SendStep
  <2>4. UNCHANGED <<uncommit, buffers, serving, released>>
    BY <1>1 DEF Arrive, taskVars, replicaVars
  <2>5. \A i \in Replicas : Slots(i)' = Slots(i) /\ AssignedTo(i)' = AssignedTo(i)
    BY <2>4 DEF Slots, AssignedTo
  <2> QED BY <2>1, <2>2, <2>3, <2>4, <2>5 DEF RequestInOnePlace
<1>2. ASSUME NEW i \in Replicas, Ask(i) PROVE RequestInOnePlace'
  <2>1. NextCmd(i) \notin Range(commands)
    BY <1>2 DEF Ask, AskPending
  <2>2. Sent' = Sent /\ IsInjective(commands')
    <3>1. NextCmd(i) \in Command /\ NextCmd(i).op = "next"
      BY CommandTypes
    <3>2. IsInjective(commands) /\ commands' = Append(commands, NextCmd(i))
      BY <1>2 DEF Ask, RequestInOnePlace
    <3> QED BY <2>1, <3>1, <3>2, SendStep
  <2>3. UNCHANGED <<uncommit, buffers, serving, released>>
    BY <1>2 DEF Ask, taskVars, replicaVars
  <2>4. \A j \in Replicas : Slots(j)' = Slots(j) /\ AssignedTo(j)' = AssignedTo(j)
    BY <2>3 DEF Slots, AssignedTo
  <2> QED BY <2>2, <2>3, <2>4 DEF RequestInOnePlace
<1>3. CASE Recv
  <2> DEFINE c == Head(commands)
  <2>1. /\ c \in Command /\ IsInjective(commands')
        /\ c.op = "append" => c.req \in Sent /\ Sent' = Sent \ {c.req}
        /\ c.op = "next" => Sent' = Sent
    BY <1>3, RecvStep
  <2>2. UNCHANGED <<buffers, serving, released>>
    BY <1>3 DEF Recv, replicaVars
  <2>3. \A j \in Replicas : Slots(j)' = Slots(j) /\ AssignedTo(j)' = AssignedTo(j)
    BY <2>2 DEF Slots, AssignedTo
  <2>4. CASE c.op = "append"
    <3>1. c.req \in Req /\ uncommit' = Append(uncommit, c.req) /\ c.req \notin Range(uncommit)
      BY <1>3, <2>1, <2>4, CommandTypes DEF Recv, Enqueue, RequestInOnePlace
    <3>2. uncommit \in Seq(Req) /\ IsInjective(uncommit)
      BY DEF TypeOK, RequestInOnePlace
    <3> HIDE DEF c
    <3>3. Range(uncommit') = Range(uncommit) \cup {c.req} /\ IsInjective(uncommit')
      BY <3>1, <3>2, RangeAppend
    <3> QED BY <2>1, <2>2, <2>3, <2>4, <3>3 DEF RequestInOnePlace
  <2>5. CASE c.op = "next"
    <3>1. uncommit' = uncommit
      BY <1>3, <2>5 DEF Recv
    <3> QED BY <2>1, <2>2, <2>3, <2>5, <3>1 DEF RequestInOnePlace
  <2> QED BY <2>1, <2>4, <2>5, CommandTypes
<1>4. ASSUME NEW i \in Replicas, Assign(i) PROVE RequestInOnePlace'
  <2> DEFINE h == Head(uncommit)
  <2>1. /\ h \in Req /\ Sent' = Sent /\ serving' = serving /\ released' = released
        /\ Range(uncommit) = Range(uncommit') \cup {h} /\ h \notin Range(uncommit')
        /\ IsInjective(uncommit') /\ IsInjective(buffers'[i])
        /\ \A j \in Replicas \ {i} : buffers'[j] = buffers[j]
        /\ \A j \in Replicas : h \notin AssignedTo(j)
        /\ Range(buffers'[i]) = Range(buffers[i]) \cup {h}
    BY <1>4, AssignMoves
  <2> HIDE DEF h
  <2>2. /\ Slots(i)' = Slots(i) \cup {h} /\ AssignedTo(i)' = AssignedTo(i) \cup {h}
        /\ \A j \in Replicas \ {i} : Slots(j)' = Slots(j) /\ AssignedTo(j)' = AssignedTo(j)
    BY <2>1 DEF Slots, AssignedTo
  <2>3. commands' = commands /\ \A j \in Replicas : h \notin Slots(j) \cup released[j]
    BY <1>4, <2>1 DEF Assign, AssignedTo
  <2>4. \A j \in Replicas : IsInjective(buffers'[j]) /\ Range(buffers'[j]) \cap serving'[j] = {}
    BY <2>1, <2>3 DEF RequestInOnePlace, Slots
  <2>5. \A j \in Replicas : /\ Slots(j)' \cap released'[j] = {}
                            /\ AssignedTo(j)' \cap (Sent' \cup Range(uncommit')) = {}
    BY <2>1, <2>2, <2>3 DEF RequestInOnePlace
  <2>6. \A j, k \in Replicas : j # k => AssignedTo(j)' \cap AssignedTo(k)' = {}
    BY <2>1, <2>2 DEF RequestInOnePlace
  <2>7. IsInjective(commands') /\ IsInjective(uncommit') /\ Sent' \cap Range(uncommit') = {}
    BY <2>1, <2>3 DEF RequestInOnePlace
  <2> QED BY <2>4, <2>5, <2>6, <2>7 DEF RequestInOnePlace
<1>5. ASSUME NEW i \in Replicas, Reply(i) PROVE RequestInOnePlace'
  <2>1. commands' = commands
    BY <1>5 DEF Reply
  <2> QED BY <1>5, <2>1, ReplyMoves DEF RequestInOnePlace
<1>6. ASSUME NEW i \in Replicas, NEW r \in Req, Release(i, r) PROVE RequestInOnePlace'
  <2>1. commands' = commands
    BY <1>6 DEF Release
  <2>2. \A j \in Replicas : Range(buffers'[j]) \cap serving'[j] = {} /\ Slots(j)' \cap released'[j] = {}
    BY <1>6, ReleaseMoves DEF RequestInOnePlace
  <2> QED BY <1>6, <2>1, <2>2, ReleaseMoves DEF RequestInOnePlace
<1>7. CASE UNCHANGED queues
  BY <1>7, PlaceUnchanged
<1> QED
  BY NextCases, <1>1, <1>2, <1>3, <1>4, <1>5, <1>6, <1>7
     DEF Decline, Observe, ReplicaFails, Prefill, taskVars, replicaVars, queues

-----------------------------------------------------------------------------
(* The batch size, and the balance of round-robin.                          *)
LEMMA AssignedFinite ==
  ASSUME TypeOK, NEW i \in Replicas
  PROVE  /\ Slots(i) \in SUBSET Req /\ AssignedTo(i) \in SUBSET Req
         /\ IsFiniteSet(Slots(i)) /\ Cardinality(Slots(i)) \in Nat
         /\ IsFiniteSet(AssignedTo(i)) /\ Cardinality(AssignedTo(i)) \in Nat
<1>1. Range(buffers[i]) \subseteq Req
  BY RangeBasics DEF TypeOK
<1>2. Slots(i) \in SUBSET Req /\ AssignedTo(i) \in SUBSET Req
  BY <1>1 DEF Slots, AssignedTo, TypeOK
<1>3. IsFiniteSet(Slots(i)) /\ IsFiniteSet(AssignedTo(i))
  BY <1>2, PolicyRunnerAssumption, FS_Subset
<1> QED BY <1>2, <1>3, FS_CardinalityType

LEMMA SlotsUnchanged ==
  ASSUME TypeOK, RequestInOnePlace, UNCHANGED <<buffers, serving, released>> \/ \E i \in Replicas : Reply(i)
  PROVE  \A j \in Replicas : Slots(j)' = Slots(j) /\ AssignedTo(j)' = AssignedTo(j)
<1>1. CASE UNCHANGED <<buffers, serving, released>>
  BY <1>1 DEF Slots, AssignedTo
<1>2. ASSUME NEW i \in Replicas, Reply(i)
      PROVE  \A j \in Replicas : Slots(j)' = Slots(j) /\ AssignedTo(j)' = AssignedTo(j)
  BY <1>2, ReplyMoves
<1> QED BY <1>1, <1>2

(* An assignment gives the replica one request more. *)
LEMMA AssignCounts ==
  ASSUME TypeOK, TaskControl, RequestInOnePlace, NEW i \in Replicas, Assign(i)
  PROVE  /\ Cardinality(Slots(i)') = Cardinality(Slots(i)) + 1
         /\ Cardinality(AssignedTo(i)') = Cardinality(AssignedTo(i)) + 1
         /\ \A j \in Replicas \ {i} : Slots(j)' = Slots(j) /\ AssignedTo(j)' = AssignedTo(j)
<1> DEFINE h == Head(uncommit)
<1>1. /\ h \in Req /\ serving' = serving /\ released' = released
      /\ \A j \in Replicas \ {i} : buffers'[j] = buffers[j]
      /\ h \notin AssignedTo(i) /\ Range(buffers'[i]) = Range(buffers[i]) \cup {h}
  BY AssignMoves
<1> HIDE DEF h
<1>2. /\ Slots(i)' = Slots(i) \cup {h} /\ AssignedTo(i)' = AssignedTo(i) \cup {h}
      /\ \A j \in Replicas \ {i} : Slots(j)' = Slots(j) /\ AssignedTo(j)' = AssignedTo(j)
  BY <1>1 DEF Slots, AssignedTo
<1>3. h \notin Slots(i)
  BY <1>1 DEF AssignedTo
<1>4. /\ Cardinality(Slots(i) \cup {h}) = Cardinality(Slots(i)) + 1
      /\ Cardinality(AssignedTo(i) \cup {h}) = Cardinality(AssignedTo(i)) + 1
  BY <1>1, <1>3, AssignedFinite, FS_AddElement
<1> QED BY <1>2, <1>4

LEMMA BatchStep ==
  TypeOK /\ TaskControl /\ RequestInOnePlace /\ BatchSizeMatches /\ [Next]_vars => BatchSizeMatches'
<1> SUFFICES ASSUME TypeOK, TaskControl, RequestInOnePlace, BatchSizeMatches, [Next]_vars
             PROVE  BatchSizeMatches'
  OBVIOUS
<1>0. lmetric \in [Replicas -> Counters]
  BY DEF TypeOK
<1>1. CASE /\ lmetric' = lmetric
           /\ UNCHANGED <<buffers, serving, released>> \/ \E i \in Replicas : Reply(i)
  BY <1>1, SlotsUnchanged DEF BatchSizeMatches
<1>2. ASSUME NEW i \in Replicas, Assign(i) PROVE BatchSizeMatches'
  <2>1. lmetric'[i].bs = lmetric[i].bs + 1 /\ \A j \in Replicas \ {i} : lmetric'[j] = lmetric[j]
    BY <1>0, <1>2, CounterTypes DEF Assign
  <2>2. /\ Cardinality(Slots(i)') = Cardinality(Slots(i)) + 1
        /\ \A j \in Replicas \ {i} : Slots(j)' = Slots(j)
    BY <1>2, AssignCounts
  <2> QED BY <2>1, <2>2 DEF BatchSizeMatches
<1>3. ASSUME NEW i \in Replicas, NEW r \in Req, Release(i, r) PROVE BatchSizeMatches'
  <2>1. /\ r \in Slots(i) /\ Slots(i)' = Slots(i) \ {r}
        /\ \A j \in Replicas \ {i} : Slots(j)' = Slots(j)
    BY <1>3, ReleaseMoves
  <2>2. Cardinality(Slots(i)') = Cardinality(Slots(i)) - 1 /\ Cardinality(Slots(i)) > 0
    <3>1. IsFiniteSet(Slots(i)) /\ Cardinality(Slots(i)) \in Nat
      BY AssignedFinite
    <3>2. Cardinality(Slots(i) \ {r}) = Cardinality(Slots(i)) - 1
      BY <2>1, <3>1, FS_RemoveElement
    <3>3. Cardinality(Slots(i)) # 0
      BY <2>1, <3>1, FS_EmptySet
    <3> QED BY <2>1, <3>1, <3>2, <3>3
  <2>3. /\ lmetric'[i].bs = Saturating(lmetric[i].bs - 1)
        /\ \A j \in Replicas \ {i} : lmetric'[j] = lmetric[j]
    BY <1>0, <1>3 DEF Release
  <2>4. lmetric[i].bs = Cardinality(Slots(i)) /\ Cardinality(Slots(i)) \in Nat
    BY AssignedFinite DEF BatchSizeMatches
  <2>5. Saturating(lmetric[i].bs - 1) = lmetric[i].bs - 1
    BY <2>2, <2>4, CounterTypes
  <2> QED BY <2>1, <2>2, <2>3, <2>4, <2>5 DEF BatchSizeMatches
<1>4. ASSUME NEW i \in Replicas, NEW r \in Req, Prefill(i, r) PROVE BatchSizeMatches'
  <2>1. \A j \in Replicas : lmetric'[j].bs = lmetric[j].bs
    BY <1>0, <1>4 DEF Prefill
  <2>2. UNCHANGED <<buffers, serving, released>>
    BY <1>4 DEF Prefill, taskVars, replicaVars
  <2> QED BY <2>1, <2>2, SlotsUnchanged DEF BatchSizeMatches
<1>5. CASE Next
  BY <1>5, NextCases, <1>1, <1>2, <1>3, <1>4
     DEF Arrive, Recv, Decline, Observe, Reply, Ask, ReplicaFails, taskVars, replicaVars
<1>6. CASE UNCHANGED vars
  BY <1>1, <1>6 DEF vars, taskVars, replicaVars
<1> QED BY <1>5, <1>6

(* Only the replica next has the least score under round-robin. *)
LEMMA RoundRobinStep ==
  TypeOK /\ TaskControl /\ RequestInOnePlace /\ RoundRobinRounds /\ [Next]_vars => RoundRobinRounds'
<1> SUFFICES ASSUME TypeOK, TaskControl, RequestInOnePlace, RoundRobinRounds, [Next]_vars,
                    policy' = "round-robin"
             PROVE  RoundRobinRounds'
  BY DEF RoundRobinRounds
<1> DEFINE last == NumReplicas - 1
           n(i) == Cardinality(AssignedTo(i))
<1>0. last \in Replicas /\ next \in Replicas /\ Replicas = 0 .. last /\ last \in Nat
  BY PolicyRunnerAssumption DEF TypeOK, Replicas
<1>1. \A i \in Replicas : n(i) \in Nat
  BY AssignedFinite
<1>2. ASSUME policy = "round-robin", NEW i \in Replicas, Assign(i) PROVE RoundRobinRounds'
  <2>1. i = next
    <3>1. Score(next) = 0 /\ (i # next => Score(i) = 1)
      BY <1>2 DEF Score
    <3>2. Score(i) < Score(next) \/ (Score(i) = Score(next) /\ i <= next)
      BY <1>0, <1>2 DEF Assign, Selectable
    <3> QED BY <3>1, <3>2
  <2>2. /\ n(i)' = n(i) + 1 /\ \A j \in Replicas \ {i} : n(j)' = n(j)
    BY <1>2, AssignCounts
  <2>3. next' = IF next = last THEN 0 ELSE next + 1
    BY <1>0, <1>2, AdvanceValue DEF Assign
  <2>4. \A j \in Replicas : n(j) = n(last) + IF j < next THEN 1 ELSE 0
    BY <1>2 DEF RoundRobinRounds
  <2> HIDE DEF n, last
  <2>5. \A j \in Replicas : n(j)' = n(last)' + IF j < next' THEN 1 ELSE 0
    <3>1. CASE next = last
      BY <1>0, <1>1, <2>1, <2>2, <2>3, <2>4, <3>1
    <3>2. CASE next # last
      BY <1>0, <1>1, <2>1, <2>2, <2>3, <2>4, <3>2
    <3> QED BY <3>1, <3>2
  <2> QED BY <2>5 DEF RoundRobinRounds, n, last
<1>3. CASE policy = "round-robin" /\ next' = next
           /\ \A j \in Replicas : AssignedTo(j)' = AssignedTo(j)
  BY <1>0, <1>3 DEF RoundRobinRounds
<1>4. policy = "round-robin"
  BY NextCases DEF Arrive, Recv, Decline, Observe, Assign, Reply, Ask, ReplicaFails, Prefill, Release, vars
<1>5. CASE \A i \in Replicas : ~Assign(i)
  <2>1. next' = next
    BY <1>5, NextCases
       DEF Arrive, Recv, Decline, Observe, Reply, Ask, ReplicaFails, Prefill, Release, taskVars, vars
  <2>2. \/ UNCHANGED <<buffers, serving, released>> \/ \E i \in Replicas : Reply(i)
        \/ \E i \in Replicas, r \in Req : Release(i, r)
    BY <1>5, NextCases
       DEF Arrive, Recv, Decline, Observe, Ask, ReplicaFails, Prefill, taskVars, replicaVars, vars
  <2>3. \A j \in Replicas : AssignedTo(j)' = AssignedTo(j)
    BY <2>2, SlotsUnchanged, ReleaseMoves
  <2> QED BY <1>3, <1>4, <2>1, <2>3
<1> QED BY <1>2, <1>4, <1>5

LEMMA InitPlace == Init => RequestInOnePlace /\ AskPending /\ BatchSizeMatches /\ RoundRobinRounds
<1> SUFFICES ASSUME Init PROVE RequestInOnePlace /\ AskPending /\ BatchSizeMatches /\ RoundRobinRounds
  OBVIOUS
<1>1. Range(commands) = {} /\ Sent = {} /\ Range(uncommit) = {} /\ IsInjective(commands) /\ IsInjective(uncommit)
  BY RangeBasics, EmptySeq DEF Init, Sent
<1>2. \A i \in Replicas : Range(buffers[i]) = {} /\ IsInjective(buffers[i]) /\ Slots(i) = {} /\ AssignedTo(i) = {}
  BY RangeBasics, EmptySeq DEF Init, Slots, AssignedTo
<1>3. \A i \in Replicas : lmetric[i].bs = 0 /\ released[i] = {}
  BY DEF Init, Zero
<1>4. next = 0 /\ asker = {} /\ NumReplicas - 1 \in Replicas
  BY PolicyRunnerAssumption DEF Init, Replicas
<1>5. RequestInOnePlace
  BY <1>1, <1>2, <1>3 DEF RequestInOnePlace
<1>6. BatchSizeMatches
  BY <1>2, <1>3, FS_EmptySet DEF BatchSizeMatches
<1>7. RoundRobinRounds
  BY <1>2, <1>4, FS_EmptySet DEF RoundRobinRounds, Replicas
<1>8. AskPending
  BY <1>1, <1>4 DEF AskPending
<1> QED BY <1>5, <1>6, <1>7, <1>8

LEMMA Inductive == Spec => []IInv
<1>1. Init => IInv
  BY InitType, InitPlace DEF IInv, Init, TaskControl, ObservedNotBelow
<1>2. IInv /\ [Next]_vars => IInv'
  BY TypeStep, ControlStep, AskStep, ObservedStep, PlaceStep, BatchStep, RoundRobinStep DEF IInv
<1> QED BY <1>1, <1>2, PTL DEF Spec

(* RequestInOnePlace: a request is in the command channel, uncommitted, or  *)
(* with one replica, and once there.                                        *)
THEOREM OnePlacePerRequest == Spec => []RequestInOnePlace
BY Inductive, PTL DEF IInv

(* BatchSizeMatches: the bs of every replica, which the policies choose by, *)
(* is the number of requests it has been given and has not released.        *)
THEOREM BatchSizeIsExact == Spec => []BatchSizeMatches
BY Inductive, PTL DEF IInv

(* RoundRobinBalanced: round-robin never gives one replica more than one    *)
(* request more than another, whatever the number of replicas.              *)
THEOREM RoundRobinIsBalanced == Spec => []RoundRobinBalanced
<1>1. IInv => RoundRobinBalanced
  <2> SUFFICES ASSUME IInv, policy = "round-robin", NEW i \in Replicas, NEW j \in Replicas
               PROVE  Cardinality(AssignedTo(i)) <= Cardinality(AssignedTo(j)) + 1
    BY DEF RoundRobinBalanced
  <2> DEFINE n(k) == Cardinality(AssignedTo(k))
  <2>1. NumReplicas - 1 \in Replicas
    BY PolicyRunnerAssumption DEF Replicas
  <2>2. n(i) \in Nat /\ n(j) \in Nat /\ n(NumReplicas - 1) \in Nat
    BY <2>1, AssignedFinite DEF IInv
  <2>3. /\ n(i) = n(NumReplicas - 1) + IF i < next THEN 1 ELSE 0
        /\ n(j) = n(NumReplicas - 1) + IF j < next THEN 1 ELSE 0
    BY DEF IInv, RoundRobinRounds
  <2> HIDE DEF n
  <2>4. n(i) <= n(j) + 1
    BY <2>2, <2>3
  <2> QED BY <2>4 DEF n
<1> QED BY <1>1, Inductive, PTL

-----------------------------------------------------------------------------
(* Each replica, as the scheduler sees it, and module Replica.              *)
LEMMA CountsAgree == \A i : \A S : Rep(i)!Cardinality(S) = Cardinality(S)
BY DEF Cardinality, Rep!Cardinality

(* A dead replica stays dead, and of the steps of the others only an        *)
(* assignment and a release move its slots or its bs.                       *)
LEMMA KeptStutter ==
  ASSUME NEW i \in Replicas, Slots(i)' = Slots(i), AssignedTo(i)' = AssignedTo(i),
         lmetric'[i].bs = lmetric[i].bs, (i \in alive)' = (i \in alive)
  PROVE  UNCHANGED Rep(i)!vars
BY DEF Rep!vars

LEMMA KeptAssign ==
  ASSUME TypeOK, TaskControl, RequestInOnePlace, NEW i \in Replicas, NEW j \in Replicas, i \in alive, Assign(j)
  PROVE  Rep(i)!Next \/ UNCHANGED Rep(i)!vars
<1> DEFINE h == Head(uncommit)
<1>0. lmetric \in [Replicas -> Counters]
  BY DEF TypeOK
<1>1. /\ h \in Req /\ serving' = serving /\ released' = released /\ alive' = alive
      /\ \A k \in Replicas \ {j} : buffers'[k] = buffers[k]
      /\ \A k \in Replicas : h \notin AssignedTo(k)
      /\ Range(buffers'[j]) = Range(buffers[j]) \cup {h}
  BY AssignMoves DEF Assign, replicaVars
<1> HIDE DEF h
<1>2. /\ Slots(j)' = Slots(j) \cup {h} /\ AssignedTo(j)' = AssignedTo(j) \cup {h}
      /\ \A k \in Replicas \ {j} : Slots(k)' = Slots(k) /\ AssignedTo(k)' = AssignedTo(k)
  BY <1>1 DEF Slots, AssignedTo
<1>3. lmetric'[j].bs = lmetric[j].bs + 1 /\ \A k \in Replicas \ {j} : lmetric'[k] = lmetric[k]
  BY <1>0, CounterTypes DEF Assign
<1>4. CASE i # j
  BY <1>1, <1>2, <1>3, <1>4, KeptStutter
<1>5. CASE i = j
  <2>1. h \notin Slots(i) /\ h \notin AssignedTo(i)
    BY <1>1 DEF AssignedTo
  <2>2. PICK r \in Req : r = h
    BY <1>1
  <2>3. Rep(i)!Assign(r) /\ i \in alive'
    BY <1>1, <1>2, <1>3, <1>5, <2>1, <2>2 DEF Rep!Assign
  <2>4. Rep(i)!Serve
    BY <2>3 DEF Rep!Serve
  <2> QED BY <2>4 DEF Rep!Next
<1> QED BY <1>4, <1>5

LEMMA KeptRelease ==
  ASSUME TypeOK, RequestInOnePlace, BatchSizeMatches, NEW i \in Replicas, NEW j \in Replicas, NEW r \in Req,
         i \in alive, Release(j, r)
  PROVE  Rep(i)!Next \/ UNCHANGED Rep(i)!vars
<1>0. lmetric \in [Replicas -> Counters]
  BY DEF TypeOK
<1>1. /\ r \in Slots(j) /\ Slots(j)' = Slots(j) \ {r} /\ alive' = alive
      /\ \A k \in Replicas \ {j} : Slots(k)' = Slots(k)
      /\ \A k \in Replicas : AssignedTo(k)' = AssignedTo(k)
  BY ReleaseMoves DEF Release
<1>2. /\ lmetric'[j].bs = Saturating(lmetric[j].bs - 1)
      /\ \A k \in Replicas \ {j} : lmetric'[k] = lmetric[k]
  BY <1>0 DEF Release
<1>3. CASE i # j
  BY <1>1, <1>2, <1>3, KeptStutter
<1>4. CASE i = j
  <2>1. IsFiniteSet(Slots(i)) /\ Cardinality(Slots(i)) \in Nat
    BY AssignedFinite
  <2>2. Cardinality(Slots(i)) # 0
    BY <1>1, <1>4, <2>1, FS_EmptySet
  <2>3. lmetric[i].bs = Cardinality(Slots(i))
    BY DEF BatchSizeMatches
  <2>4. lmetric'[i].bs = lmetric[i].bs - 1
    BY <1>2, <1>4, <2>1, <2>2, <2>3, CounterTypes
  <2>5. Rep(i)!Cardinality({r}) = 1
    BY CountsAgree, FS_Singleton
  <2>6. Rep(i)!Finish({r})
    BY <1>1, <1>4, <2>4, <2>5 DEF Rep!Finish
  <2> QED BY <1>1, <1>4, <2>6 DEF Rep!Next, Rep!Serve
<1> QED BY <1>3, <1>4

LEMMA KeptStep ==
  ASSUME IInv, [Next]_vars, NEW i \in Replicas
  PROVE  Rep(i)!Next \/ UNCHANGED Rep(i)!vars
<1> USE DEF IInv
<1>0. lmetric \in [Replicas -> Counters] /\ alive' \subseteq alive
  BY NextCases DEF TypeOK, Arrive, Recv, Decline, Observe, Assign, Reply, Ask, ReplicaFails, Prefill, Release,
                   taskVars, replicaVars, vars
<1>1. CASE i \notin alive'
  BY <1>1 DEF Rep!Next, Rep!Fail
<1>2. CASE i \in alive'
  <2>0. i \in alive /\ (i \in alive)' = (i \in alive)
    BY <1>0, <1>2
  <2>1. ASSUME NEW j \in Replicas, Assign(j) PROVE Rep(i)!Next \/ UNCHANGED Rep(i)!vars
    BY <2>0, <2>1, KeptAssign
  <2>2. ASSUME NEW j \in Replicas, NEW r \in Req, Release(j, r) PROVE Rep(i)!Next \/ UNCHANGED Rep(i)!vars
    BY <2>0, <2>2, KeptRelease
  <2>3. CASE /\ UNCHANGED <<buffers, serving, released>> \/ \E j \in Replicas : Reply(j)
             /\ lmetric' = lmetric \/ \E j \in Replicas, r \in Req : Prefill(j, r)
    <3>1. Slots(i)' = Slots(i) /\ AssignedTo(i)' = AssignedTo(i)
      BY <2>3, SlotsUnchanged
    <3>2. lmetric'[i].bs = lmetric[i].bs
      BY <1>0, <2>3 DEF Prefill
    <3> QED BY <2>0, <3>1, <3>2, KeptStutter
  <2>4. CASE Next
    BY <2>1, <2>2, <2>3, <2>4, NextCases
       DEF Arrive, Recv, Decline, Observe, Reply, Ask, ReplicaFails, Prefill, taskVars, replicaVars
  <2>5. CASE UNCHANGED vars
    BY <2>3, <2>5 DEF vars, taskVars, replicaVars
  <2> QED BY <2>4, <2>5
<1> QED BY <1>1, <1>2

(* ReplicasKept: whatever the policy chooses and the replicas do, the       *)
(* scheduler gives a request to a replica once, counts it in the replica's  *)
(* bs as long as the replica has not released it, and only then.            *)
THEOREM EveryReplicaKept == Spec => ReplicasKept
<1>1. Init => \A i \in Replicas : Rep(i)!Init
  <2> SUFFICES ASSUME Init, NEW i \in Replicas PROVE Rep(i)!Init
    OBVIOUS
  <2>1. Range(buffers[i]) = {} /\ serving[i] = {} /\ released[i] = {} /\ lmetric[i].bs = 0 /\ i \in alive
    BY RangeBasics, EmptySeq DEF Init, Zero
  <2> QED BY <2>1 DEF Rep!Init, Slots, AssignedTo
<1>2. IInv /\ [Next]_vars => \A i \in Replicas : Rep(i)!Next \/ UNCHANGED Rep(i)!vars
  BY KeptStep
<1> QED BY <1>1, <1>2, Inductive, PTL DEF Spec, ReplicasKept
-----------------------------------------------------------------------------
(* The order of the requests that wait.                                     *)
LEMMA QueueGrows ==
  ASSUME NEW S, NEW s \in Seq(S), NEW e \in S, NEW t, t = Append(s, e)
  PROVE  /\ DOMAIN s = 1 .. Len(s) /\ Len(s) \in Nat /\ DOMAIN t = 1 .. Len(s) + 1
         /\ \A k \in DOMAIN s : k \in DOMAIN t /\ t[k] = s[k]
         /\ t[Len(s) + 1] = e
BY LenProperties, AppendProperties

LEMMA QueueShrinks ==
  ASSUME NEW S, NEW s \in Seq(S), s # <<>>, NEW t, t = Tail(s)
  PROVE  /\ DOMAIN s = 1 .. Len(s) /\ Len(s) \in Nat /\ s[1] = Head(s)
         /\ \A k \in DOMAIN s : k # 1 => k - 1 \in DOMAIN t /\ t[k - 1] = s[k]
<1>1. /\ Len(s) \in Nat \ {0} /\ DOMAIN s = 1 .. Len(s) /\ s[1] = Head(s)
      /\ t \in Seq(S) /\ Len(t) = Len(s) - 1 /\ \A i \in 1 .. Len(t) : t[i] = s[i + 1]
  BY HeadTailProperties, LenProperties, EmptySeq
<1>2. DOMAIN t = 1 .. Len(s) - 1
  BY <1>1, LenProperties
<1> HIDE DEF Tail
<1>3. ASSUME NEW k \in DOMAIN s, k # 1 PROVE k - 1 \in DOMAIN t /\ t[k - 1] = s[k]
  <2>1. k \in Int /\ k - 1 \in 1 .. Len(s) - 1 /\ (k - 1) + 1 = k
    BY <1>1, <1>3
  <2> QED BY <1>1, <1>2, <2>1
<1> QED BY <1>1, <1>3

(* Requests that wait in order before a command is received do so after.    *)
LEMMA OrderRecv ==
  ASSUME TypeOK, RequestInOnePlace, Recv, NEW r \in Req, NEW s \in Req, Ahead(r, s)
  PROVE  StaysAhead(r, s)
<1> DEFINE c == Head(commands)
<1>1. /\ c \in Command /\ Range(commands) = Range(commands') \cup {c}
      /\ c.op = "append" => c.req \in Sent /\ Sent' = Sent \ {c.req}
      /\ c.op = "next" => Sent' = Sent
  BY RecvStep
<1>2. commands \in Seq(Command) /\ commands # <<>> /\ commands' = Tail(commands) /\ uncommit \in Seq(Req)
  BY DEF TypeOK, Recv
<1>3. /\ commands[1] = c
      /\ \A k \in DOMAIN commands : k \in Int /\ k >= 1 /\ (k # 1 => k - 1 \in DOMAIN commands' /\ commands'[k - 1] = commands[k])
  BY <1>2, QueueShrinks
<1>4. ASSUME NEW k \in DOMAIN commands, NEW l \in DOMAIN commands, k < l, k # 1,
             commands[k] = AppendCmd(r), commands[l] = AppendCmd(s)
      PROVE  s \in Queued' /\ Ahead(r, s)'
  <2>1. /\ k - 1 \in DOMAIN commands' /\ l - 1 \in DOMAIN commands' /\ k - 1 < l - 1
        /\ commands'[k - 1] = AppendCmd(r) /\ commands'[l - 1] = AppendCmd(s)
    BY <1>3, <1>4
  <2>2. AppendCmd(s) \in Range(commands')
    BY <2>1 DEF Range
  <2> QED BY <2>1, <2>2 DEF Ahead, Queued, Sent
<1>5. CASE c.op = "append"
  <2> DEFINE x == c.req
  <2>1. x \in Req /\ c = AppendCmd(x) /\ uncommit' = Append(uncommit, x) /\ Sent' = Sent \ {x}
    BY <1>1, <1>5, CommandTypes DEF Recv, Enqueue
  <2> HIDE DEF c, x
  <2>2. /\ Range(uncommit') = Range(uncommit) \cup {x}
        /\ \A k \in DOMAIN uncommit : k \in DOMAIN uncommit' /\ uncommit'[k] = uncommit[k]
    BY <1>2, <2>1, RangeAppend, QueueGrows
  <2>3. DOMAIN uncommit = 1 .. Len(uncommit) /\ Len(uncommit) \in Nat /\ Len(uncommit) + 1 \in DOMAIN uncommit'
        /\ uncommit'[Len(uncommit) + 1] = x
    BY <1>2, <2>1, QueueGrows
  <2>4. CASE \E k, l \in DOMAIN uncommit : k < l /\ uncommit[k] = r /\ uncommit[l] = s
    <3>1. s \in Range(uncommit') /\ Ahead(r, s)'
      BY <2>2, <2>4 DEF Ahead, Range
    <3> QED BY <3>1 DEF StaysAhead, Queued
  <2>5. CASE r \in Range(uncommit) /\ s \in Sent
    <3>1. CASE s = x
      <4>1. PICK k \in DOMAIN uncommit : uncommit[k] = r
        BY <2>5 DEF Range
      <4>2. k \in DOMAIN uncommit' /\ k < Len(uncommit) + 1 /\ uncommit'[k] = r
        BY <2>2, <2>3, <4>1
      <4>3. s \in Range(uncommit') /\ Ahead(r, s)'
        BY <2>2, <2>3, <3>1, <4>2 DEF Ahead
      <4> QED BY <4>3 DEF StaysAhead, Queued
    <3>2. CASE s # x
      BY <2>1, <2>2, <2>5, <3>2 DEF StaysAhead, Queued, Ahead
    <3> QED BY <3>1, <3>2
  <2>6. ASSUME NEW k \in DOMAIN commands, NEW l \in DOMAIN commands, k < l,
               commands[k] = AppendCmd(r), commands[l] = AppendCmd(s)
        PROVE  StaysAhead(r, s)
    <3>1. CASE k # 1
      BY <1>4, <2>6, <3>1 DEF StaysAhead
    <3>2. CASE k = 1
      <4>1. r = x
        BY <1>3, <2>1, <2>6, <3>2, CommandTypes
      <4>2. l - 1 \in DOMAIN commands' /\ commands'[l - 1] = AppendCmd(s)
        BY <1>3, <2>6, <3>2
      <4>3. s \in Sent'
        BY <4>2 DEF Sent, Range
      <4> QED BY <2>2, <4>1, <4>3 DEF StaysAhead, Queued, Ahead
    <3> QED BY <3>1, <3>2
  <2> QED BY <2>4, <2>5, <2>6 DEF Ahead
<1>6. CASE c.op = "next"
  <2>1. uncommit' = uncommit /\ Sent' = Sent /\ c # AppendCmd(r)
    BY <1>1, <1>6, CommandTypes DEF Recv
  <2> HIDE DEF c
  <2>2. ASSUME NEW k \in DOMAIN commands, NEW l \in DOMAIN commands, k < l,
               commands[k] = AppendCmd(r), commands[l] = AppendCmd(s)
        PROVE  StaysAhead(r, s)
    BY <1>3, <1>4, <2>1, <2>2 DEF StaysAhead
  <2>3. CASE (\E k, l \in DOMAIN uncommit : k < l /\ uncommit[k] = r /\ uncommit[l] = s)
             \/ (r \in Range(uncommit) /\ s \in Sent)
    BY <2>1, <2>3 DEF StaysAhead, Queued, Ahead, Range
  <2> QED BY <2>2, <2>3 DEF Ahead
<1> QED BY <1>1, <1>5, <1>6, CommandTypes

(* Only the head of the uncommitted queue is committed. *)
LEMMA OrderAssign ==
  ASSUME TypeOK, TaskControl, RequestInOnePlace, NEW i \in Replicas, Assign(i),
         NEW r \in Req, NEW s \in Req, Ahead(r, s)
  PROVE  StaysAhead(r, s)
<1> DEFINE h == Head(uncommit)
<1>1. /\ Sent' = Sent /\ commands' = commands /\ h \notin Range(uncommit') /\ h \notin Sent
      /\ Range(uncommit) = Range(uncommit') \cup {h}
  <2>1. Sent' = Sent /\ h \notin Range(uncommit') /\ Range(uncommit) = Range(uncommit') \cup {h}
    BY AssignMoves
  <2> QED BY <2>1 DEF Assign, RequestInOnePlace
<1>2. uncommit \in Seq(Req) /\ uncommit # <<>> /\ uncommit' = Tail(uncommit)
  BY DEF Assign, TaskControl, TypeOK
<1>3. /\ uncommit[1] = h
      /\ \A k \in DOMAIN uncommit :
           k \in Int /\ k >= 1 /\ (k # 1 => k - 1 \in DOMAIN uncommit' /\ uncommit'[k - 1] = uncommit[k])
  BY <1>2, QueueShrinks
<1> HIDE DEF h
<1>4. ASSUME NEW k \in DOMAIN uncommit, NEW l \in DOMAIN uncommit, k < l, uncommit[k] = r, uncommit[l] = s
      PROVE  StaysAhead(r, s)
  <2>1. l - 1 \in DOMAIN uncommit' /\ uncommit'[l - 1] = s
    BY <1>3, <1>4
  <2>2. s \in Queued'
    BY <2>1 DEF Queued, Range
  <2>3. CASE k = 1
    BY <1>1, <1>3, <1>4, <2>2, <2>3 DEF StaysAhead, Queued
  <2>4. CASE k # 1
    <3>1. k - 1 \in DOMAIN uncommit' /\ uncommit'[k - 1] = r /\ k - 1 < l - 1
      BY <1>3, <1>4, <2>4
    <3> QED BY <2>1, <2>2, <3>1 DEF StaysAhead, Ahead
  <2> QED BY <2>3, <2>4
<1>5. CASE r \in Range(uncommit) /\ s \in Sent
  BY <1>1, <1>5 DEF StaysAhead, Queued, Ahead
<1>6. CASE \E k, l \in DOMAIN commands : k < l /\ commands[k] = AppendCmd(r) /\ commands[l] = AppendCmd(s)
  <2>1. s \in Sent
    BY <1>6 DEF Sent, Range
  <2> QED BY <1>1, <1>6, <2>1 DEF StaysAhead, Queued, Ahead
<1> QED BY <1>4, <1>5, <1>6 DEF Ahead

(* A command sent goes behind everything that waits. *)
LEMMA OrderSend ==
  ASSUME TypeOK, NEW c \in Command, commands' = Append(commands, c), uncommit' = uncommit,
         NEW r \in Req, NEW s \in Req, Ahead(r, s)
  PROVE  StaysAhead(r, s)
<1>1. commands \in Seq(Command)
  BY DEF TypeOK
<1>2. \A k \in DOMAIN commands : k \in DOMAIN commands' /\ commands'[k] = commands[k]
  BY <1>1, QueueGrows
<1>3. Sent \subseteq Sent' /\ Queued \subseteq Queued'
  <2>1. Range(commands) \subseteq Range(commands')
    BY <1>1, RangeAppend
  <2> QED BY <2>1 DEF Sent, Queued
<1>4. Ahead(r, s)'
  BY <1>2, <1>3 DEF Ahead
<1>5. s \in Queued
  BY DEF Ahead, Queued, Sent, Range
<1> QED BY <1>3, <1>4, <1>5 DEF StaysAhead

LEMMA OrderArrive ==
  ASSUME TypeOK, NEW a \in Req, Arrive(a), NEW r \in Req, NEW s \in Req, r \in Queued, s \in Queued' \ Queued
  PROVE  StaysAhead(r, s)
<1>1. /\ commands \in Seq(Command) /\ commands' = Append(commands, AppendCmd(a)) /\ uncommit' = uncommit
      /\ AppendCmd(a) \in Command /\ AppendCmd(a).op = "append" /\ AppendCmd(a).req = a
  BY CommandTypes DEF TypeOK, Arrive, taskVars
<1>2. /\ \A k \in DOMAIN commands : k \in DOMAIN commands' /\ commands'[k] = commands[k]
      /\ DOMAIN commands = 1 .. Len(commands) /\ Len(commands) \in Nat
      /\ DOMAIN commands' = 1 .. Len(commands) + 1 /\ commands'[Len(commands) + 1] = AppendCmd(a)
  BY <1>1, QueueGrows
<1>3. Sent' = Sent \cup {a} /\ s = a
  <2>1. Sent' = Sent \cup {a}
    BY <1>1, SendStep
  <2> QED BY <1>1, <2>1 DEF Queued
<1>4. CASE r \in Range(uncommit)
  BY <1>1, <1>3, <1>4 DEF Ahead, StaysAhead, Queued
<1>5. CASE r \in Sent
  <2>1. PICK k \in DOMAIN commands : commands[k] = AppendCmd(r)
    BY <1>5 DEF Sent, Range
  <2>2. k \in DOMAIN commands' /\ k < Len(commands) + 1 /\ commands'[k] = AppendCmd(r)
    BY <1>2, <2>1
  <2>3. Len(commands) + 1 \in DOMAIN commands' /\ commands'[Len(commands) + 1] = AppendCmd(s)
    BY <1>2, <1>3
  <2> QED BY <1>3, <2>2, <2>3 DEF Ahead, StaysAhead, Queued
<1> QED BY <1>4, <1>5 DEF Queued

(* FifoAdmission: what waits in order is committed in that order, whoever   *)
(* asks and whatever the policy declines.                                   *)
THEOREM AdmissionIsFifo == Spec => FifoAdmission
<1> DEFINE Order == \A r, s \in Req :
             Ahead(r, s) \/ (r \in Queued /\ s \in Queued' \ Queued) => StaysAhead(r, s)
<1>1. IInv /\ [Next]_vars => Order
  <2> SUFFICES ASSUME IInv, [Next]_vars PROVE Order
    OBVIOUS
  <2> USE DEF IInv
  <2>1. ASSUME NEW a \in Req, Arrive(a) PROVE Order
    <3>1. AppendCmd(a) \in Command /\ commands' = Append(commands, AppendCmd(a)) /\ uncommit' = uncommit
      BY <2>1, CommandTypes DEF Arrive, taskVars
    <3> QED BY <2>1, <3>1, OrderArrive, OrderSend
  <2>2. ASSUME NEW i \in Replicas, Ask(i) PROVE Order
    <3>1. /\ NextCmd(i) \in Command /\ NextCmd(i).op = "next"
          /\ commands' = Append(commands, NextCmd(i)) /\ uncommit' = uncommit
      BY <2>2, CommandTypes DEF Ask, taskVars
    <3>2. Queued' = Queued
      BY <3>1, SendStep DEF Queued
    <3> QED BY <3>1, <3>2, OrderSend
  <2>3. CASE Recv
    <3>1. Queued' = Queued
      <4> DEFINE c == Head(commands)
      <4>1. /\ c \in Command
            /\ c.op = "append" => c.req \in Sent /\ Sent' = Sent \ {c.req}
            /\ c.op = "next" => Sent' = Sent
        BY <2>3, RecvStep
      <4>2. CASE c.op = "append"
        <5>1. uncommit' = Append(uncommit, c.req) /\ c.req \in Req /\ uncommit \in Seq(Req)
          BY <2>3, <4>1, <4>2, CommandTypes DEF Recv, Enqueue, TypeOK
        <5> HIDE DEF c
        <5>2. Range(uncommit') = Range(uncommit) \cup {c.req}
          BY <5>1, RangeAppend
        <5> QED BY <4>1, <4>2, <5>2 DEF Queued
      <4>3. CASE c.op = "next"
        BY <2>3, <4>1, <4>3 DEF Recv, Queued
      <4> QED BY <4>1, <4>2, <4>3, CommandTypes
    <3> QED BY <2>3, <3>1, OrderRecv
  <2>4. ASSUME NEW i \in Replicas, Assign(i) PROVE Order
    <3>1. Queued' \subseteq Queued
      BY <2>4, AssignMoves DEF Queued
    <3> QED BY <2>4, <3>1, OrderAssign
  <2>5. CASE UNCHANGED <<commands, uncommit>>
    <3>1. Queued' = Queued /\ \A r, s \in Req : Ahead(r, s)' = Ahead(r, s)
      BY <2>5 DEF Queued, Sent, Ahead
    <3>2. \A r, s \in Req : Ahead(r, s) => s \in Queued
      BY DEF Ahead, Queued, Sent, Range
    <3> QED BY <3>1, <3>2 DEF StaysAhead
  <2>6. CASE Next
    <3> HIDE DEF Order
    <3> QED BY <2>1, <2>2, <2>3, <2>4, <2>5, <2>6, NextCases
            DEF Decline, Observe, Reply, ReplicaFails, Prefill, Release, taskVars
  <2> QED BY <2>5, <2>6 DEF vars, taskVars
<1> QED BY <1>1, Inductive, PTL DEF Spec, FifoAdmission
=============================================================================

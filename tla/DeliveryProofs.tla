--------------------------- MODULE DeliveryProofs ---------------------------
(* What the loops, the engine and the client agree on, proved for every     *)
(* replica, request set, environment and both build profiles: after the     *)
(* drain every request a step output reports is known to the loop, a slot   *)
(* is given up only once the engine is done with its request, and a client  *)
(* that saw End has every token.                                            *)
EXTENDS ColocationProofs

(* A request's part of a step output, and whether it is the last one. *)
Reports(m, r) == m.outs[r] # Silent
Ends(m, r) == m.outs[r].fin \/ r \in m.term
Over(r) == eng[r].st \in {"done", "acked"}
Silenced(r) == \A i \in 1 .. Len(sse) : ~Reports(sse[i], r)

(* Requests the work loop has not posted yet: those the scheduler has not   *)
(* seen, the committed ones, and the one held before add_request.           *)
Unposted == {r \in Req : \/ client[r] = "new" /\ r \notin Orphans
                         \/ r \in Range(committed)
                         \/ r \in held /\ wl = "lock"}
PostedOnce == \A r \in Unposted : eng[r].st = "idle"

(* The engine reports no request before its POST. *)
IdleSilent == \A r \in Req : eng[r].st = "idle" => ~Reports(step, r) /\ Silenced(r)

(* A finish or an ACK is the engine's last word on a request. *)
EndsLast ==
  \A r \in Req :
    /\ Ends(step, r) => Over(r) /\ Silenced(r)
    /\ \A i \in 1 .. Len(sse) : Ends(sse[i], r) =>
         Over(r) /\ \A j \in 1 .. Len(sse) : j > i => ~Reports(sse[j], r)

(* A fault the loop knows of is one the engine's client reported. *)
ErrsTrue == \A r \in Req : r \in errs \/ exst[r] \in {"FaultedLive", "Faulted"} => eng[r].err

EngineTold == PostedOnce /\ IdleSilent /\ EndsLast /\ ErrsTrue

LEMMA NoStepSilent == \A r \in Req : ~Reports(NoStep, r) /\ ~Ends(NoStep, r)
BY DEF NoStep, Silent, Reports, Ends

LEMMA InitTold == Init => EngineTold
<1> SUFFICES ASSUME Init PROVE EngineTold
  OBVIOUS
<1>1. Range(committed) = {} /\ Len(sse) = 0 /\ step = NoStep
  BY DEF Init, Range
<1>2. PostedOnce
  BY <1>1 DEF Init, PostedOnce, Unposted
<1> QED BY <1>1, <1>2, NoStepSilent DEF Init, EngineTold, IdleSilent, EndsLast, ErrsTrue, Silenced

(* What one step of the engine tells and does. *)
Tells(T, B, m) ==
  /\ B \cap T = {}
  /\ m \in StepOutput /\ m.term = T /\ sse' = Append(sse, m)
  /\ \A r \in Req \ B : /\ ~Reports(m, r) /\ m.outs[r].ntok = 0
                        /\ eng'[r] = IF r \in T THEN Moved(eng[r], "acked") ELSE eng[r]
  /\ \A r \in B : /\ eng'[r].st \in {"prefill", "decode", "done"}
                  /\ m.outs[r].fin => eng'[r].st = "done"
                  /\ eng'[r].err = eng[r].err /\ eng'[r].toks = eng[r].toks + m.outs[r].ntok
                  /\ m.outs[r] \in NextOutputs(r) /\ eng'[r] = AfterOutput(eng[r], m.outs[r])

LEMMA EngineTells ==
  ASSUME TypeOK, EngineStep
  PROVE  \E T \in SUBSET Acknowledgeable, B \in SUBSET Active, m \in StepOutput : Tells(T, B, m)
<1>0. PICK T \in SUBSET Acknowledgeable : \E B \in SUBSET (Active \ T) : \E o \in [B -> Output] :
        /\ \A r \in B : o[r] \in NextOutputs(r)
        /\ sse' = Append(sse, [outs |-> [r \in Req |-> IF r \in B THEN o[r] ELSE Silent], term |-> T])
        /\ eng' = [r \in Req |-> IF r \in B THEN AfterOutput(eng[r], o[r])
                                 ELSE IF r \in T THEN Moved(eng[r], "acked") ELSE eng[r]]
  BY ZenonT(30) DEF EngineStep
<1>b. PICK B \in SUBSET (Active \ T) : \E o \in [B -> Output] :
        /\ \A r \in B : o[r] \in NextOutputs(r)
        /\ sse' = Append(sse, [outs |-> [r \in Req |-> IF r \in B THEN o[r] ELSE Silent], term |-> T])
        /\ eng' = [r \in Req |-> IF r \in B THEN AfterOutput(eng[r], o[r])
                                 ELSE IF r \in T THEN Moved(eng[r], "acked") ELSE eng[r]]
  BY <1>0
<1>1. PICK o \in [B -> Output] :
        /\ \A r \in B : o[r] \in NextOutputs(r)
        /\ sse' = Append(sse, [outs |-> [r \in Req |-> IF r \in B THEN o[r] ELSE Silent], term |-> T])
        /\ eng' = [r \in Req |-> IF r \in B THEN AfterOutput(eng[r], o[r])
                                 ELSE IF r \in T THEN Moved(eng[r], "acked") ELSE eng[r]]
  BY <1>b
<1> DEFINE m == [outs |-> [r \in Req |-> IF r \in B THEN o[r] ELSE Silent], term |-> T]
<1>2. m \in StepOutput /\ m.term = T
  BY DEF StepOutput, Silent, Output, Acknowledgeable
<1>3. B \subseteq Req
  BY DEF Active
<1>4. \A r \in Req \ B : ~Reports(m, r) /\ m.outs[r].ntok = 0
  BY DEF Reports, Silent
<1>5. \A r \in Req \ B : eng'[r] = IF r \in T THEN Moved(eng[r], "acked") ELSE eng[r]
  BY <1>1
<1>6. \A r \in B : /\ eng'[r].st \in {"prefill", "decode", "done"}
                   /\ m.outs[r].fin => eng'[r].st = "done"
                   /\ eng'[r].err = eng[r].err /\ eng'[r].toks = eng[r].toks + m.outs[r].ntok
  BY <1>1, <1>3 DEF AfterOutput
<1>9. \A r \in B : m.outs[r] \in NextOutputs(r) /\ eng'[r] = AfterOutput(eng[r], m.outs[r])
  BY <1>1, <1>3
<1>7. sse' = Append(sse, m)
  BY <1>1
<1>8. Tells(T, B, m)
  <2> HIDE DEF m
  <2> QED BY <1>2, <1>4, <1>5, <1>6, <1>7, <1>9 DEF Tells
<1> QED BY <1>2, <1>8

(* Appending to and taking from the step outputs in flight. *)
LEMMA SseAppend ==
  ASSUME TypeOK, NEW m \in StepOutput, sse' = Append(sse, m)
  PROVE  /\ Len(sse) \in Nat /\ Len(sse') = Len(sse) + 1 /\ sse'[Len(sse) + 1] = m
         /\ \A i \in 1 .. Len(sse) : sse'[i] = sse[i]
<1>1. sse \in Seq(StepOutput)
  BY DEF TypeOK
<1> QED BY <1>1, AppendProperties, LenProperties

LEMMA SseTail ==
  ASSUME TypeOK, sse # <<>>, sse' = Tail(sse)
  PROVE  /\ Len(sse) \in Nat \ {0} /\ Len(sse') = Len(sse) - 1 /\ Head(sse) = sse[1]
         /\ \A i \in 1 .. Len(sse) - 1 : sse'[i] = sse[i + 1]
<1>1. sse \in Seq(StepOutput)
  BY DEF TypeOK
<1> QED BY <1>1, HeadTailProperties, LenProperties, EmptySeq

(* The engine's record of a request only moves forward. *)
Forward(r) == /\ eng[r].err => eng'[r].err
              /\ eng'[r].st = "idle" => eng[r].st = "idle"
              /\ Over(r) => Over(r)'

LEMMA HeldUnposted == ASSUME Struct, wl = "lock" PROVE held \subseteq Unposted
BY DEF Struct, TypeOK, Unposted

LEMMA EngineForward ==
  ASSUME Struct, PostedOnce, [Next]_vars
  PROVE  \A r \in Req : Forward(r)
<1>a. eng \in [Req -> EngineRec]
  BY DEF Struct, TypeOK
<1>1. CASE AddRequest
  <2>1. eng' = [r \in Req |-> IF r \in held THEN Moved(eng[r], "posted") ELSE eng[r]]
        /\ \A r \in held : eng[r].st = "idle"
    BY <1>1, HeldUnposted DEF AddRequest, PostedOnce
  <2> QED BY <2>1 DEF Forward, Moved, Over
<1>2. CASE EngineStep
  <2>1. PICK T \in SUBSET Acknowledgeable, B \in SUBSET Active, m \in StepOutput : Tells(T, B, m)
    BY <1>2, EngineTells DEF Struct
  <2> TAKE r \in Req
  <2>2. CASE r \in B
    <3>1. ~Over(r)
      BY <2>2 DEF Active, Over
    <3>2. eng'[r].err = eng[r].err /\ eng'[r].st # "idle"
      BY <2>1, <2>2 DEF Tells
    <3> QED BY <3>1, <3>2 DEF Forward
  <2>3. CASE r \notin B
    <3>1. eng'[r] = IF r \in T THEN Moved(eng[r], "acked") ELSE eng[r]
      BY <2>1, <2>3 DEF Tells
    <3> QED BY <3>1 DEF Forward, Moved, Over
  <2> QED BY <2>2, <2>3
<1>3. ASSUME NEW q \in Req, PostFails(q) \/ Preempt(q) PROVE \A r \in Req : Forward(r)
  BY <1>3, <1>a DEF PostFails, Preempt, Forward, Failed, Moved, Over
<1>4. CASE UNCHANGED eng
  BY <1>4 DEF Forward, Over
<1>5. CASE ~(AddRequest \/ EngineStep \/ (\E q \in Req : PostFails(q) \/ Preempt(q)))
  <2>1. UNCHANGED eng
    BY <1>5 DEF Next, Admit, AdmitPanic, Disconnect, WorkLoop, Reserve, ReserveClosed, NextRequest,
         NextRequestPanic, Send, CompletionLoop, RecvStep, LoseStep, StreamEnded, DrainChannel, UpdateMetrics,
         ExitPanic, UnderflowPanic, PassGeneration, PassPanic, EndCycle, FaultPanic, TermPanic, EndLoop,
         Engine, EngineEnds, vars, engineVars
  <2> QED BY <2>1, <1>4
<1> QED BY <1>1, <1>2, <1>3, <1>5

(* How a client's view changes: it is admitted, or it waits and leaves, is  *)
(* answered with an error or closed, or sees End by the slow path.          *)
ClientMoved(r) ==
  \/ client'[r] = client[r]
  \/ client[r] = "new" /\ client'[r] \in {"waiting", "Closed"} /\ r \notin Orphans
  \/ client[r] = "waiting" /\ client'[r] \in {"gone", "Error", "Closed"}
  \/ /\ client[r] = "waiting" /\ client'[r] = "End"
     /\ PassGeneration(r) /\ r \in entries /\ step.outs[r].fin

LEMMA ClientMoves == ASSUME Struct, [Next]_vars PROVE \A r \in Req : ClientMoved(r)
<1>a. client \in [Req -> ClientSt]
  BY DEF Struct, TypeOK
<1>b. \A S, c : \A r \in Req :
        Close(S, c)[r] = c[r] \/ (c[r] = "waiting" /\ Close(S, c)[r] = "Closed")
  BY DEF Close
<1>c. \A S : \A r \in Req :
        Answered(S)[r] = client[r] \/ (client[r] = "waiting" /\ Answered(S)[r] = "Error")
  BY DEF Answered
<1>d. ASSUME NEW sites, NEW c, EndLoop(sites, c),
             \A r \in Req : c[r] = client[r] \/ (client[r] = "waiting" /\ c[r] = "Error")
      PROVE  \A r \in Req : ClientMoved(r)
  <2>1. PICK S : client' = Close(S, c)
    BY <1>d DEF EndLoop
  <2> QED BY <1>b, <1>d, <2>1 DEF ClientMoved
<1>1. ASSUME NEW q \in Req, Admit(q) \/ Disconnect(q) PROVE \A r \in Req : ClientMoved(r)
  BY <1>1, <1>a DEF Admit, Disconnect, ClientMoved
<1>2. ASSUME NEW q \in Req, PassGeneration(q) PROVE \A r \in Req : ClientMoved(r)
  <2> TAKE r \in Req
  <2>1. CASE q = r /\ r \in entries /\ step.outs[r].fin
    <3>1. client' = [client EXCEPT ![r] = IF @ = "waiting" THEN "End" ELSE @]
      BY <1>2, <2>1 DEF PassGeneration
    <3> QED BY <1>2, <1>a, <2>1, <3>1 DEF ClientMoved
  <2>2. CASE ~(q = r /\ r \in entries /\ step.outs[r].fin)
    BY <1>2, <1>a, <2>2 DEF PassGeneration, ClientMoved
  <2> QED BY <2>1, <2>2
<1>3. ASSUME NEW q \in Req, AdmitPanic(q) PROVE \A r \in Req : ClientMoved(r)
  <2> DEFINE c == Close(Range(committed), client)
  <2>1. c \in [Req -> ClientSt]
    BY <1>a, ClientType
  <2>2. client' = [c EXCEPT ![q] = "Closed"] /\ client[q] = "new" /\ q \notin Orphans
    BY <1>3 DEF AdmitPanic
  <2> QED BY <1>b, <2>1, <2>2 DEF ClientMoved
<1>4. CASE ReserveClosed
  <2>1. PICK S : client' = Close(S, client)
    BY <1>4 DEF ReserveClosed
  <2> QED BY <1>b, <2>1 DEF ClientMoved
<1>5. ASSUME NEW q \in Req, PassPanic(q) PROVE \A r \in Req : ClientMoved(r)
  BY <1>5, <1>d DEF PassPanic
<1>6. CASE StreamEnded \/ ExitPanic \/ UnderflowPanic
  BY <1>6, <1>d DEF StreamEnded, ExitPanic, UnderflowPanic
<1>7. CASE FaultPanic
  <2>1. PICK S \in SUBSET Faulting : EndLoop({"fault"}, Answered(S))
    BY <1>7 DEF FaultPanic
  <2> QED BY <1>c, <1>d, <2>1
<1>8. CASE TermPanic
  BY <1>8, <1>c, <1>d DEF TermPanic
<1>9. CASE EndCycle
  <2>1. client' = Close(leaving \cup Freed, Answered(Faulting))
    BY <1>9 DEF EndCycle
  <2> QED BY <1>b, <1>c, <2>1 DEF ClientMoved
<1>10. CASE UNCHANGED client
  BY <1>10 DEF ClientMoved
<1>11. CASE ~(\/ ReserveClosed \/ StreamEnded \/ ExitPanic \/ UnderflowPanic \/ FaultPanic \/ TermPanic \/ EndCycle
              \/ \E q \in Req : Admit(q) \/ Disconnect(q) \/ PassGeneration(q) \/ AdmitPanic(q) \/ PassPanic(q))
  <2>1. UNCHANGED client
    BY <1>11 DEF Next, WorkLoop, Reserve, NextRequest, NextRequestPanic, AddRequest, Send, CompletionLoop, RecvStep,
         LoseStep, DrainChannel, UpdateMetrics, Engine, EngineStep, EngineEnds, PostFails, Preempt, vars, clientVars
  <2> QED BY <2>1, <1>10
<1> QED BY <1>1, <1>2, <1>3, <1>4, <1>5, <1>6, <1>7, <1>8, <1>9, <1>11

LEMMA NewKept == ASSUME Struct, [Next]_vars PROVE \A r \in Req : client'[r] = "new" => client[r] = "new"
BY ClientMoves DEF ClientMoved

(* The buffers in front of the POST. *)
LEMMA BufferMoves ==
  ASSUME Struct, [Next]_vars
  PROVE  \/ Range(committed') \subseteq Range(committed) /\ (wl' = "lock" => wl = "lock" /\ held' = held)
         \/ \E q \in Req : /\ client[q] = "new" /\ q \notin Orphans
                           /\ Range(committed') = Range(committed) \cup {q} /\ UNCHANGED <<wl, held>>
         \/ Range(committed') \cup held' = Range(committed)
<1>a. committed \in Seq(Req)
  BY DEF Struct, TypeOK
<1>1. ASSUME NEW q \in Req, Admit(q)
      PROVE  /\ client[q] = "new" /\ q \notin Orphans
             /\ Range(committed') = Range(committed) \cup {q} /\ UNCHANGED <<wl, held>>
  BY <1>1, <1>a, RangeAppend DEF Admit
<1>2. ASSUME NEW q \in Req, AdmitPanic(q)
      PROVE  Range(committed') \subseteq Range(committed) /\ UNCHANGED <<wl, held>>
  BY <1>2 DEF AdmitPanic, Range
<1>3. CASE NextRequest
  <2>1. CASE committed = <<>>
    BY <1>3, <2>1 DEF NextRequest
  <2>2. CASE committed # <<>>
    <3>1. Range(committed) = Range(Tail(committed)) \cup {Head(committed)}
      BY <2>2, <1>a, RangeTail
    <3> QED BY <1>3, <2>2, <3>1 DEF NextRequest
  <2> QED BY <2>1, <2>2
<1>4. CASE Reserve \/ ReserveClosed \/ NextRequestPanic \/ AddRequest \/ Send
  <2>1. committed' = committed /\ wl' # "lock"
    BY <1>4 DEF Reserve, ReserveClosed, NextRequestPanic, AddRequest, Send
  <2> QED BY <2>1
<1>5. CASE ~WorkLoop /\ ~\E q \in Req : Admit(q) \/ AdmitPanic(q)
  <2>1. UNCHANGED <<committed, wl, held>>
    BY <1>5 DEF Next, Disconnect, CompletionLoop, RecvStep, LoseStep, StreamEnded, DrainChannel, UpdateMetrics,
         ExitPanic, UnderflowPanic, PassGeneration, PassPanic, EndCycle, FaultPanic, TermPanic, EndLoop,
         Engine, EngineStep, EngineEnds, PostFails, Preempt, vars, workVars
  <2> QED BY <2>1
<1> QED BY <1>1, <1>2, <1>3, <1>4, <1>5 DEF WorkLoop

LEMMA UnpostedMoves ==
  ASSUME Struct, [Next]_vars
  PROVE  Unposted' \subseteq Unposted /\ (AddRequest => Unposted' \cap held = {})
<1>a. OnePlace
  BY OnePlaceExplicit DEF Struct
<1>b. Range(committed) \subseteq Req /\ held \subseteq Req
  BY RangeBasics DEF Struct, TypeOK
<1>1. Unposted' \subseteq Unposted
  BY <1>b, NewKept, BufferMoves DEF Unposted
<1>2. ASSUME AddRequest PROVE Unposted' \cap held = {}
  <2>1. \A r \in held : client'[r] # "new"
    BY <1>b, NewKept DEF Struct, NewUntouched
  <2>2. committed' = committed /\ wl' = "send"
    BY <1>2 DEF AddRequest
  <2> QED BY <1>a, <2>1, <2>2 DEF Unposted, OnePlace, Apart
<1> QED BY <1>1, <1>2

LEMMA PostedOnceStep ==
  ASSUME Struct, PhaseInv, PostedOnce, [Next]_vars
  PROVE  PostedOnce'
<1>a. eng \in [Req -> EngineRec] /\ Unposted \subseteq Req
  BY DEF Struct, TypeOK, Unposted
<1> SUFFICES ASSUME NEW r \in Unposted' PROVE eng'[r].st = "idle"
  BY DEF PostedOnce
<1>0. r \in Unposted /\ r \in Req /\ eng[r].st = "idle"
  BY <1>a, UnpostedMoves DEF PostedOnce
<1>1. CASE AddRequest
  BY <1>0, <1>1, UnpostedMoves DEF AddRequest
<1>2. CASE EngineStep
  <2>1. PICK T \in SUBSET Acknowledgeable, B \in SUBSET Active, m \in StepOutput : Tells(T, B, m)
    BY <1>2, EngineTells DEF Struct
  <2>2. r \notin B
    BY <1>0 DEF Active
  <2>3. exst[r] = "None"
    BY <1>0 DEF Unposted, PhaseInv, Before
  <2>4. r \notin T
    BY <2>3 DEF Acknowledgeable
  <2> QED BY <1>0, <2>1, <2>2, <2>4 DEF Tells
<1>3. ASSUME NEW q \in Req, PostFails(q) \/ Preempt(q) PROVE eng'[r].st = "idle"
  <2>1. q # r
    BY <1>0, <1>3 DEF PostFails, Preempt
  <2> QED BY <1>0, <1>3, <1>a, <2>1 DEF PostFails, Preempt
<1>4. CASE ~(AddRequest \/ EngineStep \/ (\E q \in Req : PostFails(q) \/ Preempt(q)))
  <2>1. UNCHANGED eng
    BY <1>4 DEF Next, Admit, AdmitPanic, Disconnect, WorkLoop, Reserve, ReserveClosed, NextRequest,
         NextRequestPanic, Send, CompletionLoop, RecvStep, LoseStep, StreamEnded, DrainChannel, UpdateMetrics,
         ExitPanic, UnderflowPanic, PassGeneration, PassPanic, EndCycle, FaultPanic, TermPanic, EndLoop,
         Engine, EngineEnds, vars, engineVars
  <2> QED BY <1>0, <2>1
<1> QED BY <1>1, <1>2, <1>3, <1>4

(* The step outputs in flight and the one being processed: taken from the   *)
(* front, appended by the engine, dropped at the end of a cycle.            *)
LEMMA StreamMoves ==
  ASSUME Struct, [Next]_vars
  PROVE  \/ sse' = sse /\ step' \in {step, NoStep}
         \/ RecvStep
         \/ LoseStep /\ step' = step
         \/ EngineStep /\ step' = step
<1>1. CASE \/ StreamEnded \/ ExitPanic \/ UnderflowPanic \/ FaultPanic \/ TermPanic \/ EndCycle
           \/ \E r \in Req : PassPanic(r)
  BY <1>1 DEF StreamEnded, ExitPanic, UnderflowPanic, FaultPanic, TermPanic, PassPanic, EndLoop, EndCycle, engineVars
<1>2. CASE EngineStep \/ LoseStep
  BY <1>2 DEF EngineStep, LoseStep, loopVars
<1>3. CASE ~(\/ StreamEnded \/ ExitPanic \/ UnderflowPanic \/ FaultPanic \/ TermPanic \/ EndCycle \/ RecvStep
             \/ EngineStep \/ LoseStep \/ \E r \in Req : PassPanic(r))
  BY <1>3 DEF Next, Admit, AdmitPanic, Disconnect, WorkLoop, Reserve, ReserveClosed, NextRequest, NextRequestPanic,
       AddRequest, Send, CompletionLoop, DrainChannel, UpdateMetrics, PassGeneration, Engine, EngineEnds, PostFails,
       Preempt, vars, loopVars, engineVars
<1> QED BY <1>1, <1>2, <1>3

LEMMA IdleSilentStep ==
  ASSUME Struct, PostedOnce, IdleSilent, [Next]_vars
  PROVE  IdleSilent'
<1> SUFFICES ASSUME NEW r \in Req, eng'[r].st = "idle"
             PROVE  ~Reports(step', r) /\ \A i \in 1 .. Len(sse') : ~Reports(sse'[i], r)
  BY DEF IdleSilent, Silenced, Reports
<1>0. eng[r].st = "idle" /\ ~Reports(step, r) /\ (\A i \in 1 .. Len(sse) : ~Reports(sse[i], r))
  BY EngineForward DEF Forward, IdleSilent, Silenced
<1>1. CASE sse' = sse /\ step' \in {step, NoStep}
  BY <1>0, <1>1, NoStepSilent
<1>2. CASE RecvStep
  BY <1>0, <1>2, SseTail DEF RecvStep, Struct
<1>3. CASE LoseStep /\ step' = step
  BY <1>0, <1>3, SseTail DEF LoseStep, Struct
<1>4. CASE EngineStep /\ step' = step
  <2>1. PICK T \in SUBSET Acknowledgeable, B \in SUBSET Active, m \in StepOutput : Tells(T, B, m)
    BY <1>4, EngineTells DEF Struct
  <2>2. r \notin B
    BY <1>0 DEF Active
  <2>3. ~Reports(m, r) /\ m \in StepOutput /\ sse' = Append(sse, m)
    BY <2>1, <2>2 DEF Tells
  <2>4. ASSUME NEW i \in 1 .. Len(sse') PROVE ~Reports(sse'[i], r)
    <3>1. i \in 1 .. Len(sse) \/ i = Len(sse) + 1
      BY <2>3, SseAppend DEF Struct
    <3> QED BY <3>1, <2>3, <1>0, SseAppend DEF Struct
  <2> QED BY <1>0, <1>4, <2>4
<1> QED BY <1>1, <1>2, <1>3, <1>4, StreamMoves

LEMMA EndsLastStep ==
  ASSUME Struct, PostedOnce, EndsLast, [Next]_vars
  PROVE  EndsLast'
<1> SUFFICES ASSUME NEW r \in Req
             PROVE  /\ Ends(step', r) => Over(r)' /\ \A i \in 1 .. Len(sse') : ~Reports(sse'[i], r)
                    /\ \A i \in 1 .. Len(sse') : Ends(sse'[i], r) =>
                         Over(r)' /\ \A j \in 1 .. Len(sse') : j > i => ~Reports(sse'[j], r)
  BY DEF EndsLast, Silenced, Reports, Ends
<1>0. /\ Over(r) => Over(r)'
      /\ Ends(step, r) => Over(r) /\ \A i \in 1 .. Len(sse) : ~Reports(sse[i], r)
      /\ \A i \in 1 .. Len(sse) : Ends(sse[i], r) =>
            Over(r) /\ \A j \in 1 .. Len(sse) : j > i => ~Reports(sse[j], r)
  BY EngineForward DEF Forward, EndsLast, Silenced
<1>1. CASE sse' = sse /\ step' \in {step, NoStep}
  BY <1>0, <1>1, NoStepSilent
<1>2. CASE RecvStep \/ (LoseStep /\ step' = step)
  <2>1. /\ Len(sse) \in Nat \ {0} /\ Len(sse') = Len(sse) - 1
        /\ \A i \in 1 .. Len(sse) - 1 : sse'[i] = sse[i + 1]
        /\ step' \in {step, sse[1]}
    BY <1>2, SseTail DEF RecvStep, LoseStep, Struct
  <2>2. ASSUME NEW i \in 1 .. Len(sse') PROVE sse'[i] = sse[i + 1] /\ i + 1 \in 1 .. Len(sse) /\ i + 1 > 1
    BY <2>1
  <2>3. ASSUME Ends(step', r) PROVE Over(r)' /\ \A i \in 1 .. Len(sse') : ~Reports(sse'[i], r)
    <3>1. CASE step' = step
      BY <1>0, <2>2, <2>3, <3>1
    <3>2. CASE step' = sse[1]
      <4>1. 1 \in 1 .. Len(sse)
        BY <2>1
      <4> QED BY <1>0, <2>2, <2>3, <3>2, <4>1
    <3> QED BY <2>1, <3>1, <3>2
  <2>4. ASSUME NEW i \in 1 .. Len(sse'), Ends(sse'[i], r)
        PROVE  Over(r)' /\ \A j \in 1 .. Len(sse') : j > i => ~Reports(sse'[j], r)
    <3>1. Ends(sse[i + 1], r) /\ i + 1 \in 1 .. Len(sse)
      BY <2>2, <2>4
    <3>2. \A j \in 1 .. Len(sse') : j > i => j + 1 > i + 1
      OBVIOUS
    <3> QED BY <1>0, <2>2, <3>1, <3>2
  <2> QED BY <2>3, <2>4
<1>3. CASE EngineStep /\ step' = step
  <2>1. PICK T \in SUBSET Acknowledgeable, B \in SUBSET Active, m \in StepOutput : Tells(T, B, m)
    BY <1>3, EngineTells DEF Struct
  <2>2. m \in StepOutput /\ sse' = Append(sse, m) /\ (r \notin B => ~Reports(m, r))
    BY <2>1 DEF Tells
  <2>3. /\ Len(sse) \in Nat /\ Len(sse') = Len(sse) + 1 /\ sse'[Len(sse) + 1] = m
        /\ \A i \in 1 .. Len(sse) : sse'[i] = sse[i]
    BY <2>2, SseAppend DEF Struct
  <2>4. Over(r) => ~Reports(m, r)
    BY <2>2 DEF Over, Active
  <2>5. Ends(m, r) => Over(r)'
    <3>1. CASE r \in B
      BY <2>1, <3>1 DEF Tells, Ends, Over
    <3>2. CASE r \notin B
      <4>1. ~Reports(m, r) /\ m.term = T /\ eng'[r] = IF r \in T THEN Moved(eng[r], "acked") ELSE eng[r]
        BY <2>1, <3>2 DEF Tells
      <4> QED BY <4>1 DEF Reports, Silent, Ends, Over, Moved
    <3> QED BY <3>1, <3>2
  <2>6. \A i \in 1 .. Len(sse') : i \in 1 .. Len(sse) \/ i = Len(sse) + 1
    BY <2>3
  <2> QED BY <1>0, <1>3, <2>3, <2>4, <2>5, <2>6
<1> QED BY <1>1, <1>2, <1>3, StreamMoves

LEMMA ErrsTrueStep ==
  ASSUME Struct, PostedOnce, ErrsTrue, [Next]_vars
  PROVE  ErrsTrue'
<1> SUFFICES ASSUME NEW r \in Req, r \in errs' \/ exst'[r] \in {"FaultedLive", "Faulted"}
             PROVE  eng'[r].err
  BY DEF ErrsTrue
<1>0. eng[r].err => eng'[r].err
  BY EngineForward DEF Forward
<1>1. CASE r \in errs \/ exst[r] \in {"FaultedLive", "Faulted"}
  BY <1>0, <1>1 DEF ErrsTrue
<1>2. CASE ~(r \in errs \/ exst[r] \in {"FaultedLive", "Faulted"})
  <2>1. ASSUME NEW q \in Req, PostFails(q) PROVE eng'[r].err
    <3>1. r = q /\ eng \in [Req -> EngineRec]
      BY <1>2, <2>1 DEF PostFails, loopVars, Struct, TypeOK
    <3> QED BY <2>1, <3>1 DEF PostFails, Failed
  <2>2. CASE UpdateMetrics
    BY <1>2, <2>2 DEF UpdateMetrics
  <2>3. CASE EndCycle
    BY <1>2, <2>3 DEF EndCycle, ExstPut, Faulting
  <2>4. CASE \/ StreamEnded \/ ExitPanic \/ UnderflowPanic \/ FaultPanic \/ TermPanic
             \/ \E q \in Req : PassPanic(q)
    BY <2>4 DEF StreamEnded, ExitPanic, UnderflowPanic, FaultPanic, TermPanic, PassPanic, EndLoop
  <2>5. CASE ~(\/ UpdateMetrics \/ EndCycle \/ StreamEnded \/ ExitPanic \/ UnderflowPanic \/ FaultPanic \/ TermPanic
               \/ \E q \in Req : PassPanic(q) \/ PostFails(q))
    BY <1>2, <2>5 DEF Next, Admit, AdmitPanic, Disconnect, WorkLoop, Reserve, ReserveClosed, NextRequest,
         NextRequestPanic, AddRequest, Send, CompletionLoop, RecvStep, LoseStep, DrainChannel, PassGeneration,
         Engine, EngineStep, EngineEnds, Preempt, vars, loopVars
  <2> QED BY <2>1, <2>2, <2>3, <2>4, <2>5
<1> QED BY <1>1, <1>2

LEMMA ToldStep == Struct /\ PhaseInv /\ EngineTold /\ [Next]_vars => EngineTold'
BY PostedOnceStep, IdleSilentStep, EndsLastStep, ErrsTrueStep DEF EngineTold

-----------------------------------------------------------------------------
(* The precondition of the slow path.  A request the engine may still       *)
(* report has its entry in the driver, unless its POST failed; and wqe_mtx, *)
(* held from the POST to the send, makes the drain see it in time.          *)

Pending(r) == r \in Active \/ ~Silenced(r) \/ (cq = "drain" /\ Reports(step, r))
InDriver == Range(committed) \cup held \cup Range(wq) \cup entries \cup exents

(* A request the engine serves has not lost its entry. *)
Kept == cq # "dead" => \A r \in Req \ Orphans : Pending(r) => eng[r].err \/ r \in InDriver

(* After the drain the step reports nothing that is still on its way. *)
Drained ==
  cq \in {"metrics", "pass"} => \A r \in Range(committed) \cup held \cup Range(wq) : ~Reports(step, r)

InTime == Kept /\ Drained /\ OutputVisible

LEMMA InitInTime == Init => InTime
<1> SUFFICES ASSUME Init PROVE InTime
  OBVIOUS
<1>1. Len(sse) = 0 /\ \A r \in Req \ Orphans : r \notin Active
  BY DEF Init, Active
<1> QED BY <1>1 DEF Init, InTime, Kept, Drained, OutputVisible, Pending, Silenced

(* What the next step may report was pending before. *)
LEMMA PendingBefore ==
  ASSUME Struct, PostedOnce, [Next]_vars, NEW r \in Req, Pending(r)', cq # "dead"
  PROVE  Pending(r) \/ (AddRequest /\ r \in held)
<1>a. eng \in [Req -> EngineRec]
  BY DEF Struct, TypeOK
<1>1. CASE r \in Active'
  <2>1. CASE AddRequest
    BY <1>1, <2>1, <1>a DEF AddRequest, Active, Pending
  <2>2. CASE EngineStep
    <3>1. PICK T \in SUBSET Acknowledgeable, B \in SUBSET Active, m \in StepOutput : Tells(T, B, m)
      BY <2>2, EngineTells DEF Struct
    <3>2. r \in B \/ (r \notin T /\ eng'[r] = eng[r])
      <4>1. CASE r \in T /\ r \notin B
        <5>1. eng'[r] = Moved(eng[r], "acked")
          BY <3>1, <4>1 DEF Tells
        <5> QED BY <1>1, <5>1 DEF Active, Moved
      <4>2. CASE r \notin T /\ r \notin B
        BY <3>1, <4>2 DEF Tells
      <4> QED BY <4>1, <4>2
    <3> QED BY <1>1, <3>2 DEF Active, Pending
  <2>3. ASSUME NEW q \in Req, PostFails(q) \/ Preempt(q) PROVE r \in Active
    BY <1>1, <2>3, <1>a DEF PostFails, Preempt, Active, Failed, Moved
  <2>4. CASE ~(AddRequest \/ EngineStep \/ (\E q \in Req : PostFails(q) \/ Preempt(q)))
    <3>1. UNCHANGED eng
      BY <2>4 DEF Next, Admit, AdmitPanic, Disconnect, WorkLoop, Reserve, ReserveClosed, NextRequest,
           NextRequestPanic, Send, CompletionLoop, RecvStep, LoseStep, StreamEnded, DrainChannel, UpdateMetrics,
           ExitPanic, UnderflowPanic, PassGeneration, PassPanic, EndCycle, FaultPanic, TermPanic, EndLoop,
           Engine, EngineEnds, vars, engineVars
    <3> QED BY <1>1, <3>1 DEF Active, Pending
  <2> QED BY <2>1, <2>2, <2>3, <2>4 DEF Pending
<1>2. CASE ~Silenced(r)'
  <2>1. PICK i \in 1 .. Len(sse') : Reports(sse'[i], r)
    BY <1>2 DEF Silenced, Reports
  <2>2. CASE sse' = sse
    BY <2>1, <2>2 DEF Silenced, Pending
  <2>3. CASE RecvStep \/ LoseStep
    <3>1. i + 1 \in 1 .. Len(sse) /\ sse'[i] = sse[i + 1]
      BY <2>1, <2>3, SseTail DEF RecvStep, LoseStep, Struct
    <3> QED BY <2>1, <3>1 DEF Silenced, Pending
  <2>4. CASE EngineStep
    <3>1. PICK T \in SUBSET Acknowledgeable, B \in SUBSET Active, m \in StepOutput : Tells(T, B, m)
      BY <2>4, EngineTells DEF Struct
    <3>2. m \in StepOutput /\ sse' = Append(sse, m) /\ (r \notin B => ~Reports(m, r))
      BY <3>1 DEF Tells
    <3>3. i \in 1 .. Len(sse) \/ i = Len(sse) + 1
      BY <2>1, <3>2, SseAppend DEF Struct
    <3> QED BY <2>1, <3>2, <3>3, SseAppend DEF Silenced, Pending, Struct
  <2> QED BY <2>2, <2>3, <2>4, StreamMoves
<1>3. CASE cq' = "drain" /\ Reports(step', r)
  <2>1. CASE RecvStep
    <3>1. step' = sse[1] /\ 1 \in 1 .. Len(sse)
      BY <2>1, SseTail DEF RecvStep, Struct
    <3> QED BY <1>3, <3>1 DEF Silenced, Pending
  <2>2. CASE ~RecvStep
    <3>1. cq = "drain" /\ step' = step
      BY <1>3, <2>2 DEF Next, Admit, AdmitPanic, Disconnect, WorkLoop, Reserve, ReserveClosed, NextRequest,
           NextRequestPanic, AddRequest, Send, CompletionLoop, LoseStep, StreamEnded, DrainChannel, UpdateMetrics,
           ExitPanic, UnderflowPanic, PassGeneration, PassPanic, EndCycle, FaultPanic, TermPanic, EndLoop,
           Engine, EngineStep, EngineEnds, PostFails, Preempt, vars, loopVars
    <3> QED BY <1>3, <3>1, SMTT(30) DEF Pending
  <2> QED BY <2>1, <2>2
<1> QED BY <1>1, <1>2, <1>3 DEF Pending, Reports

(* An entry leaves the driver when the engine is done with its request,     *)
(* when its POST failed, when it was never posted, or with the loop.        *)
LEMMA DriverLoses ==
  ASSUME Struct, PhaseInv, EngineTold, [Next]_vars, cq' # "dead", NEW r \in InDriver, r \notin InDriver'
  PROVE  eng[r].err \/ eng[r].st = "idle" \/ (Ends(step, r) /\ cq # "drain")
<1>a. /\ committed \in Seq(Req) /\ wq \in Seq(Req) /\ Range(committed) \subseteq Req /\ Range(wq) \subseteq Req
      /\ held \subseteq Req /\ entries \subseteq Req /\ exents \subseteq Req
  BY RangeBasics DEF Struct, TypeOK
<1>b. r \in Req
  BY <1>a DEF InDriver
<1>c. OnePlace
  BY OnePlaceExplicit DEF Struct
<1>1. ASSUME NEW q \in Req, Admit(q) \/ Disconnect(q) PROVE FALSE
  <2>1. UNCHANGED <<held, wq, entries, exents>> /\ (committed' = Append(committed, q) \/ committed' = committed)
    BY <1>1 DEF Admit, Disconnect, workVars, loopVars
  <2>2. Range(Append(committed, q)) = Range(committed) \cup {q}
    BY <1>a, RangeAppend
  <2>3. Range(committed) \subseteq Range(committed')
    BY <2>1, <2>2
  <2> QED BY <2>1, <2>3 DEF InDriver
<1>2. ASSUME NEW q \in Req, AdmitPanic(q) PROVE eng[r].st = "idle"
  <2>1. r \in Range(committed)
    BY <1>2 DEF AdmitPanic, loopVars, InDriver
  <2> QED BY <2>1, <1>b DEF EngineTold, PostedOnce, Unposted
<1>3. CASE WorkLoop
  <2>1. UNCHANGED <<cq, entries, exents>>
    BY <1>3 DEF WorkLoop, Reserve, ReserveClosed, NextRequest, NextRequestPanic, AddRequest, Send, loopVars
  <2>2. ~ReserveClosed
    BY <2>1 DEF ReserveClosed
  <2>3. Range(committed) \cup held \cup Range(wq) \subseteq Range(committed') \cup held' \cup Range(wq')
    <3>1. CASE Reserve \/ NextRequestPanic \/ AddRequest
      BY <3>1 DEF Reserve, NextRequestPanic, AddRequest
    <3>2. CASE NextRequest /\ committed = <<>>
      BY <3>2 DEF NextRequest
    <3>3. CASE NextRequest /\ committed # <<>>
      <4>1. /\ held' = {Head(committed)} /\ committed' = Tail(committed) /\ held = {} /\ wq' = wq
        BY <3>3 DEF NextRequest, Struct, LoopControl
      <4> QED BY <1>a, <3>3, <4>1, RangeTail
    <3>4. CASE Send
      <4>1. PICK q \in held : wq' = Append(wq, q)
        BY <3>4 DEF Send
      <4>2. held = {q} /\ q \in Req
        BY <4>1, <1>a DEF Struct, EntryInOnePlace
      <4>3. Range(wq') = Range(wq) \cup {q}
        BY <1>a, <4>1, <4>2, RangeAppend
      <4> QED BY <3>4, <4>2, <4>3 DEF Send
    <3> QED BY <1>3, <2>2, <3>1, <3>2, <3>3, <3>4 DEF WorkLoop
  <2> QED BY <2>1, <2>3 DEF InDriver
<1>4. CASE DrainChannel
  BY <1>4 DEF DrainChannel, workVars, InDriver
<1>5. CASE UpdateMetrics
  <2>1. r \in Exiting
    BY <1>5 DEF UpdateMetrics, workVars, InDriver
  <2> QED BY <1>5, <2>1 DEF Exiting, Finished, Ends, UpdateMetrics
<1>6. ASSUME NEW q \in Req, PassGeneration(q) PROVE Ends(step, r) /\ cq # "drain"
  <2>1. r = q /\ step.outs[q].fin
    BY <1>6 DEF PassGeneration, workVars, InDriver
  <2> QED BY <1>6, <2>1 DEF Ends, PassGeneration
<1>7. CASE EndCycle
  <2>1. /\ entries' = entries \ (cancel \cup Faulting)
        /\ exents' = (exents \cup cancel \cup Faulting) \ Freed /\ UNCHANGED <<committed, held, wq>>
    BY <1>7 DEF EndCycle, workVars
  <2>2. r \in Freed
    BY <2>1 DEF InDriver
  <2>3. r \in TermHeld => Ends(step, r) /\ cq # "drain"
    BY <1>7 DEF TermHeld, Ends, EndCycle
  <2>4. ASSUME r \in Dropped PROVE eng[r].err
    <3>1. exst[r] = "Faulted"
      BY <2>4 DEF Dropped, ExstPut
    <3> QED BY <1>b, <3>1 DEF EngineTold, ErrsTrue
  <2> QED BY <2>2, <2>3, <2>4 DEF Freed
<1>8. CASE RecvStep \/ LoseStep \/ Engine \/ UNCHANGED vars
  BY <1>8 DEF RecvStep, LoseStep, Engine, EngineStep, EngineEnds, PostFails, Preempt, vars, workVars, loopVars, InDriver
<1>9. CASE \/ StreamEnded \/ ExitPanic \/ UnderflowPanic \/ FaultPanic \/ TermPanic
           \/ \E q \in Req : PassPanic(q)
  BY <1>9 DEF StreamEnded, ExitPanic, UnderflowPanic, FaultPanic, TermPanic, PassPanic, EndLoop
<1> QED BY <1>1, <1>2, <1>3, <1>4, <1>5, <1>6, <1>7, <1>8, <1>9 DEF Next, CompletionLoop

LEMMA KeptStep ==
  ASSUME Struct, PhaseInv, EngineTold, EngineTold', Kept, [Next]_vars
  PROVE  Kept'
<1> SUFFICES ASSUME cq' # "dead", NEW r \in Req \ Orphans, Pending(r)' PROVE eng'[r].err \/ r \in InDriver'
  BY SMTT(30) DEF Kept
<1>1. cq # "dead"
  BY DEF Next, Admit, AdmitPanic, Disconnect, WorkLoop, Reserve, ReserveClosed, NextRequest,
       NextRequestPanic, AddRequest, Send, CompletionLoop, RecvStep, LoseStep, StreamEnded, DrainChannel, UpdateMetrics,
       ExitPanic, UnderflowPanic, PassGeneration, PassPanic, EndCycle, FaultPanic, TermPanic, EndLoop,
       Engine, EngineStep, EngineEnds, PostFails, Preempt, vars, loopVars
<1>2. CASE AddRequest /\ r \in held
  BY <1>2 DEF AddRequest, InDriver
<1>3. CASE Pending(r) /\ r \in InDriver /\ ~eng[r].err
  <2> SUFFICES ASSUME r \notin InDriver' PROVE FALSE
    OBVIOUS
  <2>1. eng[r].st = "idle" \/ (Ends(step, r) /\ cq # "drain")
    BY <1>3, DriverLoses
  <2>2. CASE eng[r].st = "idle"
    BY <1>3, <2>2 DEF Pending, Active, EngineTold, IdleSilent
  <2>3. CASE Ends(step, r) /\ cq # "drain"
    <3>1. Over(r) /\ Silenced(r)
      BY <2>3 DEF EngineTold, EndsLast
    <3> QED BY <1>3, <2>3, <3>1 DEF Pending, Active, Over
  <2> QED BY <2>1, <2>2, <2>3
<1>4. CASE Pending(r) /\ eng[r].err
  BY <1>4, EngineForward DEF EngineTold, Forward
<1> QED BY <1>1, <1>2, <1>3, <1>4, PendingBefore DEF EngineTold, Kept

LEMMA DrainedStep ==
  ASSUME Struct, EngineTold, Drained, [Next]_vars
  PROVE  Drained'
<1> SUFFICES ASSUME cq' \in {"metrics", "pass"}, NEW r \in Range(committed') \cup held' \cup Range(wq')
             PROVE  ~Reports(step', r)
  BY DEF Drained, Reports
<1>a. /\ committed \in Seq(Req) /\ wq \in Seq(Req) /\ Range(committed) \subseteq Req /\ Range(wq) \subseteq Req
      /\ held \subseteq Req
  BY RangeBasics DEF Struct, TypeOK
<1>b. ASSUME NEW q \in Unposted PROVE ~Reports(step, q)
  BY <1>b DEF EngineTold, PostedOnce, IdleSilent, Unposted
<1>1. CASE DrainChannel
  <2>1. step' = step /\ wq' = <<>> /\ UNCHANGED <<committed, held>> /\ wl # "send"
    BY <1>1 DEF DrainChannel, workVars
  <2>2. Range(wq') = {}
    BY <2>1 DEF Range
  <2>3. r \in Range(committed) \/ (r \in held /\ wl = "lock")
    BY <2>1, <2>2 DEF Struct, LoopControl
  <2>4. r \in Unposted
    BY <1>a, <2>3 DEF Unposted
  <2> QED BY <1>b, <2>1, <2>4
<1>2. CASE cq \in {"metrics", "pass"} /\ step' = step
  <2>1. CASE r \in Range(committed) \cup held \cup Range(wq)
    BY <1>2, <2>1 DEF Drained
  <2>2. ASSUME NEW q \in Req, Admit(q) PROVE ~Reports(step', r)
    <3>1. Range(committed') = Range(committed) \cup {q} /\ UNCHANGED <<held, wq>> /\ q \in Unposted
      BY <1>a, <2>2, RangeAppend DEF Admit, Unposted
    <3> QED BY <1>b, <1>2, <2>1, <3>1
  <2>3. CASE NextRequest \/ Send
    <3>1. Range(committed') \cup held' \cup Range(wq') \subseteq Range(committed) \cup held \cup Range(wq)
      <4>1. CASE NextRequest /\ committed = <<>>
        BY <4>1 DEF NextRequest
      <4>2. CASE NextRequest /\ committed # <<>>
        <5>1. held' = {Head(committed)} /\ committed' = Tail(committed) /\ wq' = wq
          BY <4>2 DEF NextRequest
        <5> QED BY <1>a, <4>2, <5>1, RangeTail
      <4>3. CASE Send
        BY <1>a, <4>3, RangeAppend DEF Send
      <4> QED BY <2>3, <4>1, <4>2, <4>3
    <3> QED BY <2>1, <3>1
  <2>4. CASE ~(NextRequest \/ Send \/ \E q \in Req : Admit(q))
    <3>1. /\ committed' \in {committed, <<>>} /\ wq' \in {wq, <<>>} /\ held' = held
      BY <2>4, SMTT(30) DEF Next, AdmitPanic, Disconnect, WorkLoop, Reserve, ReserveClosed, NextRequestPanic,
         AddRequest, CompletionLoop, RecvStep, LoseStep, StreamEnded, DrainChannel, UpdateMetrics,
         ExitPanic, UnderflowPanic, PassGeneration, PassPanic, EndCycle, FaultPanic, TermPanic, EndLoop,
         Engine, EngineStep, EngineEnds, PostFails, Preempt, vars, workVars
    <3> QED BY <2>1, <3>1, SMTT(30) DEF Range
  <2> QED BY <2>2, <2>3, <2>4
<1>3. DrainChannel \/ (cq \in {"metrics", "pass"} /\ step' = step)
  BY DEF Next, Admit, AdmitPanic, Disconnect, WorkLoop, Reserve, ReserveClosed, NextRequest,
       NextRequestPanic, AddRequest, Send, CompletionLoop, RecvStep, LoseStep, StreamEnded, UpdateMetrics,
       ExitPanic, UnderflowPanic, PassGeneration, PassPanic, EndCycle, FaultPanic, TermPanic, EndLoop,
       Engine, EngineStep, EngineEnds, PostFails, Preempt, vars, loopVars
<1> QED BY <1>1, <1>2, <1>3

LEMMA VisibleStep ==
  ASSUME Struct, EngineTold, InTime, Kept', Drained', [Next]_vars
  PROVE  OutputVisible'
<1> SUFFICES ASSUME cq' = "metrics", NEW r \in Req \ Orphans, Reports(step', r)
             PROVE  eng'[r].err \/ r \in entries' \cup exents'
  BY DEF OutputVisible, Reported, Known, Reports
<1>0. eng[r].err => eng'[r].err
  BY EngineForward DEF EngineTold, Forward
<1>1. CASE DrainChannel
  <2>1. /\ cq = "drain" /\ step' = step /\ entries' = entries \cup Range(wq)
        /\ UNCHANGED <<committed, held, exents>>
    BY <1>1 DEF DrainChannel, workVars
  <2>2. eng[r].err \/ r \in InDriver
    BY <2>1 DEF InTime, Kept, Pending
  <2>3. r \notin Range(committed') \cup held'
    BY DEF Drained, Reports
  <2> QED BY <1>0, <2>1, <2>2, <2>3 DEF InDriver
<1>2. CASE ~DrainChannel
  <2>1. cq = "metrics" /\ UNCHANGED <<step, entries, exents>>
    BY <1>2 DEF Next, Admit, AdmitPanic, Disconnect, WorkLoop, Reserve, ReserveClosed, NextRequest,
         NextRequestPanic, AddRequest, Send, CompletionLoop, RecvStep, LoseStep, StreamEnded, UpdateMetrics,
         ExitPanic, UnderflowPanic, PassGeneration, PassPanic, EndCycle, FaultPanic, TermPanic, EndLoop,
         Engine, EngineStep, EngineEnds, PostFails, Preempt, vars, loopVars
  <2> QED BY <1>0, <2>1, SMTT(30) DEF InTime, OutputVisible, Reported, Known, Reports
<1> QED BY <1>1, <1>2

DeliveryInv == Struct /\ PhaseInv /\ EngineTold /\ InTime

LEMMA InitDelivery == Init => DeliveryInv
BY InitStruct, InitPhase, InitTold, InitInTime DEF DeliveryInv

LEMMA DeliveryStep == DeliveryInv /\ [Next]_vars => DeliveryInv'
<1> SUFFICES ASSUME DeliveryInv, [Next]_vars PROVE DeliveryInv'
  OBVIOUS
<1>1. Struct' /\ PhaseInv' /\ EngineTold'
  BY StructStep, PhaseStep, ToldStep DEF DeliveryInv
<1>2. Kept'
  BY <1>1, KeptStep DEF DeliveryInv, InTime
<1>3. Drained'
  BY DrainedStep DEF DeliveryInv, InTime
<1>4. OutputVisible'
  BY <1>2, <1>3, VisibleStep DEF DeliveryInv
<1> QED BY <1>1, <1>2, <1>3, <1>4 DEF DeliveryInv, InTime

(* "postcond: all requests in step output are visible to CQ": after the     *)
(* drain the loop knows every request the step reports, failed POSTs        *)
(* excepted, in every interleaving of the two loops and the engine.         *)
THEOREM OutputsVisible == Spec => []OutputVisible
<1>1. DeliveryInv => OutputVisible
  BY DEF DeliveryInv, InTime
<1> QED BY InitDelivery, DeliveryStep, <1>1, PTL DEF Spec

(* Only the engine's last word or a failed POST takes a slot back. *)
LEMMA ReleaseStep ==
  ASSUME DeliveryInv, [Next]_vars, Running', NEW r \in Live \ Live'
  PROVE  eng[r].err \/ eng[r].st \in {"done", "acked", "refused"}
<1>a. Struct /\ Live \subseteq Req
  BY LiveType DEF DeliveryInv, Struct
<1>b. Ends(step, r) => eng[r].st \in {"done", "acked"}
  BY <1>a DEF DeliveryInv, EngineTold, EndsLast, Over
<1>1. ASSUME NEW q \in Req, Admit(q) \/ Disconnect(q) \/ PassGeneration(q) PROVE FALSE
  BY <1>1, <1>a, AdmitLive, DisconnectLive, PassGenerationLive
<1>2. CASE WorkLoop \/ RecvStep \/ LoseStep \/ DrainChannel \/ Engine \/ UNCHANGED vars
  BY <1>2, <1>a, WorkLoopLive, IntakeLive, OtherLive
<1>3. CASE UpdateMetrics
  <2>1. r \in Released
    BY <1>3, <1>a, UpdateMetricsLive
  <2> QED BY <1>b, <2>1 DEF Released, Exiting, Finished, Ends
<1>4. CASE EndCycle
  <2>1. r \in Freed
    BY <1>4, <1>a, EndCycleLive
  <2>2. CASE r \in TermHeld
    BY <1>b, <2>2 DEF TermHeld, Ends
  <2>3. CASE r \in Dropped
    <3>1. exst[r] = "Faulted"
      BY <2>3 DEF Dropped, ExstPut
    <3> QED BY <1>a, <3>1 DEF DeliveryInv, EngineTold, ErrsTrue
  <2> QED BY <2>1, <2>2, <2>3 DEF Freed
<1> QED BY <1>1, <1>2, <1>3, <1>4, FailStops DEF Next, CompletionLoop

(* While the loop runs, the replica gives up a request's slot only once the *)
(* engine is done with it or its POST failed: an aborted request keeps its  *)
(* slot until the ACK.                                                      *)
THEOREM SlotsReleasedWhenDone == Spec => ReleasedOnlyWhenDone
<1>1. DeliveryInv /\ [Next]_vars =>
        [Running' => \A r \in Live \ Live' : eng[r].err \/ eng[r].st \in {"done", "acked", "refused"}]_vars
  BY ReleaseStep
<1> QED BY InitDelivery, DeliveryStep, <1>1, PTL DEF Spec, ReleasedOnlyWhenDone

-----------------------------------------------------------------------------
(* Tokens.  When no step output is lost on its way to the loop, the tokens  *)
(* of a waiting client's request are with the client, in the step being     *)
(* processed, or in flight.                                                 *)

Flight(r) == {i \in 1 .. Len(sse) : sse[i].outs[r].ntok = 1}
InFlight(r) == Cardinality(Flight(r))
InStep(r) == IF cq \in {"drain", "metrics"} \/ r \in todo THEN step.outs[r].ntok ELSE 0

Accounted ==
  cq # "dead" => \A r \in Req \ Orphans :
    client[r] \in {"new", "waiting"} => got[r] + InStep(r) + InFlight(r) = eng[r].toks

(* Nothing more is reported of a request whose client saw End. *)
Served ==
  \A r \in Req : client[r] = "End" =>
    /\ Over(r) /\ Silenced(r) /\ r \notin todo
    /\ cq \in {"drain", "metrics"} => ~Reports(step, r)

OrphansNew == \A r \in Orphans : client[r] = "new"

TokenInv == Accounted /\ Served /\ OrphansNew /\ DeliveredAll

LEMMA FlightType ==
  ASSUME TypeOK, NEW r \in Req
  PROVE  /\ IsFiniteSet(Flight(r)) /\ InFlight(r) \in Nat /\ step.outs[r].ntok \in Nat /\ InStep(r) \in Nat
         /\ Silenced(r) => InFlight(r) = 0
         /\ ~Reports(step, r) => step.outs[r].ntok = 0
<1>1. sse \in Seq(StepOutput) /\ step \in StepOutput /\ Len(sse) \in Nat
  BY LenProperties DEF TypeOK
<1>2. IsFiniteSet(Flight(r))
  <2>1. IsFiniteSet(1 .. Len(sse)) /\ Flight(r) \in SUBSET (1 .. Len(sse))
    BY <1>1, FS_Interval DEF Flight
  <2> QED BY <2>1, FS_Subset
<1>3. InFlight(r) \in Nat
  BY <1>2, FS_CardinalityType DEF InFlight
<1>4. step.outs[r].ntok \in Nat /\ (~Reports(step, r) => step.outs[r].ntok = 0)
  BY <1>1 DEF StepOutput, Output, Reports, Silent
<1>5. ASSUME Silenced(r) PROVE InFlight(r) = 0
  <2>1. Flight(r) = {}
    BY <1>5 DEF Flight, Silenced, Reports, Silent
  <2> QED BY <2>1, FS_EmptySet DEF InFlight
<1> QED BY <1>2, <1>3, <1>4, <1>5 DEF InStep

LEMMA FlightAppend ==
  ASSUME TypeOK, NEW m \in StepOutput, sse' = Append(sse, m), NEW r \in Req
  PROVE  InFlight(r)' = InFlight(r) + m.outs[r].ntok
<1>1. /\ Len(sse) \in Nat /\ Len(sse') = Len(sse) + 1 /\ sse'[Len(sse) + 1] = m
      /\ \A i \in 1 .. Len(sse) : sse'[i] = sse[i]
  BY SseAppend
<1>2. m.outs[r].ntok \in {0, 1}
  BY DEF StepOutput, Output
<1>3. IsFiniteSet(Flight(r)) /\ InFlight(r) \in Nat
  BY FlightType
<1>4. CASE m.outs[r].ntok = 1
  <2>1. Flight(r)' = Flight(r) \cup {Len(sse) + 1} /\ Len(sse) + 1 \notin Flight(r)
    BY <1>1, <1>4 DEF Flight
  <2> QED BY <1>3, <1>4, <2>1, FS_AddElement DEF InFlight
<1>5. CASE m.outs[r].ntok = 0
  <2>1. Flight(r)' = Flight(r)
    BY <1>1, <1>5 DEF Flight
  <2> QED BY <1>3, <1>5, <2>1 DEF InFlight
<1> QED BY <1>2, <1>4, <1>5

LEMMA FlightTail ==
  ASSUME TypeOK, sse # <<>>, sse' = Tail(sse), NEW r \in Req
  PROVE  InFlight(r) = InFlight(r)' + Head(sse).outs[r].ntok
<1>1. /\ Len(sse) \in Nat \ {0} /\ Len(sse') = Len(sse) - 1 /\ Head(sse) = sse[1]
      /\ \A i \in 1 .. Len(sse) - 1 : sse'[i] = sse[i + 1]
  BY SseTail
<1>2. sse[1].outs[r].ntok \in {0, 1}
  <2>1. sse \in Seq(StepOutput) /\ 1 \in 1 .. Len(sse)
    BY <1>1 DEF TypeOK
  <2>2. sse[1] \in StepOutput
    BY <2>1
  <2> QED BY <2>2 DEF StepOutput, Output
<1> DEFINE S == Flight(r) \ {1}
           T == Flight(r)'
           f == [i \in S |-> i - 1]
<1>3. IsFiniteSet(Flight(r)) /\ InFlight(r) \in Nat
  BY FlightType
<1>4. IsFiniteSet(S) /\ Cardinality(S) = IF 1 \in Flight(r) THEN InFlight(r) - 1 ELSE InFlight(r)
  BY <1>3, FS_RemoveElement DEF InFlight
<1>5. \A i \in S : i \in 2 .. Len(sse) /\ i - 1 \in T
  <2> SUFFICES ASSUME NEW i \in S PROVE i \in 2 .. Len(sse) /\ i - 1 \in T
    OBVIOUS
  <2>1. i \in 2 .. Len(sse) /\ sse[i].outs[r].ntok = 1
    BY DEF Flight
  <2>2. i - 1 \in 1 .. Len(sse) - 1 /\ (i - 1) + 1 = i
    BY <1>1, <2>1
  <2>3. sse'[i - 1] = sse[i]
    BY <1>1, <2>2
  <2> QED BY <1>1, <2>1, <2>2, <2>3 DEF Flight
<1>6. \A i \in T : i \in Nat /\ i + 1 \in S
  <2> SUFFICES ASSUME NEW i \in T PROVE i \in Nat /\ i + 1 \in S
    OBVIOUS
  <2>1. i \in 1 .. Len(sse) - 1 /\ sse'[i].outs[r].ntok = 1
    BY <1>1 DEF Flight
  <2>2. i + 1 \in 1 .. Len(sse) /\ i + 1 # 1 /\ sse[i + 1].outs[r].ntok = 1
    BY <1>1, <2>1
  <2> QED BY <2>1, <2>2 DEF Flight
<1>7. f \in Bijection(S, T)
  <2> HIDE DEF S, T
  <2>1. f \in [S -> T]
    BY <1>5
  <2>2. IsInjective(f)
    BY <1>5 DEF IsInjective
  <2>3. ASSUME NEW t \in T PROVE \E s \in S : f[s] = t
    <3>1. t + 1 \in S /\ f[t + 1] = t
      BY <1>6
    <3> QED BY <3>1
  <2> QED BY <2>1, <2>2, <2>3 DEF Bijection, Injection, Surjection
<1>8. Cardinality(T) = Cardinality(S)
  <2> HIDE DEF S, T, f
  <2>1. ExistsBijection(S, T)
    BY <1>7 DEF ExistsBijection
  <2> QED BY <1>4, <2>1, FS_Bijection
<1>9. 1 \in Flight(r) <=> sse[1].outs[r].ntok = 1
  BY <1>1 DEF Flight
<1> QED BY <1>1, <1>2, <1>3, <1>4, <1>8, <1>9 DEF InFlight

LEMMA InitTokens == Init => TokenInv
<1> SUFFICES ASSUME Init PROVE TokenInv
  OBVIOUS
<1>1. \A r \in Req : InFlight(r) = 0 /\ InStep(r) = 0
  <2> TAKE r \in Req
  <2>1. Silenced(r)
    BY DEF Init, Silenced
  <2> QED BY <2>1, InitType, FlightType DEF Init, InStep
<1> QED BY <1>1, ColocationAssumption DEF Init, TokenInv, Accounted, Served, OrphansNew, DeliveredAll

(* What a step does to the tokens of a request that waits for its answer. *)
LEMMA AccountedStep ==
  ASSUME "lose" \notin Env, DeliveryInv, ClientInv, TokenInv, [Next]_vars
  PROVE  Accounted'
<1> SUFFICES ASSUME cq' # "dead", NEW r \in Req \ Orphans, client'[r] \in {"new", "waiting"}
             PROVE  got'[r] + InStep(r)' + InFlight(r)' = eng'[r].toks
  BY DEF Accounted
<1>a. Struct /\ TypeOK /\ got \in [Req -> Nat] /\ eng \in [Req -> EngineRec]
  BY DEF DeliveryInv, Struct, TypeOK
<1>b. /\ InFlight(r) \in Nat /\ step.outs[r].ntok \in Nat /\ InStep(r) \in Nat
      /\ ~Reports(step, r) => step.outs[r].ntok = 0
  BY <1>a, FlightType
<1>c. client[r] \in {"new", "waiting"}
  BY <1>a, ClientMoves DEF ClientMoved
<1>d. cq # "dead"
  BY ZenonT(60) DEF Next, Admit, AdmitPanic, Disconnect, WorkLoop, Reserve, ReserveClosed, NextRequest,
       NextRequestPanic, AddRequest, Send, CompletionLoop, RecvStep, LoseStep, StreamEnded, DrainChannel, UpdateMetrics,
       ExitPanic, UnderflowPanic, PassGeneration, PassPanic, EndCycle, FaultPanic, TermPanic, EndLoop,
       Engine, EngineStep, EngineEnds, PostFails, Preempt, vars, loopVars
<1>e. got[r] + InStep(r) + InFlight(r) = eng[r].toks
  BY <1>c, <1>d DEF TokenInv, Accounted
<1>1. CASE RecvStep
  <2>1. /\ cq = "recv" /\ cq' = "drain" /\ sse # <<>> /\ step' = Head(sse) /\ sse' = Tail(sse)
        /\ UNCHANGED <<todo, eng, got>>
    BY <1>1 DEF RecvStep, clientVars
  <2>2. InFlight(r) = InFlight(r)' + Head(sse).outs[r].ntok
    BY <1>a, <2>1, FlightTail
  <2>3. InStep(r) = 0 /\ InStep(r)' = Head(sse).outs[r].ntok
    BY <1>a, <2>1 DEF InStep, Struct, LoopControl
  <2>4. InFlight(r)' \in Nat /\ Head(sse).outs[r].ntok \in Nat
    <3>1. Struct'
      BY StructStep, <1>a
    <3>2. TypeOK'
      BY <3>1 DEF Struct
    <3>3. sse' \in Seq(StepOutput) /\ step' \in StepOutput
      BY <3>2 DEF TypeOK
    <3>4. IsFiniteSet(Flight(r)')
      <4>1. Len(sse') \in Nat /\ IsFiniteSet(1 .. Len(sse')) /\ Flight(r)' \in SUBSET (1 .. Len(sse'))
        BY <3>3, LenProperties, FS_Interval DEF Flight
      <4> QED BY <4>1, FS_Subset
    <3> QED BY <2>1, <3>3, <3>4, FS_CardinalityType DEF InFlight, StepOutput, Output
  <2> QED BY <1>e, <1>a, <1>b, <2>1, <2>2, <2>3, <2>4
<1>2. CASE EngineStep
  <2>1. PICK T \in SUBSET Acknowledgeable, B \in SUBSET Active, m \in StepOutput : Tells(T, B, m)
    BY <1>2, <1>a, EngineTells
  <2>2. InFlight(r)' = InFlight(r) + m.outs[r].ntok /\ m.outs[r].ntok \in Nat
    BY <1>a, <2>1, FlightAppend DEF Tells, StepOutput, Output
  <2>3. eng'[r].toks = eng[r].toks + m.outs[r].ntok
    <3>1. eng[r].toks \in Nat
      BY <1>a DEF EngineRec
    <3>2. CASE r \in B
      BY <2>1, <3>2 DEF Tells
    <3>3. CASE r \notin B
      <4>1. m.outs[r].ntok = 0 /\ eng'[r] = IF r \in T THEN Moved(eng[r], "acked") ELSE eng[r]
        BY <2>1, <3>3 DEF Tells
      <4> QED BY <3>1, <4>1 DEF Moved
    <3> QED BY <3>2, <3>3
  <2>4. InStep(r)' = InStep(r) /\ got' = got
    BY <1>2 DEF EngineStep, loopVars, clientVars, InStep
  <2> QED BY <1>e, <1>a, <1>b, <2>2, <2>3, <2>4
<1>3. ASSUME NEW q \in Req, PassGeneration(q) PROVE got'[r] + InStep(r)' + InFlight(r)' = eng'[r].toks
  <2>1. /\ cq = "pass" /\ cq' = "pass" /\ q \in todo /\ todo' = todo \ {q} /\ UNCHANGED <<step, eng, sse>>
        /\ got' = [got EXCEPT ![q] = IF q \in entries THEN @ + Delivered(q) ELSE @]
    BY <1>3 DEF PassGeneration, engineVars
  <2>2. InFlight(r)' = InFlight(r)
    BY <2>1 DEF InFlight, Flight
  <2>3. CASE q # r
    BY <1>e, <1>a, <2>1, <2>2, <2>3 DEF InStep
  <2>4. CASE q = r
    <3>1. InStep(r) = step.outs[r].ntok /\ InStep(r)' = 0
      BY <2>1, <2>4 DEF InStep
    <3>2. Reports(step, r)
      BY <1>a, <2>1, <2>4 DEF Struct, LoopControl, Reported, Reports
    <3>3. client[r] = "waiting"
      <4> SUFFICES ASSUME client[r] = "new" PROVE FALSE
        BY <1>c
      <4>1. r \in Unposted
        BY DEF Unposted
      <4> QED BY <3>2, <4>1 DEF DeliveryInv, EngineTold, PostedOnce, IdleSilent
    <3>4. r \in entries
      <4>1. process = "up"
        BY <2>1 DEF Next, vars, loopVars
      <4>2. r \in Range(committed) \cup held \cup Range(wq) \cup entries
        BY <3>3, <4>1 DEF ClientInv, WaitingClientOwned
      <4> QED BY <2>1, <3>2, <4>2 DEF DeliveryInv, InTime, Drained
    <3>5. got'[r] = got[r] + step.outs[r].ntok
      BY <1>a, <2>1, <2>4, <3>3, <3>4 DEF Delivered
    <3> QED BY <1>a, <1>b, <1>e, <2>1, <2>2, <3>1, <3>5
  <2> QED BY <2>3, <2>4
<1>4. CASE AddRequest \/ \E q \in Req : PostFails(q) \/ Preempt(q)
  <2>1. eng'[r].toks = eng[r].toks
    BY <1>4, <1>a DEF AddRequest, PostFails, Preempt, Moved, Failed
  <2>2. UNCHANGED <<cq, step, todo, sse, got>>
    BY <1>4 DEF AddRequest, PostFails, Preempt, loopVars, clientVars
  <2> QED BY <1>e, <2>1, <2>2 DEF InStep, InFlight, Flight
<1>5. CASE DrainChannel \/ UpdateMetrics \/ EndCycle
  <2>1. UNCHANGED <<eng, sse, got>>
    BY <1>5 DEF DrainChannel, UpdateMetrics, EndCycle, engineVars, clientVars
  <2>2. InStep(r)' = InStep(r)
    <3>1. CASE DrainChannel
      BY <3>1 DEF DrainChannel, InStep
    <3>2. CASE UpdateMetrics
      BY <1>b, <3>2 DEF UpdateMetrics, InStep, Reported, Reports
    <3>3. CASE EndCycle
      BY <3>3 DEF EndCycle, InStep
    <3> QED BY <1>5, <3>1, <3>2, <3>3
  <2> QED BY <1>e, <2>1, <2>2 DEF InFlight, Flight
<1>6. CASE ~(\/ RecvStep \/ EngineStep \/ AddRequest \/ DrainChannel \/ UpdateMetrics \/ EndCycle
             \/ \E q \in Req : PassGeneration(q) \/ PostFails(q) \/ Preempt(q))
  <2>1. UNCHANGED <<cq, step, todo, sse, eng, got>>
    BY <1>6 DEF Next, Admit, AdmitPanic, Disconnect, WorkLoop, Reserve, ReserveClosed, NextRequest,
         NextRequestPanic, Send, CompletionLoop, LoseStep, StreamEnded, ExitPanic, UnderflowPanic, PassPanic,
         FaultPanic, TermPanic, EndLoop, Engine, EngineEnds, vars, loopVars, engineVars, clientVars
  <2> QED BY <1>e, <2>1 DEF InStep, InFlight, Flight
<1> QED BY <1>1, <1>2, <1>3, <1>4, <1>5, <1>6

(* A request whose client saw End stays over; one that comes to End is over *)
(* and has its tokens.                                                      *)
LEMMA ServedStep ==
  ASSUME "lose" \notin Env, DeliveryInv, DeliveryInv', ClientInv, TokenInv, Accounted', [Next]_vars
  PROVE  Served' /\ DeliveredAll'
<1> SUFFICES ASSUME NEW r \in Req, client'[r] = "End"
             PROVE  /\ Over(r)' /\ Silenced(r)' /\ r \notin todo' /\ got'[r] = eng'[r].toks
                    /\ cq' \in {"drain", "metrics"} => ~Reports(step', r)
  BY DEF Served, DeliveredAll, Reports
<1>a. Struct /\ TypeOK /\ got \in [Req -> Nat] /\ eng \in [Req -> EngineRec] /\ TypeOK'
  BY DEF DeliveryInv, Struct, TypeOK
<1>1. CASE client[r] = "End"
  <2>0. /\ Over(r) /\ Silenced(r) /\ r \notin todo /\ got[r] = eng[r].toks
        /\ cq \in {"drain", "metrics"} => ~Reports(step, r)
    BY <1>1 DEF TokenInv, Served, DeliveredAll
  <2>1. Over(r)'
    BY <2>0, EngineForward DEF DeliveryInv, EngineTold, Forward
  <2>2. Silenced(r)' /\ eng'[r].toks = eng[r].toks
    <3>1. CASE EngineStep
      <4>1. PICK T \in SUBSET Acknowledgeable, B \in SUBSET Active, m \in StepOutput : Tells(T, B, m)
        BY <3>1, <1>a, EngineTells
      <4>2. r \notin B
        BY <2>0 DEF Over, Active
      <4>3. ~Reports(m, r) /\ m \in StepOutput /\ sse' = Append(sse, m)
            /\ eng'[r] = IF r \in T THEN Moved(eng[r], "acked") ELSE eng[r]
        BY <4>1, <4>2 DEF Tells
      <4>4. \A i \in 1 .. Len(sse') : i \in 1 .. Len(sse) \/ i = Len(sse) + 1
        BY <1>a, <4>3, SseAppend
      <4> QED BY <1>a, <2>0, <4>3, <4>4, SseAppend DEF Silenced, Reports, Moved
    <3>2. CASE RecvStep \/ LoseStep
      <4>1. \A i \in 1 .. Len(sse') : i + 1 \in 1 .. Len(sse) /\ sse'[i] = sse[i + 1]
        BY <1>a, <3>2, SseTail DEF RecvStep, LoseStep
      <4> QED BY <2>0, <3>2, <4>1 DEF Silenced, Reports, RecvStep, LoseStep
    <3>3. ASSUME NEW q \in Req, PostFails(q) \/ Preempt(q) PROVE Silenced(r)' /\ eng'[r].toks = eng[r].toks
      BY <1>a, <2>0, <3>3 DEF PostFails, Preempt, Moved, Failed, Silenced, Reports
    <3>4. CASE AddRequest
      BY <1>a, <2>0, <3>4 DEF AddRequest, Moved, Silenced, Reports
    <3>5. CASE ~(\/ EngineStep \/ RecvStep \/ LoseStep \/ AddRequest \/ \E q \in Req : PostFails(q) \/ Preempt(q))
      <4>1. UNCHANGED <<eng, sse>>
        BY <3>5 DEF Next, Admit, AdmitPanic, Disconnect, WorkLoop, Reserve, ReserveClosed, NextRequest,
         NextRequestPanic, Send, CompletionLoop, StreamEnded, DrainChannel, UpdateMetrics,
         ExitPanic, UnderflowPanic, PassGeneration, PassPanic, EndCycle, FaultPanic, TermPanic, EndLoop,
         Engine, EngineEnds, vars, engineVars
      <4> QED BY <2>0, <4>1, SMTT(30) DEF Silenced, Reports
    <3> QED BY <3>1, <3>2, <3>3, <3>4, <3>5
  <2>3. r \notin todo' /\ got'[r] = got[r]
    <3>1. ASSUME NEW q \in Req, PassGeneration(q) PROVE r \notin todo' /\ got'[r] = got[r]
      BY <1>1, <1>a, <2>0, <3>1 DEF PassGeneration, Delivered
    <3>2. CASE UpdateMetrics
      BY <2>0, <3>2 DEF UpdateMetrics, Reported, Reports, clientVars
    <3>3. CASE ~(UpdateMetrics \/ \E q \in Req : PassGeneration(q))
      <4>1. got' = got /\ todo' \in {todo, {}}
        BY <3>3, ZenonT(60) DEF Next, Admit, AdmitPanic, Disconnect, WorkLoop, Reserve, ReserveClosed, NextRequest,
           NextRequestPanic, AddRequest, Send, CompletionLoop, RecvStep, LoseStep, StreamEnded, DrainChannel,
           ExitPanic, UnderflowPanic, PassPanic, EndCycle, FaultPanic, TermPanic, EndLoop,
           Engine, EngineStep, EngineEnds, PostFails, Preempt, vars, loopVars, clientVars
      <4> QED BY <2>0, <4>1
    <3> QED BY <3>1, <3>2, <3>3
  <2>4. ASSUME cq' \in {"drain", "metrics"} PROVE ~Reports(step', r)
    <3>1. CASE RecvStep
      <4>1. step' = sse[1] /\ 1 \in 1 .. Len(sse)
        BY <1>a, <3>1, SseTail DEF RecvStep
      <4> QED BY <2>0, <4>1 DEF Silenced
    <3>2. CASE ~RecvStep
      <4>1. cq \in {"drain", "metrics"} /\ step' = step
        BY <2>4, <3>2, ZenonT(60) DEF Next, Admit, AdmitPanic, Disconnect, WorkLoop, Reserve, ReserveClosed, NextRequest,
           NextRequestPanic, AddRequest, Send, CompletionLoop, LoseStep, StreamEnded, DrainChannel, UpdateMetrics,
           ExitPanic, UnderflowPanic, PassGeneration, PassPanic, EndCycle, FaultPanic, TermPanic, EndLoop,
           Engine, EngineStep, EngineEnds, PostFails, Preempt, vars, loopVars
      <4> QED BY <2>0, <4>1
    <3> QED BY <3>1, <3>2
  <2> QED BY <2>0, <2>1, <2>2, <2>3, <2>4
<1>2. CASE client[r] # "End"
  <2>1. client[r] = "waiting" /\ PassGeneration(r) /\ r \in entries /\ step.outs[r].fin
    BY <1>a, <1>2, ClientMoves DEF ClientMoved
  <2>2. /\ cq = "pass" /\ cq' = "pass" /\ r \in todo /\ todo' = todo \ {r} /\ UNCHANGED <<step, eng, sse>>
        /\ got'[r] = got[r] + step.outs[r].ntok
    BY <1>a, <2>1 DEF PassGeneration, engineVars, Delivered
  <2>3. Over(r) /\ Silenced(r)
    BY <2>1 DEF DeliveryInv, EngineTold, EndsLast, Ends
  <2>4. InFlight(r) = 0 /\ InStep(r) = step.outs[r].ntok /\ step.outs[r].ntok \in Nat
    BY <1>a, <2>2, <2>3, FlightType DEF InStep
  <2>5. r \notin Orphans
    BY <2>1 DEF TokenInv, OrphansNew
  <2>6. got[r] + InStep(r) + InFlight(r) = eng[r].toks
    BY <2>1, <2>2, <2>5 DEF TokenInv, Accounted
  <2> QED BY <1>a, <2>2, <2>3, <2>4, <2>6 DEF Over, Silenced, Reports
<1> QED BY <1>1, <1>2

LEMMA TokenStep ==
  ASSUME "lose" \notin Env, DeliveryInv, ClientInv, TokenInv, [Next]_vars
  PROVE  TokenInv'
<1>1. DeliveryInv' /\ Accounted'
  BY DeliveryStep, AccountedStep
<1>2. OrphansNew'
  BY ClientMoves, ColocationAssumption DEF ClientMoved, TokenInv, OrphansNew, DeliveryInv
<1> QED BY <1>1, <1>2, ServedStep DEF TokenInv

(* A client that saw End received every token the engine generated for it,  *)
(* as long as no step output is lost between the engine and the loop        *)
(* (recv_step failing on one); chunked prefills, preemptions, failed POSTs  *)
(* and disconnects of others make no difference.                            *)
THEOREM AllTokensDelivered == ASSUME "lose" \notin Env PROVE Spec => []DeliveredAll
<1>1. DeliveryInv /\ ClientInv /\ TokenInv /\ [Next]_vars => (DeliveryInv /\ ClientInv /\ TokenInv)'
  BY DeliveryStep, ClientStep, TokenStep DEF DeliveryInv
<1>2. TokenInv => DeliveredAll
  BY DEF TokenInv
<1> QED BY InitDelivery, InitClient, InitTokens, <1>1, <1>2, PTL DEF Spec

-----------------------------------------------------------------------------
(* The counters of tokens, where a request is prefilled once and whole      *)
(* (MaxChunks = 1: no chunks, and no second prefill after a preemption):    *)
(* the engine then reports PREFILL once per request and before any other    *)
(* output, and every output carries one token.                              *)

Prefill(m, r) == m.outs[r].state = "PREFILL"

(* Nothing of r has been counted, and the step at hand does not report it.  *)
Unheard(r) == gen[r] = 0 /\ (cq \in {"drain", "metrics"} => ~Reports(step, r))

PrefillFirst ==
  \A r \in Req \ Orphans :
    /\ eng[r].st # "prefill" /\ (eng[r].st = "decode" => eng[r].chunks > 0)
    /\ eng[r].st \in {"idle", "posted"} => Unheard(r) /\ Silenced(r)
    /\ \A i \in 1 .. Len(sse) : Prefill(sse[i], r) =>
         Unheard(r) /\ \A j \in 1 .. Len(sse) : j < i => ~Reports(sse[j], r)
    /\ cq \in {"drain", "metrics"} /\ Prefill(step, r) => gen[r] = 0

LEMMA InitFirst == Init => PrefillFirst
<1> SUFFICES ASSUME Init PROVE PrefillFirst
  OBVIOUS
<1>1. Len(sse) = 0 /\ cq = "recv" /\ \A r \in Req : gen[r] = 0
  BY DEF Init
<1>2. \A r \in Req \ Orphans : eng[r].st = "idle"
  BY DEF Init
<1> QED BY <1>1, <1>2 DEF PrefillFirst, Unheard, Silenced

(* With one output per prefill, what the engine reports of a request.       *)
LEMMA OneOutput ==
  ASSUME MaxChunks = 1, NEW T, NEW B \in SUBSET Active, NEW m, Tells(T, B, m), NEW r \in B, TypeOK
  PROVE  /\ m.outs[r].ntok = 1
         /\ IF eng[r].st = "decode" THEN m.outs[r].state = "DECODE" /\ eng'[r].chunks = eng[r].chunks
                                    ELSE m.outs[r].state = "PREFILL" /\ eng'[r].chunks = eng[r].chunks + 1
         /\ eng'[r].st \in {"done", "decode"} /\ (m.outs[r].fin \/ eng[r].toks + 1 # MaxTokens)
         /\ eng'[r].st = "decode" => ~m.outs[r].fin
<1>1. m.outs[r] \in NextOutputs(r) /\ eng'[r] = AfterOutput(eng[r], m.outs[r]) /\ r \in Req
  BY DEF Tells, Active
<1>2. eng[r].chunks \in Nat /\ eng[r].toks \in Nat
  BY <1>1 DEF TypeOK, EngineRec
<1>3. ~(eng[r].chunks + 1 < MaxChunks)
  BY <1>2
<1>4. m.outs[r].ntok = 1 /\ (m.outs[r].fin \/ eng[r].toks + 1 # MaxTokens)
      /\ m.outs[r].state = IF eng[r].st = "decode" THEN "DECODE" ELSE "PREFILL"
  <2> DEFINE last(n) == IF n = MaxTokens THEN {TRUE} ELSE BOOLEAN
  <2>1. \E f \in last(eng[r].toks + 1) :
          m.outs[r] = [state |-> IF eng[r].st = "decode" THEN "DECODE" ELSE "PREFILL", ntok |-> 1, fin |-> f]
    <3>1. CASE eng[r].st = "decode"
      BY <1>1, <3>1 DEF NextOutputs
    <3>2. CASE eng[r].st # "decode"
      BY <1>1, <1>3, <3>2 DEF NextOutputs
    <3> QED BY <3>1, <3>2
  <2>2. PICK f \in last(eng[r].toks + 1) :
          m.outs[r] = [state |-> IF eng[r].st = "decode" THEN "DECODE" ELSE "PREFILL", ntok |-> 1, fin |-> f]
    BY <2>1
  <2>3. f \/ eng[r].toks + 1 # MaxTokens
    OBVIOUS
  <2> QED BY <2>2, <2>3
<1> QED BY <1>1, <1>4 DEF AfterOutput

LEMMA FirstStep ==
  ASSUME MaxChunks = 1, DeliveryInv, PrefillFirst, [Next]_vars
  PROVE  PrefillFirst'
<1> SUFFICES ASSUME NEW r \in Req \ Orphans
             PROVE  /\ eng'[r].st # "prefill" /\ (eng'[r].st = "decode" => eng'[r].chunks > 0)
                    /\ eng'[r].st \in {"idle", "posted"} => Unheard(r)' /\ Silenced(r)'
                    /\ \A i \in 1 .. Len(sse') : Prefill(sse'[i], r) =>
                         Unheard(r)' /\ \A j \in 1 .. Len(sse') : j < i => ~Reports(sse'[j], r)
                    /\ cq' \in {"drain", "metrics"} /\ Prefill(step', r) => gen'[r] = 0
  BY DEF PrefillFirst, Reports, Prefill
<1>a. Struct /\ TypeOK /\ eng \in [Req -> EngineRec] /\ gen \in [Req -> Nat]
  BY DEF DeliveryInv, Struct, TypeOK
<1>b. /\ eng[r].st # "prefill" /\ (eng[r].st = "decode" => eng[r].chunks > 0)
      /\ eng[r].st \in {"idle", "posted"} => Unheard(r) /\ \A i \in 1 .. Len(sse) : ~Reports(sse[i], r)
      /\ \A i \in 1 .. Len(sse) : Prefill(sse[i], r) =>
            Unheard(r) /\ \A j \in 1 .. Len(sse) : j < i => ~Reports(sse[j], r)
      /\ cq \in {"drain", "metrics"} /\ Prefill(step, r) => gen[r] = 0
  BY DEF PrefillFirst, Silenced
<1>c. \A m : Prefill(m, r) => Reports(m, r)
  BY DEF Prefill, Reports, Silent
<1>1. CASE EngineStep
  <2>1. PICK T \in SUBSET Acknowledgeable, B \in SUBSET Active, m \in StepOutput : Tells(T, B, m)
    BY <1>1, <1>a, EngineTells
  <2>2. UNCHANGED <<cq, step, gen>>
    BY <1>1 DEF EngineStep, loopVars
  <2>3. Unheard(r)' <=> Unheard(r)
    BY <2>2 DEF Unheard, Reports
  <2>4. /\ Len(sse) \in Nat /\ Len(sse') = Len(sse) + 1 /\ sse'[Len(sse) + 1] = m
        /\ \A i \in 1 .. Len(sse) : sse'[i] = sse[i]
        /\ \A i \in 1 .. Len(sse') : i \in 1 .. Len(sse) \/ i = Len(sse) + 1
    <3>1. m \in StepOutput /\ sse' = Append(sse, m)
      BY <2>1 DEF Tells
    <3> QED BY <1>a, <3>1, SseAppend
  <2>5. CASE r \in B
    <3>1. /\ eng'[r].st \in {"done", "decode"}
          /\ IF eng[r].st = "decode" THEN m.outs[r].state = "DECODE" /\ eng'[r].chunks = eng[r].chunks
                                     ELSE m.outs[r].state = "PREFILL" /\ eng'[r].chunks = eng[r].chunks + 1
      BY <1>a, <2>1, <2>5, OneOutput
    <3>2. eng[r].st \in {"posted", "decode"} /\ eng[r].chunks \in Nat
      BY <1>a, <1>b, <2>5 DEF Active, EngineRec
    <3>3. eng'[r].st = "decode" => eng'[r].chunks > 0
      BY <1>b, <3>1, <3>2
    <3>4. Prefill(m, r) => eng[r].st = "posted"
      BY <3>1, <3>2 DEF Prefill
    <3> QED BY <1>b, <2>2, <2>3, <2>4, <3>1, <3>3, <3>4
  <2>6. CASE r \notin B
    <3>1. ~Reports(m, r) /\ eng'[r] = IF r \in T THEN Moved(eng[r], "acked") ELSE eng[r]
      BY <2>1, <2>6 DEF Tells
    <3>2. (eng'[r].st = eng[r].st /\ eng'[r].chunks = eng[r].chunks) \/ eng'[r].st = "acked"
      BY <3>1 DEF Moved
    <3>3. Silenced(r)' <=> \A i \in 1 .. Len(sse) : ~Reports(sse[i], r)
      BY <2>4, <3>1 DEF Silenced, Reports
    <3> QED BY <1>b, <1>c, <2>2, <2>3, <2>4, <3>1, <3>2, <3>3
  <2> QED BY <2>5, <2>6
<1>2. CASE RecvStep \/ LoseStep
  <2>1. /\ cq = "recv" /\ gen' = gen /\ eng' = eng
        /\ \/ cq' = "recv" \/ step' = sse[1]
        /\ 1 \in 1 .. Len(sse) /\ Len(sse) \in Nat
        /\ \A i \in 1 .. Len(sse') : i + 1 \in 1 .. Len(sse) /\ sse'[i] = sse[i + 1]
    BY <1>2, <1>a, SseTail DEF RecvStep, LoseStep, loopVars
  <2>2. ASSUME NEW i \in 1 .. Len(sse'), Prefill(sse'[i], r)
        PROVE  Unheard(r)' /\ \A j \in 1 .. Len(sse') : j < i => ~Reports(sse'[j], r)
    <3>1. Prefill(sse[i + 1], r) /\ i + 1 \in 1 .. Len(sse) /\ 1 < i + 1
      BY <2>1, <2>2
    <3>2. gen[r] = 0 /\ \A j \in 1 .. Len(sse) : j < i + 1 => ~Reports(sse[j], r)
      BY <1>b, <3>1 DEF Unheard
    <3>3. ~Reports(sse[1], r)
      BY <2>1, <3>1, <3>2
    <3>4. \A j \in 1 .. Len(sse') : j < i => ~Reports(sse'[j], r)
      <4> TAKE j \in 1 .. Len(sse')
      <4>1. j < i => j + 1 < i + 1
        OBVIOUS
      <4> QED BY <2>1, <3>2, <4>1
    <3> QED BY <2>1, <3>2, <3>3, <3>4 DEF Unheard, Reports
  <2>3. Prefill(sse[1], r) => gen[r] = 0
    BY <1>b, <2>1 DEF Unheard
  <2>4. eng[r].st \in {"idle", "posted"} => Unheard(r)' /\ Silenced(r)'
    BY <1>b, <2>1 DEF Unheard, Silenced, Reports
  <2> QED BY <1>b, <2>1, <2>2, <2>3, <2>4
<1>3. CASE UpdateMetrics
  <2>1. cq = "metrics" /\ cq' = "pass" /\ UNCHANGED <<eng, sse>>
        /\ gen' = [q \in Req |-> IF q \in Updated THEN gen[q] + 1 ELSE gen[q]]
    BY <1>3 DEF UpdateMetrics, engineVars
  <2>2. Unheard(r) => Unheard(r)'
    BY <2>1 DEF Unheard, Updated, Reported, Reports
  <2> QED BY <1>b, <2>1, <2>2 DEF Silenced
<1>4. CASE ~(EngineStep \/ RecvStep \/ LoseStep \/ UpdateMetrics)
  <2>1. UNCHANGED <<gen, sse>> /\ (cq' \in {"drain", "metrics"} => cq \in {"drain", "metrics"} /\ step' = step)
    BY <1>4, ZenonT(60) DEF Next, Admit, AdmitPanic, Disconnect, WorkLoop, Reserve, ReserveClosed, NextRequest, NextRequestPanic,
         AddRequest, Send, CompletionLoop, StreamEnded, DrainChannel, ExitPanic, UnderflowPanic, PassGeneration,
         PassPanic, EndCycle, FaultPanic, TermPanic, EndLoop, Engine, EngineEnds, PostFails, Preempt,
         vars, loopVars, engineVars
  <2>2. Unheard(r) => Unheard(r)'
    BY <2>1 DEF Unheard, Reports
  <2>3. /\ eng'[r].st # "prefill" /\ (eng'[r].st = "decode" => eng'[r].chunks > 0)
        /\ eng'[r].st \in {"idle", "posted"} => eng[r].st \in {"idle", "posted"}
    <3>1. CASE AddRequest
      <4>1. \A q \in held : eng[q].st = "idle"
        BY <1>a, <3>1, HeldUnposted DEF AddRequest, DeliveryInv, EngineTold, PostedOnce
      <4> QED BY <1>a, <1>b, <3>1, <4>1 DEF AddRequest, Moved
    <3>2. ASSUME NEW q \in Req, PostFails(q) \/ Preempt(q)
          PROVE  /\ eng'[r].st # "prefill" /\ (eng'[r].st = "decode" => eng'[r].chunks > 0)
                 /\ eng'[r].st \in {"idle", "posted"} => eng[r].st \in {"idle", "posted"}
      <4>1. eng[r].chunks \in Nat
        BY <1>a DEF EngineRec
      <4>2. Preempt(q) => q # r
        BY <1>b, <4>1 DEF Preempt
      <4> QED BY <1>a, <1>b, <3>2, <4>2 DEF PostFails, Preempt, Failed, Moved
    <3>3. CASE ~(AddRequest \/ \E q \in Req : PostFails(q) \/ Preempt(q))
      <4>1. eng' = eng
        BY <1>4, <3>3 DEF Next, Admit, AdmitPanic, Disconnect, WorkLoop, Reserve, ReserveClosed, NextRequest,
             NextRequestPanic, Send, CompletionLoop, StreamEnded, DrainChannel, ExitPanic, UnderflowPanic,
             PassGeneration, PassPanic, EndCycle, FaultPanic, TermPanic, EndLoop, Engine, EngineEnds, vars, engineVars
      <4> QED BY <1>b, <4>1
    <3> QED BY <3>1, <3>2, <3>3
  <2> QED BY <1>b, <2>1, <2>2, <2>3 DEF Silenced
<1> QED BY <1>1, <1>2, <1>3, <1>4

OneToken ==
  \A r \in Req : /\ Reports(step, r) => step.outs[r].ntok = 1
                 /\ \A i \in 1 .. Len(sse) : Reports(sse[i], r) => sse[i].outs[r].ntok = 1

LEMMA OneTokenStep ==
  ASSUME MaxChunks = 1, Struct, OneToken, [Next]_vars
  PROVE  OneToken'
<1> SUFFICES ASSUME NEW r \in Req
             PROVE  /\ Reports(step', r) => step'.outs[r].ntok = 1
                    /\ \A i \in 1 .. Len(sse') : Reports(sse'[i], r) => sse'[i].outs[r].ntok = 1
  BY DEF OneToken, Reports
<1>a. TypeOK
  BY DEF Struct
<1>b. /\ Reports(step, r) => step.outs[r].ntok = 1
      /\ \A i \in 1 .. Len(sse) : Reports(sse[i], r) => sse[i].outs[r].ntok = 1
  BY DEF OneToken
<1>1. CASE sse' = sse /\ step' \in {step, NoStep}
  BY <1>b, <1>1, NoStepSilent
<1>2. CASE RecvStep \/ (LoseStep /\ step' = step)
  <2>1. /\ 1 \in 1 .. Len(sse) /\ step' \in {step, sse[1]}
        /\ \A i \in 1 .. Len(sse') : i + 1 \in 1 .. Len(sse) /\ sse'[i] = sse[i + 1]
    BY <1>2, <1>a, SseTail DEF RecvStep, LoseStep
  <2> QED BY <1>b, <2>1
<1>3. CASE EngineStep /\ step' = step
  <2>1. PICK T \in SUBSET Acknowledgeable, B \in SUBSET Active, m \in StepOutput : Tells(T, B, m)
    BY <1>3, <1>a, EngineTells
  <2>2. m \in StepOutput /\ sse' = Append(sse, m) /\ (Reports(m, r) => m.outs[r].ntok = 1)
    BY <1>a, <2>1, OneOutput DEF Tells
  <2>3. \A i \in 1 .. Len(sse') : i \in 1 .. Len(sse) \/ i = Len(sse) + 1
    BY <1>a, <2>2, SseAppend
  <2> QED BY <1>a, <1>b, <1>3, <2>2, <2>3, SseAppend
<1> QED BY <1>1, <1>2, <1>3, StreamMoves

(* Every token the loop has counted or will count is one the engine         *)
(* generated, and the engine stops at MaxTokens.                            *)
Unread(r) == IF cq \in {"drain", "metrics"} THEN step.outs[r].ntok ELSE 0
GenBound ==
  \A r \in Req : /\ gen[r] + Unread(r) + InFlight(r) <= eng[r].toks /\ eng[r].toks <= MaxTokens
                 /\ eng[r].st \in {"idle", "posted", "prefill", "decode"} => eng[r].toks < MaxTokens

LEMMA GenBoundStep ==
  ASSUME MaxChunks = 1, Struct, PostedOnce, OneToken, GenBound, [Next]_vars
  PROVE  GenBound'
<1> SUFFICES ASSUME NEW r \in Req
             PROVE  /\ gen'[r] + Unread(r)' + InFlight(r)' <= eng'[r].toks /\ eng'[r].toks <= MaxTokens
                    /\ eng'[r].st \in {"idle", "posted", "prefill", "decode"} => eng'[r].toks < MaxTokens
  BY DEF GenBound
<1>a. TypeOK /\ eng \in [Req -> EngineRec] /\ gen \in [Req -> Nat] /\ TypeOK' /\ MaxTokens \in Nat
  BY StructStep, ColocationAssumption DEF Struct, TypeOK
<1>b. /\ gen[r] + Unread(r) + InFlight(r) <= eng[r].toks /\ eng[r].toks <= MaxTokens
      /\ eng[r].st \in {"idle", "posted", "prefill", "decode"} => eng[r].toks < MaxTokens
  BY DEF GenBound
<1>c. /\ gen[r] \in Nat /\ eng[r].toks \in Nat /\ InFlight(r) \in Nat
      /\ step.outs[r].ntok \in Nat /\ Unread(r) \in Nat
  BY <1>a, FlightType DEF Unread, EngineRec
<1>d. gen'[r] \in Nat /\ eng'[r].toks \in Nat
  BY <1>a DEF TypeOK, EngineRec
<1>1. CASE EngineStep
  <2>1. PICK T \in SUBSET Acknowledgeable, B \in SUBSET Active, m \in StepOutput : Tells(T, B, m)
    BY <1>1, <1>a, EngineTells
  <2>2. InFlight(r)' = InFlight(r) + m.outs[r].ntok /\ m.outs[r].ntok \in Nat
    BY <1>a, <2>1, FlightAppend DEF Tells, StepOutput, Output
  <2>3. Unread(r)' = Unread(r) /\ gen' = gen
    BY <1>1 DEF EngineStep, loopVars, Unread
  <2>4. CASE r \in B
    <3>1. /\ m.outs[r].ntok = 1 /\ (m.outs[r].fin \/ eng[r].toks + 1 # MaxTokens)
          /\ eng'[r].st \in {"done", "decode"} /\ (eng'[r].st = "decode" => ~m.outs[r].fin)
      BY <1>a, <2>1, <2>4, OneOutput
    <3>2. eng'[r].toks = eng[r].toks + m.outs[r].ntok
      BY <2>1, <2>4 DEF Tells
    <3>3. eng[r].toks < MaxTokens
      BY <1>b, <2>4 DEF Active
    <3>4. eng'[r].toks = eng[r].toks + 1 /\ eng'[r].toks <= MaxTokens
      BY <1>a, <1>c, <3>1, <3>2, <3>3
    <3>5. eng'[r].st = "decode" => eng'[r].toks < MaxTokens
      BY <1>a, <1>c, <3>1, <3>4
    <3>6. gen'[r] + Unread(r)' + InFlight(r)' <= eng'[r].toks
      BY <1>b, <1>c, <2>2, <2>3, <3>1, <3>4
    <3> QED BY <3>1, <3>4, <3>5, <3>6
  <2>5. CASE r \notin B
    <3>1. m.outs[r].ntok = 0 /\ eng'[r] = IF r \in T THEN Moved(eng[r], "acked") ELSE eng[r]
      BY <2>1, <2>5 DEF Tells
    <3>2. eng'[r].toks = eng[r].toks /\ eng'[r].st \in {eng[r].st, "acked"}
      BY <3>1 DEF Moved
    <3> QED BY <1>b, <1>c, <2>2, <2>3, <3>1, <3>2
  <2> QED BY <2>4, <2>5
<1>2. CASE RecvStep \/ LoseStep
  <2>1. /\ cq = "recv" /\ sse # <<>> /\ sse' = Tail(sse) /\ UNCHANGED <<gen, eng>>
        /\ cq' = "recv" \/ (cq' = "drain" /\ step' = Head(sse))
    BY <1>2 DEF RecvStep, LoseStep, loopVars
  <2>2. InFlight(r) = InFlight(r)' + Head(sse).outs[r].ntok
    BY <1>a, <2>1, FlightTail
  <2>3. IsFiniteSet(Flight(r)') /\ Head(sse).outs[r].ntok \in Nat
    <3>1. sse' \in Seq(StepOutput) /\ Len(sse') \in Nat
      BY <1>a, LenProperties DEF TypeOK
    <3>2. IsFiniteSet(1 .. Len(sse')) /\ Flight(r)' \in SUBSET (1 .. Len(sse'))
      BY <3>1, FS_Interval DEF Flight
    <3>3. Head(sse) \in StepOutput
      BY <1>a, <2>1, HeadTailProperties DEF TypeOK
    <3> QED BY <3>2, <3>3, FS_Subset DEF StepOutput, Output
  <2>4. InFlight(r)' \in Nat
    BY <2>3, FS_CardinalityType DEF InFlight
  <2>5. Unread(r) = 0 /\ (Unread(r)' = 0 \/ Unread(r)' = Head(sse).outs[r].ntok)
    BY <2>1 DEF Unread
  <2>6. gen'[r] = gen[r] /\ eng'[r] = eng[r]
    BY <2>1
  <2>7. Unread(r)' + InFlight(r)' <= InFlight(r) /\ Unread(r)' \in Nat
    BY <2>2, <2>3, <2>4, <2>5
  <2>8. gen'[r] + Unread(r)' + InFlight(r)' <= eng'[r].toks
    BY <1>b, <1>c, <2>4, <2>5, <2>6, <2>7
  <2> QED BY <1>b, <1>c, <2>6, <2>8
<1>3. CASE UpdateMetrics
  <2>1. cq = "metrics" /\ cq' = "pass" /\ UNCHANGED <<eng, sse>>
        /\ gen'[r] = IF r \in Updated THEN gen[r] + 1 ELSE gen[r]
    BY <1>3 DEF UpdateMetrics, engineVars
  <2>2. Unread(r) = step.outs[r].ntok /\ Unread(r)' = 0 /\ InFlight(r)' = InFlight(r)
    BY <2>1 DEF Unread, InFlight, Flight
  <2>3. r \in Updated => step.outs[r].ntok = 1
    BY DEF OneToken, Updated, Reported, Reports
  <2> QED BY <1>b, <1>c, <2>1, <2>2, <2>3
<1>4. CASE ~(EngineStep \/ RecvStep \/ LoseStep \/ UpdateMetrics)
  <2>1. UNCHANGED <<gen, sse>> /\ (cq' \in {"drain", "metrics"} => cq \in {"drain", "metrics"} /\ step' = step)
    BY <1>4, ZenonT(60) DEF Next, Admit, AdmitPanic, Disconnect, WorkLoop, Reserve, ReserveClosed, NextRequest, NextRequestPanic,
         AddRequest, Send, CompletionLoop, StreamEnded, DrainChannel, ExitPanic, UnderflowPanic, PassGeneration,
         PassPanic, EndCycle, FaultPanic, TermPanic, EndLoop, Engine, EngineEnds, PostFails, Preempt,
         vars, loopVars, engineVars
  <2>2. InFlight(r)' = InFlight(r) /\ (Unread(r)' = Unread(r) \/ Unread(r)' = 0)
    BY <2>1 DEF InFlight, Flight, Unread
  <2>3. /\ eng'[r].toks = eng[r].toks
        /\ eng'[r].st \in {"idle", "posted", "prefill", "decode"} =>
             eng[r].st \in {"idle", "posted", "prefill", "decode"}
    <3>1. CASE AddRequest
      <4>1. \A q \in held : eng[q].st = "idle"
        BY <1>a, <3>1, HeldUnposted DEF AddRequest, PostedOnce
      <4> QED BY <1>a, <3>1, <4>1 DEF AddRequest, Moved
    <3>2. ASSUME NEW q \in Req, PostFails(q) \/ Preempt(q)
          PROVE  /\ eng'[r].toks = eng[r].toks
                 /\ eng'[r].st \in {"idle", "posted", "prefill", "decode"} =>
                      eng[r].st \in {"idle", "posted", "prefill", "decode"}
      BY <1>a, <3>2 DEF PostFails, Preempt, Failed, Moved
    <3>3. CASE ~(AddRequest \/ \E q \in Req : PostFails(q) \/ Preempt(q))
      <4>1. eng' = eng
        BY <1>4, <3>3 DEF Next, Admit, AdmitPanic, Disconnect, WorkLoop, Reserve, ReserveClosed, NextRequest,
             NextRequestPanic, Send, CompletionLoop, StreamEnded, DrainChannel, ExitPanic, UnderflowPanic,
             PassGeneration, PassPanic, EndCycle, FaultPanic, TermPanic, EndLoop, Engine, EngineEnds, vars, engineVars
      <4> QED BY <4>1
    <3> QED BY <3>1, <3>2, <3>3
  <2> QED BY <1>b, <1>c, <2>1, <2>2, <2>3
<1> QED BY <1>1, <1>2, <1>3, <1>4

(* The sums of the model are sums of functions. *)
Tok == [r \in Req |-> TokensHeld(r)]
TokReleased == [r \in Req |-> TokensReleased(r)]
TokFreed == [r \in Req |-> TokensFreed(r)]

LEMMA HeldSum == ASSUME NEW S \in SUBSET Req PROVE MapThenSumSet(TokensHeld, S) = SumOver(Tok, S)
<1> DEFINE P(g) == g = [s \in SUBSET S |-> IF s = {} THEN 0 ELSE TokensHeld(Chosen(s)) + g[s \ {Chosen(s)}]]
           g0 == CHOOSE g : P(g)
<1>1. MapThenSumSet(TokensHeld, S) = g0[S]
  BY DEF MapThenSumSet, MapThenFoldSet, Chosen
<1>2. IsFiniteSet(S)
  BY ReqFinite
<1>3. \A s \in SUBSET S : s # {} => Tok[Chosen(s)] = TokensHeld(Chosen(s))
  BY DEF Chosen, Tok
<1>4. \E g : P(g)
  <2>1. PICK g : IsSum(g, Tok, S)
    BY <1>2, SumExists
  <2>2. P(g)
    BY <2>1, <1>3 DEF IsSum
  <2> QED BY <2>2
<1>5. P(g0)
  <2> HIDE DEF P
  <2> QED BY <1>4
<1>6. Sums(g0, Tok, S)
  <2> HIDE DEF g0
  <2> QED BY <1>3, <1>5 DEF Sums
<1> HIDE DEF g0
<1> QED BY <1>1, <1>2, <1>6, SumIs

LEMMA ReleasedSum == ASSUME NEW S \in SUBSET Req PROVE MapThenSumSet(TokensReleased, S) = SumOver(TokReleased, S)
<1> DEFINE P(g) == g = [s \in SUBSET S |-> IF s = {} THEN 0 ELSE TokensReleased(Chosen(s)) + g[s \ {Chosen(s)}]]
           g0 == CHOOSE g : P(g)
<1>1. MapThenSumSet(TokensReleased, S) = g0[S]
  BY DEF MapThenSumSet, MapThenFoldSet, Chosen
<1>2. IsFiniteSet(S)
  BY ReqFinite
<1>3. \A s \in SUBSET S : s # {} => TokReleased[Chosen(s)] = TokensReleased(Chosen(s))
  BY DEF Chosen, TokReleased
<1>4. \E g : P(g)
  <2>1. PICK g : IsSum(g, TokReleased, S)
    BY <1>2, SumExists
  <2>2. P(g)
    BY <2>1, <1>3 DEF IsSum
  <2> QED BY <2>2
<1>5. P(g0)
  <2> HIDE DEF P
  <2> QED BY <1>4
<1>6. Sums(g0, TokReleased, S)
  <2> HIDE DEF g0
  <2> QED BY <1>3, <1>5 DEF Sums
<1> HIDE DEF g0
<1> QED BY <1>1, <1>2, <1>6, SumIs

LEMMA FreedSum == ASSUME NEW S \in SUBSET Req PROVE MapThenSumSet(TokensFreed, S) = SumOver(TokFreed, S)
<1> DEFINE P(g) == g = [s \in SUBSET S |-> IF s = {} THEN 0 ELSE TokensFreed(Chosen(s)) + g[s \ {Chosen(s)}]]
           g0 == CHOOSE g : P(g)
<1>1. MapThenSumSet(TokensFreed, S) = g0[S]
  BY DEF MapThenSumSet, MapThenFoldSet, Chosen
<1>2. IsFiniteSet(S)
  BY ReqFinite
<1>3. \A s \in SUBSET S : s # {} => TokFreed[Chosen(s)] = TokensFreed(Chosen(s))
  BY DEF Chosen, TokFreed
<1>4. \E g : P(g)
  <2>1. PICK g : IsSum(g, TokFreed, S)
    BY <1>2, SumExists
  <2>2. P(g)
    BY <2>1, <1>3 DEF IsSum
  <2> QED BY <2>2
<1>5. P(g0)
  <2> HIDE DEF P
  <2> QED BY <1>4
<1>6. Sums(g0, TokFreed, S)
  <2> HIDE DEF g0
  <2> QED BY <1>3, <1>5 DEF Sums
<1> HIDE DEF g0
<1> QED BY <1>1, <1>2, <1>6, SumIs

(* usize holds the tokens of all requests at once. *)
NoWrap == Cardinality(Req) * (InputLen + MaxTokens) < UsizeMod

LEMMA TokBound ==
  ASSUME TypeOK, GenBound, NoWrap, NEW S \in SUBSET Req
  PROVE  /\ \A r \in Req : Tok[r] \in Nat /\ Tok[r] = InputLen + gen[r]
         /\ SumOver(Tok, S) \in Nat /\ SumOver(Tok, S) < UsizeMod
<1>1. InputLen \in Nat /\ MaxTokens \in Nat /\ UsizeMod \in Nat /\ IsFiniteSet(Req)
  BY ColocationAssumption
<1>2. \A r \in Req : gen[r] \in Nat /\ gen[r] <= MaxTokens
  <2> TAKE r \in Req
  <2>1. gen[r] \in Nat /\ Unread(r) \in Nat /\ InFlight(r) \in Nat /\ eng[r].toks \in Nat
    BY FlightType DEF Unread, TypeOK, EngineRec
  <2> QED BY <1>1, <2>1 DEF GenBound
<1>3. \A r \in Req : Tok[r] \in Nat /\ Tok[r] = InputLen + gen[r] /\ Tok[r] <= InputLen + MaxTokens
  BY <1>1, <1>2 DEF Tok, TokensHeld
<1>4. SumOver(Tok, S) \in Nat /\ SumOver(Tok, S) <= Cardinality(S) * (InputLen + MaxTokens)
  <2> DEFINE c == InputLen + MaxTokens
  <2>1. c \in Nat /\ IsFiniteSet(S) /\ \A x \in S : Tok[x] \in Nat /\ Tok[x] <= c
    BY <1>1, <1>3, ReqFinite
  <2> HIDE DEF c
  <2>2. SumOver(Tok, S) \in Nat /\ SumOver(Tok, S) <= Cardinality(S) * c
    BY <2>1, SumBound
  <2> QED BY <2>2 DEF c
<1>5. Cardinality(S) * (InputLen + MaxTokens) <= Cardinality(Req) * (InputLen + MaxTokens)
  <2>1. Cardinality(S) \in Nat /\ Cardinality(Req) \in Nat /\ Cardinality(S) <= Cardinality(Req)
    BY <1>1, ReqFinite, FS_Subset
  <2>2. \A a, b, c \in Nat : a <= b => a * c <= b * c
    OBVIOUS
  <2> QED BY <1>1, <2>1, <2>2
<1> QED BY <1>1, <1>3, <1>4, <1>5, ReqFinite DEF NoWrap

(* all_tokens, as long as the loop runs. *)
AllCounted == Running => lmetric.all = SumOver(Tok, Live)

CountInv == PrefillFirst /\ OneToken /\ GenBound /\ OrphansNew /\ AllCounted

LEMMA InitCount == Init => CountInv
<1> SUFFICES ASSUME Init PROVE CountInv
  OBVIOUS
<1>1. OneToken
  BY NoStepSilent DEF Init, OneToken
<1>2. GenBound
  <2> SUFFICES ASSUME NEW r \in Req
               PROVE  gen[r] + Unread(r) + InFlight(r) <= eng[r].toks /\ 0 = eng[r].toks
    BY ColocationAssumption DEF GenBound
  <2>1. Silenced(r)
    BY DEF Init, Silenced
  <2>2. InFlight(r) = 0
    BY <2>1, InitType, FlightType
  <2> QED BY <2>2 DEF Init, Unread
<1>3. OrphansNew
  BY ColocationAssumption DEF Init, OrphansNew
<1>4. AllCounted
  <2>1. SumOver(Tok, {}) = 0
    BY FS_EmptySet, SumRecursion
  <2> QED BY <2>1, InitBatch DEF Init, AllCounted
<1> QED BY <1>1, <1>2, <1>3, <1>4, InitFirst DEF CountInv

(* The generated tokens of a request not tracked as Updated stay. *)
LEMMA SameTokens ==
  ASSUME lmetric'.all = lmetric.all, gen' = gen, Live' = Live, Running' => Running, AllCounted
  PROVE  AllCounted'
<1>1. Tok' = Tok
  BY DEF Tok, TokensHeld
<1> QED BY <1>1 DEF AllCounted

LEMMA LiveNotOrphans == ASSUME Struct, OrphansNew PROVE Live \cap Orphans = {}
BY ColocationAssumption DEF Struct, NewUntouched, OrphansNew, Live

Fits == \A S \in SUBSET Req : SumOver(Tok, S) \in Nat /\ SumOver(Tok, S) < UsizeMod
LEMMA TokFits == NoWrap /\ TypeOK /\ GenBound => Fits
BY TokBound DEF Fits

LEMMA AdmitCounted ==
  ASSUME DeliveryInv, CountInv, NoWrap, NEW r \in Req, Admit(r)
  PROVE  AllCounted'
<1> SUFFICES ASSUME Running' PROVE lmetric'.all = SumOver(Tok, Live)'
  BY DEF AllCounted
<1>a. Struct /\ TypeOK
  BY DEF DeliveryInv, Struct
<1>1. r \notin Live /\ Live' = Live \cup {r} /\ Running
  BY <1>a, AdmitLive
<1>2. client[r] = "new" /\ r \notin Orphans /\ gen' = gen /\ lmetric'.all = (lmetric.all + InputLen) % UsizeMod
  BY DEF Admit, loopVars
<1>3. gen[r] = 0
  <2>1. eng[r].st = "idle"
    BY <1>2 DEF DeliveryInv, EngineTold, PostedOnce, Unposted
  <2> QED BY <1>2, <2>1 DEF CountInv, PrefillFirst, Unheard
<1>4. Tok' = Tok
  BY <1>2 DEF Tok, TokensHeld
<1>5. /\ Live \subseteq Req /\ Live \cup {r} \subseteq Req /\ IsFiniteSet(Live)
      /\ \A q \in Req : Tok[q] \in Nat /\ Tok[q] = InputLen + gen[q]
      /\ SumOver(Tok, Live) \in Nat /\ SumOver(Tok, Live \cup {r}) \in Nat /\ SumOver(Tok, Live \cup {r}) < UsizeMod
  BY <1>a, LiveType, TokBound DEF CountInv
<1>6. SumOver(Tok, Live \cup {r}) = Tok[r] + SumOver(Tok, Live)
  <2>1. r \notin Live /\ IsFiniteSet(Live) /\ \A q \in Live \cup {r} : Tok[q] \in Int
    BY <1>1, <1>5
  <2> QED BY <2>1, SumAdd
<1>7. InputLen \in Nat /\ UsizeMod \in Nat \ {0} /\ Tok[r] = InputLen
  BY <1>3, <1>5, ColocationAssumption
<1>8. lmetric.all = SumOver(Tok, Live)
  BY <1>1 DEF CountInv, AllCounted
<1>9. (lmetric.all + InputLen) % UsizeMod = SumOver(Tok, Live \cup {r})
  <2> DEFINE n == SumOver(Tok, Live \cup {r})
  <2>1. lmetric.all + InputLen = n /\ n \in Nat /\ n < UsizeMod
    BY <1>5, <1>6, <1>7, <1>8
  <2> HIDE DEF n
  <2>2. \A a \in Nat, b \in Nat \ {0} : a < b => a % b = a
    OBVIOUS
  <2>3. n % UsizeMod = n
    BY <1>7, <2>1, <2>2
  <2>4. (lmetric.all + InputLen) % UsizeMod = n
    BY <2>1, <2>3
  <2> QED BY <2>4 DEF n
<1> QED BY <1>1, <1>2, <1>4, <1>9

(* The fast path adds one token per updated request and takes off all those *)
(* of the released ones.                                                    *)
LEMMA UpdateCounted ==
  ASSUME DeliveryInv, CountInv, NoWrap, GenBound', TypeOK', UpdateMetrics
  PROVE  AllCounted'
<1> SUFFICES ASSUME Running' PROVE lmetric'.all = SumOver(Tok, Live)'
  BY DEF AllCounted
<1>a. Struct /\ TypeOK
  BY DEF DeliveryInv, Struct
<1>1. Released \subseteq Live /\ Live' = Live \ Released /\ Running
  BY <1>a, UpdateMetricsLive
<1>2. /\ cq = "metrics" /\ gen' = [r \in Req |-> IF r \in Updated THEN gen[r] + 1 ELSE gen[r]]
      /\ lmetric'.all = (lmetric.all + TokenDelta) % UsizeMod
  BY DEF UpdateMetrics
<1>3. /\ Live \subseteq Req /\ IsFiniteSet(Live) /\ IsFiniteSet(Live \ Released) /\ Released \subseteq Req
      /\ \A q \in Req : Tok[q] \in Nat /\ Tok[q] = InputLen + gen[q] /\ gen[q] \in Nat
      /\ SumOver(Tok, Live \ Released) \in Nat /\ SumOver(Tok, Released) \in Nat /\ IsFiniteSet(Released)
  <2>1. Live \subseteq Req /\ Live \ Released \subseteq Req /\ Released \subseteq Req
    BY <1>a, <1>1, LiveType
  <2> QED BY <1>a, <2>1, ReqFinite, TokBound DEF CountInv, TypeOK
<1>4. Updated \subseteq Live \ Released
  <2>1. todo = {}
    BY <1>a, <1>2 DEF Struct, LoopControl
  <2>2. Known \subseteq Live
    BY <2>1 DEF Known, Live, CountedOut
  <2> QED BY <2>2 DEF Updated, Released, Exiting
<1>5. {r \in Updated : step.outs[r].ntok = 1} = Updated
  BY DEF CountInv, OneToken, Updated, Reported, Reports
<1>6. \A r \in Released : TokReleased[r] = Tok[r]
  <2> SUFFICES ASSUME NEW r \in Released PROVE TokReleased[r] = Tok[r]
    OBVIOUS
  <2>1. r \in Req /\ r \notin Orphans
    BY <1>a, <1>1, <1>3, LiveNotOrphans DEF CountInv
  <2>2. step.outs[r].state = "PREFILL" => gen[r] = 0
    BY <1>2, <2>1 DEF CountInv, PrefillFirst, Prefill
  <2>3. InputLen \in Nat
    BY ColocationAssumption
  <2> QED BY <1>3, <2>1, <2>2, <2>3 DEF TokReleased, TokensReleased
<1>7. SumOver(TokReleased, Released) = SumOver(Tok, Released)
  BY <1>3, <1>6, SumEqual
<1>8. TokenDelta = Cardinality(Updated) - SumOver(Tok, Released)
  BY <1>3, <1>5, <1>7, ReleasedSum DEF TokenDelta
<1>9. SumOver(Tok, Live) = SumOver(Tok, Released) + SumOver(Tok, Live \ Released)
  <2>1. Released \in SUBSET Live /\ IsFiniteSet(Live) /\ \A q \in Live : Tok[q] \in Int
    BY <1>1, <1>3
  <2> QED BY <2>1, SumSplit
<1>10. SumOver(Tok', Live \ Released) = SumOver(Tok, Live \ Released) + Cardinality(Updated)
  <2>1. \A r \in Live \ Released : Tok[r] \in Int /\ Tok'[r] = IF r \in Updated THEN Tok[r] + 1 ELSE Tok[r]
    <3> SUFFICES ASSUME NEW r \in Live \ Released
                 PROVE  Tok[r] \in Int /\ Tok'[r] = IF r \in Updated THEN Tok[r] + 1 ELSE Tok[r]
      OBVIOUS
    <3>1. r \in Req /\ InputLen \in Nat
      BY <1>3, ColocationAssumption
    <3>2. Tok'[r] = InputLen + gen'[r]
      BY <3>1 DEF Tok, TokensHeld
    <3> QED BY <1>2, <1>3, <3>1, <3>2
  <2>2. (Live \ Released) \cap Updated = Updated
    BY <1>4
  <2>3. SumOver(Tok', Live \ Released) = SumOver(Tok, Live \ Released) + Cardinality((Live \ Released) \cap Updated)
    BY <1>3, <2>1, SumRaise
  <2> QED BY <2>2, <2>3
<1>11. SumOver(Tok', Live \ Released) \in Nat /\ SumOver(Tok', Live \ Released) < UsizeMod
  <2>1. Fits'
    BY TokFits, PTL
  <2> QED BY <1>3, <2>1 DEF Fits
<1>12. lmetric.all = SumOver(Tok, Live)
  BY <1>1 DEF CountInv, AllCounted
<1>13. Cardinality(Updated) \in Nat /\ UsizeMod \in Nat \ {0}
  BY <1>3, <1>4, FS_Subset, FS_CardinalityType, ColocationAssumption
<1>14. lmetric.all + TokenDelta = SumOver(Tok', Live \ Released)
  BY <1>3, <1>8, <1>9, <1>10, <1>12, <1>13
<1>15. \A a \in Nat, b \in Nat \ {0} : a < b => a % b = a
  OBVIOUS
<1>16. (lmetric.all + TokenDelta) % UsizeMod = SumOver(Tok', Live \ Released)
  BY <1>11, <1>13, <1>14, <1>15
<1> QED BY <1>1, <1>2, <1>16

(* The end of a cycle takes off the tokens of the requests it frees; they   *)
(* are counted, so the subtraction does not saturate.                       *)
LEMMA EndCycleCounted ==
  ASSUME DeliveryInv, CountInv, NoWrap, EndCycle
  PROVE  AllCounted'
<1> SUFFICES ASSUME Running' PROVE lmetric'.all = SumOver(Tok, Live)'
  BY DEF AllCounted
<1>a. Struct /\ TypeOK
  BY DEF DeliveryInv, Struct
<1>1. Freed \subseteq Live /\ Live' = Live \ Freed /\ Running
  BY <1>a, EndCycleLive
<1>2. /\ gen' = gen
      /\ lmetric'.all = IF Freed = {} THEN lmetric.all
                        ELSE Saturating(lmetric.all - MapThenSumSet(TokensFreed, Freed))
  BY DEF EndCycle
<1>3. /\ IsFiniteSet(Live) /\ IsFiniteSet(Freed) /\ Freed \in SUBSET Req
      /\ \A q \in Req : Tok[q] \in Nat
      /\ SumOver(Tok, Live \ Freed) \in Nat /\ SumOver(Tok, Freed) \in Nat
  <2>1. Live \subseteq Req /\ Live \ Freed \subseteq Req /\ Freed \subseteq Req
    BY <1>a, <1>1, LiveType
  <2> QED BY <1>a, <2>1, ReqFinite, TokBound DEF CountInv
<1>4. MapThenSumSet(TokensFreed, Freed) = SumOver(Tok, Freed)
  <2>1. \A q \in Freed : Tok[q] \in Int /\ TokFreed[q] = Tok[q]
    BY <1>3 DEF TokFreed, TokensFreed, Tok, TokensHeld
  <2>2. SumOver(TokFreed, Freed) = SumOver(Tok, Freed)
    BY <1>3, <2>1, SumEqual
  <2> QED BY <1>3, <2>2, FreedSum
<1>5. SumOver(Tok, Live) = SumOver(Tok, Freed) + SumOver(Tok, Live \ Freed)
  <2>1. Freed \in SUBSET Live /\ IsFiniteSet(Live) /\ \A q \in Live : Tok[q] \in Int
    BY <1>a, <1>1, <1>3, LiveType
  <2> QED BY <2>1, SumSplit
<1>6. lmetric.all = SumOver(Tok, Live)
  BY <1>1 DEF CountInv, AllCounted
<1>7. lmetric'.all = SumOver(Tok, Live \ Freed)
  <2>1. CASE Freed = {}
    BY <1>2, <1>6, <2>1
  <2>2. CASE Freed # {}
    <3>1. lmetric.all - MapThenSumSet(TokensFreed, Freed) = SumOver(Tok, Live \ Freed)
      BY <1>3, <1>4, <1>5, <1>6
    <3>2. lmetric'.all = Saturating(SumOver(Tok, Live \ Freed))
      BY <1>2, <2>2, <3>1
    <3> QED BY <1>3, <3>2, SaturatingNat
  <2> QED BY <2>1, <2>2
<1>8. Tok' = Tok
  BY <1>2 DEF Tok, TokensHeld
<1> QED BY <1>1, <1>7, <1>8

LEMMA CountStep ==
  ASSUME MaxChunks = 1, NoWrap, DeliveryInv, CountInv, [Next]_vars
  PROVE  CountInv'
<1>a. Struct /\ TypeOK' /\ PostedOnce
  BY DeliveryStep DEF DeliveryInv, Struct, EngineTold
<1>1. PrefillFirst' /\ OneToken' /\ GenBound'
  BY <1>a, FirstStep, OneTokenStep, GenBoundStep DEF CountInv
<1>2. OrphansNew'
  BY <1>a, ClientMoves, ColocationAssumption DEF ClientMoved, CountInv, OrphansNew
<1>3. AllCounted'
  <2> SUFFICES ASSUME Running' PROVE AllCounted'
    BY DEF AllCounted
  <2>1. ASSUME NEW r \in Req, Admit(r) PROVE AllCounted'
    BY <2>1, AdmitCounted
  <2>2. ASSUME NEW r \in Req, Disconnect(r) PROVE AllCounted'
    <3>1. UNCHANGED <<lmetric, gen>>
      BY <2>2 DEF Disconnect, loopVars
    <3> QED BY <2>2, <3>1, DisconnectLive, SameTokens DEF CountInv
  <2>3. CASE WorkLoop
    <3>1. gen' = gen
      BY <2>3 DEF WorkLoop, Reserve, ReserveClosed, NextRequest, NextRequestPanic, AddRequest, Send, loopVars
    <3> QED BY <1>a, <2>3, <3>1, WorkLoopLive, SameTokens DEF CountInv
  <2>4. CASE RecvStep \/ LoseStep \/ DrainChannel
    <3>1. gen' = gen
      BY <2>4 DEF RecvStep, LoseStep, DrainChannel, loopVars
    <3> QED BY <1>a, <2>4, <3>1, IntakeLive, SameTokens DEF CountInv
  <2>5. CASE UpdateMetrics
    BY <1>a, <1>1, <2>5, UpdateCounted
  <2>6. ASSUME NEW r \in Req, PassGeneration(r) PROVE AllCounted'
    <3>1. gen' = gen
      BY <2>6 DEF PassGeneration
    <3> QED BY <1>a, <2>6, <3>1, PassGenerationLive, SameTokens DEF CountInv
  <2>7. CASE EndCycle
    BY <2>7, EndCycleCounted
  <2>8. CASE Engine \/ UNCHANGED vars
    <3>1. gen' = gen
      BY <2>8 DEF Engine, EngineStep, EngineEnds, PostFails, Preempt, vars, loopVars
    <3> QED BY <2>8, <3>1, OtherLive, SameTokens DEF CountInv
  <2> QED BY <2>1, <2>2, <2>3, <2>4, <2>5, <2>6, <2>7, <2>8, FailStops DEF Next, CompletionLoop
<1> QED BY <1>1, <1>2, <1>3 DEF CountInv

LEMMA CountsAll == TypeOK /\ NoWrap /\ CountInv => AllTokensExact
<1> SUFFICES ASSUME TypeOK, NoWrap, CountInv, Running
             PROVE  lmetric.all = MapThenSumSet(TokensHeld, Live) % UsizeMod
  BY DEF AllTokensExact
<1>1. Live \in SUBSET Req
  BY LiveType
<1>2. SumOver(Tok, Live) \in Nat /\ SumOver(Tok, Live) < UsizeMod
  BY <1>1, TokBound DEF CountInv
<1>3. UsizeMod \in Nat \ {0} /\ \A a \in Nat, b \in Nat \ {0} : a < b => a % b = a
  BY ColocationAssumption
<1>4. SumOver(Tok, Live) % UsizeMod = SumOver(Tok, Live)
  BY <1>2, <1>3
<1> QED BY <1>1, <1>4, HeldSum DEF CountInv, AllCounted

(* all_tokens is the number of prompt and generated tokens of the requests  *)
(* the replica holds, with lost steps, failed POSTs, disconnects, aborts    *)
(* and orphans of an earlier process, where a request is prefilled once and *)
(* whole: UpdateMetrics counts an output of a prefill chunk in              *)
(* generated_token_cnt but no token of it, and releases a request that      *)
(* finishes with a second prefill without the tokens it had; both break the *)
(* equality.  Only requests that fit usize together are considered; the     *)
(* additions wrap in a release build.                                       *)
THEOREM TokensExact == ASSUME MaxChunks = 1, NoWrap PROVE Spec => []AllTokensExact
<1>1. DeliveryInv /\ CountInv /\ [Next]_vars => (DeliveryInv /\ CountInv)'
  BY DeliveryStep, CountStep
<1>2. DeliveryInv /\ CountInv => AllTokensExact
  BY CountsAll DEF DeliveryInv, Struct
<1> QED BY InitDelivery, InitCount, <1>1, <1>2, PTL DEF Spec

-----------------------------------------------------------------------------
(* The waiting requests, where moreover no step output is lost and no POST  *)
(* fails: the first output of a request the loop has not started is PREFILL *)
(* and still to come.                                                       *)

Ahead(r) == \/ cq \in {"drain", "metrics"} /\ Prefill(step, r)
            \/ \E i \in 1 .. Len(sse) : Prefill(sse[i], r)

PrefillAhead ==
  cq # "dead" => \A r \in Req \ Orphans :
    /\ Ahead(r) \/ eng[r].st = "posted" => r \in Unstarted
    /\ r \in Unstarted => Ahead(r) \/ eng[r].st \in {"idle", "posted"}

(* A client found gone has had its first output. *)
CancelStarted == \A r \in cancel : phases[r] # "Waiting"

NoFault == errs = {} /\ \A r \in Req : ~eng[r].err

StartedInv == PrefillAhead /\ CancelStarted /\ NoFault /\ WaitingExact

LEMMA InitStarted == Init => StartedInv
<1> SUFFICES ASSUME Init PROVE StartedInv
  OBVIOUS
<1>1. Unstarted = {}
  BY DEF Init, Unstarted, Range
<1>2. \A r \in Req \ Orphans : ~Ahead(r) /\ eng[r].st = "idle"
  BY DEF Init, Ahead
<1> QED BY <1>1, <1>2, FS_EmptySet DEF Init, StartedInv, PrefillAhead, CancelStarted, NoFault, WaitingExact

LEMMA NoFaultStep ==
  ASSUME Struct, NoFault, "refuse" \notin Env, "break" \notin Env, [Next]_vars
  PROVE  NoFault' /\ \A r \in Req : ~PostFails(r)
<1>a. eng \in [Req -> EngineRec]
  BY DEF Struct, TypeOK
<1>1. \A r \in Req : ~PostFails(r)
  BY DEF PostFails
<1>2. errs' = {}
  BY <1>1, ZenonT(60) DEF NoFault, Next, Admit, AdmitPanic, Disconnect, WorkLoop, Reserve, ReserveClosed, NextRequest,
       NextRequestPanic, AddRequest, Send, CompletionLoop, RecvStep, LoseStep, StreamEnded, DrainChannel, UpdateMetrics,
       ExitPanic, UnderflowPanic, PassGeneration, PassPanic, EndCycle, FaultPanic, TermPanic, EndLoop,
       Engine, EngineStep, EngineEnds, Preempt, vars
<1>3. \A r \in Req : ~eng'[r].err
  <2> TAKE r \in Req
  <2>1. CASE EngineStep
    <3>1. PICK T \in SUBSET Acknowledgeable, B \in SUBSET Active, m \in StepOutput : Tells(T, B, m)
      BY <2>1, EngineTells DEF Struct
    <3>2. CASE r \in B
      BY <3>1, <3>2 DEF Tells, NoFault
    <3>3. CASE r \notin B
      <4>1. eng'[r] = IF r \in T THEN Moved(eng[r], "acked") ELSE eng[r]
        BY <3>1, <3>3 DEF Tells
      <4> QED BY <4>1 DEF Moved, NoFault
    <3> QED BY <3>2, <3>3
  <2>2. CASE AddRequest \/ \E q \in Req : Preempt(q)
    BY <1>a, <2>2 DEF AddRequest, Preempt, Moved, NoFault
  <2>3. CASE ~(EngineStep \/ AddRequest \/ \E q \in Req : Preempt(q))
    <3>1. eng' = eng
      BY <1>1, <2>3, ZenonT(60) DEF Next, Admit, AdmitPanic, Disconnect, WorkLoop, Reserve, ReserveClosed, NextRequest,
         NextRequestPanic, Send, CompletionLoop, RecvStep, LoseStep, StreamEnded, DrainChannel, UpdateMetrics,
         ExitPanic, UnderflowPanic, PassGeneration, PassPanic, EndCycle, FaultPanic, TermPanic, EndLoop,
         Engine, EngineEnds, vars, engineVars
    <3> QED BY <3>1 DEF NoFault
  <2> QED BY <2>1, <2>2, <2>3
<1> QED BY <1>1, <1>2, <1>3 DEF NoFault

LEMMA CancelStartedStep ==
  ASSUME Struct, PhaseInv, CancelStarted, [Next]_vars
  PROVE  CancelStarted'
<1> SUFFICES ASSUME NEW r \in cancel' PROVE phases'[r] # "Waiting"
  BY DEF CancelStarted
<1>a. phases \in [Req -> Phase] /\ entries \subseteq Req /\ (cq # "pass" => cancel = {}) /\ cancel \subseteq Req
  BY DEF Struct, TypeOK, LoopControl
<1>1. ASSUME NEW q \in Req, PassGeneration(q) PROVE phases'[r] # "Waiting"
  <2>1. /\ cancel' = cancel \/ (q \in entries /\ ~step.outs[q].fin /\ cancel' = cancel \cup {q})
        /\ phases' = [phases EXCEPT ![q] =
             IF (q \in entries /\ step.outs[q].fin) \/ @ = "Untracked" THEN "Untracked"
             ELSE PhaseAfter(@, step.outs[q].state)]
    BY <1>1 DEF PassGeneration
  <2>2. phases'[q] # "Waiting"
    BY <1>a, <2>1 DEF PhaseAfter
  <2> QED BY <1>a, <2>1, <2>2 DEF CancelStarted
<1>2. CASE ~\E q \in Req : PassGeneration(q)
  <2>1. cancel' = {} \/ (cancel' = cancel /\ (phases' = phases \/ cq # "pass"))
    BY <1>2, ZenonT(60) DEF Next, Admit, AdmitPanic, Disconnect, WorkLoop, Reserve, ReserveClosed, NextRequest,
       NextRequestPanic, AddRequest, Send, CompletionLoop, RecvStep, LoseStep, StreamEnded, DrainChannel, UpdateMetrics,
       ExitPanic, UnderflowPanic, PassPanic, EndCycle, FaultPanic, TermPanic, EndLoop,
       Engine, EngineStep, EngineEnds, PostFails, Preempt, vars, loopVars
  <2> QED BY <1>a, <2>1 DEF CancelStarted
<1> QED BY <1>1, <1>2

(* What each action does to the requests the loop has not started.          *)
Queued == Range(committed) \cup held \cup Range(wq)

LEMMA QueuedMoves ==
  ASSUME Struct, WorkLoop, cq # "dead"
  PROVE  Queued' = Queued /\ UNCHANGED <<cq, step, todo, entries, phases, lmetric>>
<1>a. committed \in Seq(Req) /\ wq \in Seq(Req)
  BY DEF Struct, TypeOK
<1>1. UNCHANGED <<lmetric, cq, step, todo, entries, phases>> /\ ~ReserveClosed
  BY DEF WorkLoop, Reserve, ReserveClosed, NextRequest, NextRequestPanic, AddRequest, Send, loopVars
<1>2. CASE Reserve \/ NextRequestPanic \/ AddRequest
  BY <1>1, <1>2 DEF Reserve, NextRequestPanic, AddRequest, Queued
<1>3. CASE NextRequest /\ committed = <<>>
  BY <1>1, <1>3 DEF NextRequest, Queued
<1>4. CASE NextRequest /\ committed # <<>>
  <2>1. held' = {Head(committed)} /\ committed' = Tail(committed) /\ held = {} /\ wq' = wq
    BY <1>4 DEF NextRequest, Struct, LoopControl
  <2> QED BY <1>a, <1>1, <1>4, <2>1, RangeTail DEF Queued
<1>5. CASE Send
  <2>1. PICK r \in held : wq' = Append(wq, r)
    BY <1>5 DEF Send
  <2>2. held = {r} /\ r \in Req
    BY <2>1 DEF Struct, EntryInOnePlace, TypeOK
  <2>3. Range(wq') = Range(wq) \cup {r}
    BY <1>a, <2>1, <2>2, RangeAppend
  <2> QED BY <1>1, <1>5, <2>2, <2>3 DEF Send, Queued
<1> QED BY <1>1, <1>2, <1>3, <1>4, <1>5 DEF WorkLoop

LEMMA AdmitUnstarted ==
  ASSUME Struct, NEW r \in Req, Admit(r)
  PROVE  r \notin Unstarted /\ Unstarted' = Unstarted \cup {r}
<1>1. client[r] = "new" /\ UNCHANGED <<held, wq, cq, step, todo, entries, phases>>
  BY DEF Admit, loopVars
<1>2. Range(committed') = Range(committed) \cup {r}
  <2>1. committed \in Seq(Req) /\ committed' = Append(committed, r)
    BY DEF Admit, Struct, TypeOK
  <2> QED BY <2>1, RangeAppend
<1>3. r \notin Unstarted
  BY <1>1 DEF Struct, NewUntouched, Unstarted
<1> QED BY <1>1, <1>2, <1>3 DEF Unstarted

LEMMA AdmitPanicUnstarted ==
  ASSUME NEW r \in Req, AdmitPanic(r)
  PROVE  Unstarted' \subseteq Unstarted /\ Unstarted \subseteq Unstarted' \cup Range(committed)
<1>1. committed' = <<>> /\ UNCHANGED <<held, wq, cq, step, todo, entries, phases>>
  BY DEF AdmitPanic, loopVars
<1> QED BY <1>1 DEF Unstarted, Range

LEMMA WorkLoopUnstarted ==
  ASSUME Struct, WorkLoop, cq # "dead"
  PROVE  Unstarted' = Unstarted /\ UNCHANGED lmetric
BY QueuedMoves DEF Queued, Unstarted

LEMMA IntakeUnstarted ==
  ASSUME Struct, RecvStep \/ LoseStep \/ DrainChannel
  PROVE  Unstarted' = Unstarted /\ UNCHANGED lmetric
<1>a. OnePlace
  BY OnePlaceExplicit DEF Struct
<1>b. cq # "pass" => todo = {}
  BY DEF Struct, LoopControl
<1>1. CASE RecvStep \/ LoseStep
  <2>1. UNCHANGED <<committed, held, wq, todo, entries, phases, lmetric>>
    BY <1>1 DEF RecvStep, LoseStep, workVars, loopVars
  <2> QED BY <2>1 DEF Unstarted
<1>2. CASE DrainChannel
  <2>1. /\ cq = "drain" /\ wq' = <<>> /\ entries' = entries \cup Range(wq)
        /\ phases' = [r \in Req |-> IF r \in Range(wq) THEN "Waiting" ELSE phases[r]]
        /\ UNCHANGED <<committed, held, todo, lmetric>>
    BY <1>2 DEF DrainChannel, workVars
  <2>2. Range(wq') = {} /\ Range(wq) \subseteq Req /\ todo = {} /\ entries \subseteq Req
    BY <1>b, <2>1, RangeBasics DEF Struct, TypeOK, Range
  <2>3. {r \in entries' \ todo' : phases'[r] = "Waiting"}
          = Range(wq) \cup {r \in entries \ todo : phases[r] = "Waiting"}
    BY <1>a, <2>1, <2>2 DEF OnePlace, Apart
  <2> QED BY <2>1, <2>2, <2>3 DEF Unstarted
<1> QED BY <1>1, <1>2

LEMMA PassUnstarted ==
  ASSUME Struct, PhaseInv, NEW r \in Req, PassGeneration(r)
  PROVE  Unstarted' = Unstarted /\ UNCHANGED lmetric
<1>a. phases \in [Req -> Phase]
  BY DEF Struct, TypeOK
<1>1. /\ cq = "pass" /\ r \in todo /\ todo' = todo \ {r}
      /\ phases' = [phases EXCEPT ![r] =
           IF (r \in entries /\ step.outs[r].fin) \/ @ = "Untracked" THEN "Untracked"
           ELSE PhaseAfter(@, step.outs[r].state)]
      /\ entries' = entries \/ entries' = entries \ {r}
      /\ UNCHANGED <<committed, held, wq, lmetric>>
  BY DEF PassGeneration, workVars
<1>2. phases'[r] # "Waiting" /\ \A q \in Req : q # r => phases'[q] = phases[q]
  BY <1>a, <1>1 DEF PhaseAfter
<1>3. entries \subseteq Req
  BY DEF Struct, TypeOK
<1>4. {q \in entries' \ todo' : phases'[q] = "Waiting"} = {q \in entries \ todo : phases[q] = "Waiting"}
  BY <1>1, <1>2, <1>3
<1> QED BY <1>1, <1>4 DEF Unstarted

LEMMA EndCycleUnstarted ==
  ASSUME Struct, PhaseInv, EngineTold, CancelStarted, NoFault, EndCycle
  PROVE  Unstarted' = Unstarted /\ lmetric'.waiting = lmetric.waiting
<1>a. phases \in [Req -> Phase] /\ entries \subseteq Req /\ step.term \subseteq Req
  BY DEF Struct, TypeOK, StepOutput
<1>b. OnePlace
  BY OnePlaceExplicit DEF Struct
<1>1. /\ cq = "pass" /\ todo = {} /\ todo' = {} /\ TermPanics = {}
      /\ entries' = entries \ (cancel \cup Faulting)
      /\ phases' = [r \in Req |-> IF r \in step.term \cup Dropped THEN "Untracked"
                                  ELSE IF r \in cancel \cup Faulting THEN "Excepted" ELSE phases[r]]
      /\ UNCHANGED <<committed, held, wq>> /\ lmetric'.waiting = lmetric.waiting
  BY DEF EndCycle, workVars
<1>2. Faulting = {} /\ \A r \in Req : exst[r] \notin {"FaultedLive", "Faulted"}
  BY DEF NoFault, Faulting, EngineTold, ErrsTrue
<1>3. ASSUME NEW r \in entries \ cancel PROVE r \notin step.term \cup Dropped
  <2>1. exst[r] = "None" /\ r \in Req
    BY <1>a DEF PhaseInv, Before
  <2>2. ExstPut[r] = "None"
    BY <1>2, <2>1 DEF ExstPut
  <2>3. UnknownTerm = {}
    BY <1>1 DEF TermPanics
  <2> QED BY <2>2, <2>3 DEF UnknownTerm, Dropped
<1>4. {r \in entries' \ todo' : phases'[r] = "Waiting"} = {r \in entries \ todo : phases[r] = "Waiting"}
  <2>1. \A r \in entries \ cancel : phases'[r] = phases[r]
    BY <1>a, <1>1, <1>2, <1>3
  <2>2. \A r \in cancel : phases[r] # "Waiting"
    BY DEF CancelStarted
  <2> QED BY <1>1, <1>2, <2>1, <2>2
<1> QED BY <1>1, <1>4 DEF Unstarted

LEMMA OtherUnstarted ==
  ASSUME Engine \/ UNCHANGED vars \/ \E r \in Req : Disconnect(r)
  PROVE  Unstarted' = Unstarted /\ UNCHANGED lmetric
<1>1. UNCHANGED <<committed, held, wq, todo, entries, phases, lmetric>>
  BY DEF Engine, EngineStep, EngineEnds, PostFails, Preempt, Disconnect, vars, workVars, loopVars
<1> QED BY <1>1 DEF Unstarted

(* The fast path starts exactly the requests the step reports PREFILL.      *)
LEMMA UpdateUnstarted ==
  ASSUME DeliveryInv, PrefillFirst, PrefillAhead, OrphansNew, UpdateMetrics
  PROVE  /\ Prefills \subseteq Unstarted /\ Unstarted' = Unstarted \ Prefills
         /\ lmetric'.waiting = Saturating(lmetric.waiting - Cardinality(Prefills))
         /\ \A r \in Req \ Orphans : Prefill(step, r) /\ r \in Unstarted => r \in Prefills
<1>a. Struct /\ OnePlace /\ entries \subseteq Req /\ exents \subseteq Req /\ Range(committed) \subseteq Req
      /\ Range(wq) \subseteq Req /\ held \subseteq Req
  BY OnePlaceExplicit, RangeBasics DEF DeliveryInv, Struct, TypeOK
<1>1. /\ cq = "metrics" /\ cq' = "pass" /\ todo' = Reported(step) /\ todo = {}
      /\ lmetric'.waiting = Saturating(lmetric.waiting - Cardinality(Prefills))
      /\ UNCHANGED <<committed, held, wq, entries, phases>>
  BY <1>a DEF UpdateMetrics, workVars, Struct, LoopControl
<1>b. /\ \A r \in Range(committed) \cup held \cup Range(wq) : r \notin Reported(step)
      /\ entries \cap Orphans = {} /\ exents \cap Orphans = {}
  <2>1. \A r \in Range(committed) \cup held \cup Range(wq) : r \notin Reported(step)
    BY <1>1 DEF DeliveryInv, InTime, Drained, Reported, Reports
  <2>2. entries \cap Orphans = {} /\ exents \cap Orphans = {}
    BY <1>a, ColocationAssumption DEF Struct, NewUntouched, OrphansNew
  <2> QED BY <2>1, <2>2
<1>2. Prefills \subseteq Unstarted
  <2> SUFFICES ASSUME NEW r \in Prefills PROVE r \in Unstarted
    OBVIOUS
  <2>1. r \in Req \ Orphans /\ Prefill(step, r)
    BY <1>a, <1>b DEF Prefills, Reported, Known, Prefill
  <2> QED BY <1>1, <2>1 DEF PrefillAhead, Ahead
<1>3. \A r \in Req \ Orphans : Prefill(step, r) /\ r \in Unstarted => r \in Prefills
  <2> SUFFICES ASSUME NEW r \in Req \ Orphans, Prefill(step, r), r \in Unstarted PROVE r \in Prefills
    OBVIOUS
  <2>1. r \in Reported(step)
    BY DEF Prefill, Reported, Silent
  <2>2. r \in entries
    BY <1>b, <2>1 DEF Unstarted
  <2> QED BY <2>1, <2>2 DEF Prefills, Known, Prefill
<1>4. ASSUME NEW r \in Unstarted, r \in Reported(step) PROVE r \in Prefills
  <2>1. r \in entries /\ r \in Req \ Orphans
    BY <1>a, <1>b, <1>4 DEF Unstarted
  <2>2. Reports(step, r)
    BY <1>4 DEF Reported, Reports
  <2>3. Ahead(r) \/ eng[r].st \in {"idle", "posted"}
    BY <1>1, <2>1 DEF PrefillAhead
  <2>4. eng[r].st \notin {"idle", "posted"}
    BY <1>1, <2>1, <2>2 DEF PrefillFirst, Unheard
  <2>5. ~\E i \in 1 .. Len(sse) : Prefill(sse[i], r)
    BY <1>1, <2>1, <2>2 DEF PrefillFirst, Unheard
  <2> QED BY <1>3, <2>1, <2>3, <2>4, <2>5 DEF Ahead
<1>5. Unstarted' = Unstarted \ Prefills
  <2>1. Prefills \subseteq Reported(step)
    BY DEF Prefills
  <2>2. Unstarted' = Unstarted \ Reported(step)
    BY <1>1, <1>b DEF Unstarted
  <2> QED BY <1>4, <2>1, <2>2
<1> QED BY <1>1, <1>2, <1>3, <1>5

LEMMA AheadStep ==
  ASSUME MaxChunks = 1, "lose" \notin Env, "refuse" \notin Env, "break" \notin Env,
         DeliveryInv, PrefillFirst, OrphansNew, PrefillAhead, CancelStarted, NoFault, [Next]_vars
  PROVE  PrefillAhead'
<1> SUFFICES ASSUME cq' # "dead", NEW r \in Req \ Orphans
             PROVE  /\ Ahead(r)' \/ eng'[r].st = "posted" => r \in Unstarted'
                    /\ r \in Unstarted' => Ahead(r)' \/ eng'[r].st \in {"idle", "posted"}
  BY DEF PrefillAhead
<1>a. Struct /\ TypeOK /\ eng \in [Req -> EngineRec] /\ PhaseInv /\ EngineTold /\ PostedOnce /\ IdleSilent
  BY DEF DeliveryInv, Struct, TypeOK, EngineTold
<1>b. cq # "dead"
  BY ZenonT(60) DEF Next, Admit, AdmitPanic, Disconnect, WorkLoop, Reserve, ReserveClosed, NextRequest,
       NextRequestPanic, AddRequest, Send, CompletionLoop, RecvStep, LoseStep, StreamEnded, DrainChannel, UpdateMetrics,
       ExitPanic, UnderflowPanic, PassGeneration, PassPanic, EndCycle, FaultPanic, TermPanic, EndLoop,
       Engine, EngineStep, EngineEnds, PostFails, Preempt, vars, loopVars
<1>c. /\ Ahead(r) \/ eng[r].st = "posted" => r \in Unstarted
      /\ r \in Unstarted => Ahead(r) \/ eng[r].st \in {"idle", "posted"}
  BY <1>b DEF PrefillAhead
<1>d. \A m : Prefill(m, r) => Reports(m, r)
  BY DEF Prefill, Reports, Silent
<1>e. eng[r].st = "idle" => ~Ahead(r)
  BY <1>a, <1>d DEF IdleSilent, Silenced, Ahead
<1>f. r \in Unstarted => exst[r] = "None"
  BY <1>a DEF Unstarted, PhaseInv, Before
<1>1. ASSUME NEW q \in Req, Admit(q) \/ AdmitPanic(q)
      PROVE  /\ Ahead(r)' \/ eng'[r].st = "posted" => r \in Unstarted'
             /\ r \in Unstarted' => Ahead(r)' \/ eng'[r].st \in {"idle", "posted"}
  <2>1. UNCHANGED <<cq, step, sse, eng>> /\ client[q] = "new" /\ q \notin Orphans
    BY <1>1 DEF Admit, AdmitPanic, loopVars, engineVars
  <2>2. Ahead(r)' <=> Ahead(r)
    BY <2>1 DEF Ahead, Prefill
  <2>3. eng[q].st = "idle" /\ (r \in Range(committed) => eng[r].st = "idle")
    BY <1>a, <2>1 DEF PostedOnce, Unposted
  <2>4. /\ r \in Unstarted => r \in Unstarted' \/ r \in Range(committed)
        /\ r \in Unstarted' => r \in Unstarted \/ r = q
    BY <1>a, <1>1, AdmitUnstarted, AdmitPanicUnstarted
  <2> QED BY <1>c, <1>e, <2>1, <2>2, <2>3, <2>4
<1>2. CASE AddRequest
  <2>1. Unstarted' = Unstarted
    BY <1>a, <1>2, <1>b, WorkLoopUnstarted DEF WorkLoop
  <2>2. UNCHANGED <<cq, step, sse>>
    BY <1>2 DEF AddRequest, loopVars
  <2>3. Ahead(r)' <=> Ahead(r)
    BY <2>2 DEF Ahead, Prefill
  <2>4. r \in held => r \in Unstarted
    BY DEF Unstarted
  <2> QED BY <1>a, <1>2, <1>c, <2>1, <2>3, <2>4 DEF AddRequest, Moved
<1>3. CASE EngineStep
  <2>1. PICK T \in SUBSET Acknowledgeable, B \in SUBSET Active, m \in StepOutput : Tells(T, B, m)
    BY <1>3, <1>a, EngineTells
  <2>2. Unstarted' = Unstarted
    BY <1>3, OtherUnstarted DEF Engine
  <2>3. UNCHANGED <<cq, step>>
    BY <1>3 DEF EngineStep, loopVars
  <2>4. /\ Len(sse) \in Nat /\ Len(sse') = Len(sse) + 1 /\ sse'[Len(sse) + 1] = m
        /\ \A i \in 1 .. Len(sse) : sse'[i] = sse[i]
        /\ \A i \in 1 .. Len(sse') : i \in 1 .. Len(sse) \/ i = Len(sse) + 1
        /\ 1 .. Len(sse) \subseteq 1 .. Len(sse') /\ Len(sse) + 1 \in 1 .. Len(sse')
    <3>1. m \in StepOutput /\ sse' = Append(sse, m)
      BY <2>1 DEF Tells
    <3> QED BY <1>a, <3>1, SseAppend
  <2>5. Ahead(r)' <=> Ahead(r) \/ Prefill(m, r)
    BY <2>3, <2>4 DEF Ahead, Prefill
  <2>6. CASE r \in B
    <3>1. /\ eng'[r].st \in {"done", "decode"}
          /\ m.outs[r].state = IF eng[r].st = "decode" THEN "DECODE" ELSE "PREFILL"
      BY <1>a, <2>1, <2>6, OneOutput
    <3>2. eng[r].st \in {"posted", "decode"}
      BY <2>6 DEF Active, PrefillFirst
    <3> QED BY <1>c, <2>2, <2>5, <3>1, <3>2 DEF Prefill
  <2>7. CASE r \notin B
    <3>1. ~Prefill(m, r) /\ eng'[r] = IF r \in T THEN Moved(eng[r], "acked") ELSE eng[r]
      BY <1>d, <2>1, <2>7 DEF Tells
    <3>2. r \in Unstarted => r \notin T
      BY <1>f DEF Acknowledgeable
    <3> QED BY <1>c, <2>2, <2>5, <3>1, <3>2 DEF Moved
  <2> QED BY <2>6, <2>7
<1>4. CASE RecvStep
  <2>1. Unstarted' = Unstarted
    BY <1>a, <1>4, IntakeUnstarted
  <2>2. /\ cq = "recv" /\ cq' = "drain" /\ eng' = eng /\ step' = sse[1] /\ 1 \in 1 .. Len(sse)
        /\ Len(sse) \in Nat /\ Len(sse') = Len(sse) - 1
        /\ \A i \in 1 .. Len(sse') : i + 1 \in 1 .. Len(sse) /\ sse'[i] = sse[i + 1]
    BY <1>a, <1>4, SseTail DEF RecvStep
  <2>3. Ahead(r)' <=> Ahead(r)
    <3>1. Ahead(r)' => Ahead(r)
      BY <2>2 DEF Ahead, Prefill
    <3>2. ASSUME NEW i \in 1 .. Len(sse), Prefill(sse[i], r) PROVE Ahead(r)'
      <4>1. CASE i = 1
        BY <2>2, <3>2, <4>1 DEF Ahead, Prefill
      <4>2. CASE i # 1
        <5>1. i - 1 \in 1 .. Len(sse') /\ (i - 1) + 1 = i
          BY <2>2, <4>2
        <5>2. Prefill(sse'[i - 1], r)
          BY <2>2, <3>2, <5>1
        <5> QED BY <5>1, <5>2 DEF Ahead, Prefill
      <4> QED BY <4>1, <4>2
    <3>3. Ahead(r) => \E i \in 1 .. Len(sse) : Prefill(sse[i], r)
      BY <2>2 DEF Ahead
    <3> QED BY <3>1, <3>2, <3>3
  <2> QED BY <1>c, <2>1, <2>2, <2>3
<1>5. CASE UpdateMetrics
  <2>1. /\ Prefills \subseteq Unstarted /\ Unstarted' = Unstarted \ Prefills
        /\ Prefill(step, r) /\ r \in Unstarted => r \in Prefills
    BY <1>5, UpdateUnstarted
  <2>2. cq = "metrics" /\ cq' = "pass" /\ UNCHANGED <<eng, sse>>
    BY <1>5 DEF UpdateMetrics, engineVars
  <2>3. Ahead(r)' <=> \E i \in 1 .. Len(sse) : Prefill(sse[i], r)
    BY <2>2 DEF Ahead, Prefill
  <2>4. r \in Prefills => Prefill(step, r) /\ Reports(step, r)
    BY DEF Prefills, Prefill, Reported, Reports
  <2>5. r \in Prefills => ~(\E i \in 1 .. Len(sse) : Prefill(sse[i], r)) /\ eng[r].st \notin {"idle", "posted"}
    BY <2>2, <2>4 DEF PrefillFirst, Unheard
  <2>6. Ahead(r) <=> Prefill(step, r) \/ \E i \in 1 .. Len(sse) : Prefill(sse[i], r)
    BY <2>2 DEF Ahead
  <2> QED BY <1>c, <2>1, <2>2, <2>3, <2>5, <2>6
<1>6. CASE DrainChannel
  <2>1. Unstarted' = Unstarted
    BY <1>a, <1>6, IntakeUnstarted
  <2>2. cq = "drain" /\ cq' = "metrics" /\ UNCHANGED <<step, eng, sse>>
    BY <1>6 DEF DrainChannel, engineVars
  <2>3. Ahead(r)' <=> Ahead(r)
    BY <2>2 DEF Ahead, Prefill
  <2> QED BY <1>c, <2>1, <2>2, <2>3
<1>7. CASE EndCycle \/ \E q \in Req : PassGeneration(q)
  <2>1. Unstarted' = Unstarted
    BY <1>a, <1>7, EndCycleUnstarted, PassUnstarted
  <2>2. cq = "pass" /\ cq' \in {"pass", "recv"} /\ UNCHANGED <<eng, sse>>
    BY <1>7 DEF EndCycle, PassGeneration, engineVars
  <2>3. Ahead(r)' <=> Ahead(r)
    BY <2>2 DEF Ahead, Prefill
  <2> QED BY <1>c, <2>1, <2>2, <2>3
<1>8. CASE ~(\/ AddRequest \/ EngineStep \/ RecvStep \/ UpdateMetrics \/ DrainChannel \/ EndCycle
             \/ \E q \in Req : Admit(q) \/ AdmitPanic(q) \/ PassGeneration(q))
  <2>1. \A q \in Req : ~PostFails(q) /\ ~LoseStep
    BY <1>a, NoFaultStep DEF LoseStep
  <2>2. UNCHANGED <<cq, step, sse>> /\ eng'[r] = eng[r]
    <3>1. ASSUME NEW q \in Req, Preempt(q) PROVE UNCHANGED <<cq, step, sse>> /\ eng'[r] = eng[r]
      <4>1. eng[r].st = "decode" => eng[r].chunks > 0 /\ eng[r].chunks \in Nat
        BY <1>a DEF PrefillFirst, EngineRec
      <4>2. q # r
        BY <3>1, <4>1 DEF Preempt
      <4> QED BY <1>a, <3>1, <4>2 DEF Preempt, loopVars
    <3>2. CASE ~\E q \in Req : Preempt(q)
      BY <1>b, <1>8, <2>1, <3>2 DEF Next, Disconnect, WorkLoop, Reserve, ReserveClosed, NextRequest,
         NextRequestPanic, Send, CompletionLoop, StreamEnded, ExitPanic, UnderflowPanic, PassPanic, FaultPanic,
         TermPanic, EndLoop, Engine, EngineEnds, vars, loopVars, engineVars
    <3> QED BY <3>1, <3>2
  <2>3. Unstarted' = Unstarted
    <3>1. ~(StreamEnded \/ ExitPanic \/ UnderflowPanic \/ FaultPanic \/ TermPanic \/ \E q \in Req : PassPanic(q))
      BY DEF StreamEnded, ExitPanic, UnderflowPanic, FaultPanic, TermPanic, PassPanic, EndLoop
    <3> QED BY <1>a, <1>b, <1>8, <2>1, <3>1, WorkLoopUnstarted, OtherUnstarted DEF Next, CompletionLoop
  <2>4. Ahead(r)' <=> Ahead(r)
    BY <2>2 DEF Ahead, Prefill
  <2> QED BY <1>c, <2>2, <2>3, <2>4
<1> QED BY <1>1, <1>2, <1>3, <1>4, <1>5, <1>6, <1>7, <1>8

LEMMA UnstartedType == TypeOK => IsFiniteSet(Unstarted) /\ Cardinality(Unstarted) \in Nat
<1> SUFFICES ASSUME TypeOK PROVE Unstarted \subseteq Req
  BY ReqFinite
<1>1. Range(committed) \subseteq Req /\ Range(wq) \subseteq Req
  BY RangeBasics DEF TypeOK
<1> QED BY <1>1 DEF Unstarted, TypeOK

LEMMA WaitingStep ==
  ASSUME DeliveryInv, PrefillFirst, OrphansNew, PrefillAhead, CancelStarted, NoFault, WaitingExact, [Next]_vars
  PROVE  WaitingExact'
<1> SUFFICES ASSUME Running' PROVE lmetric'.waiting = Cardinality(Unstarted')
  BY DEF WaitingExact
<1>a. Struct /\ TypeOK /\ PhaseInv /\ EngineTold
  BY DEF DeliveryInv, Struct
<1>b. IsFiniteSet(Unstarted) /\ Cardinality(Unstarted) \in Nat
  BY <1>a, UnstartedType
<1>c. Running => lmetric.waiting = Cardinality(Unstarted)
  BY DEF WaitingExact
<1>1. ASSUME NEW r \in Req, Admit(r) PROVE lmetric'.waiting = Cardinality(Unstarted')
  <2>1. Running /\ lmetric'.waiting = lmetric.waiting + 1
    BY <1>a, <1>1, AdmitLive DEF Admit
  <2>2. Cardinality(Unstarted') = Cardinality(Unstarted) + 1
    BY <1>a, <1>b, <1>1, AdmitUnstarted, FS_AddElement
  <2> QED BY <1>c, <2>1, <2>2
<1>2. CASE WorkLoop
  <2>1. Running
    BY <1>a, <1>2, WorkLoopLive
  <2>2. cq # "dead"
    BY <2>1 DEF Running
  <2> QED BY <1>a, <1>c, <1>2, <2>1, <2>2, WorkLoopUnstarted
<1>3. CASE RecvStep \/ LoseStep \/ DrainChannel
  BY <1>a, <1>c, <1>3, IntakeLive, IntakeUnstarted
<1>4. CASE UpdateMetrics
  <2>1. Running
    BY <1>a, <1>4, UpdateMetricsLive
  <2>2. /\ Prefills \subseteq Unstarted /\ Unstarted' = Unstarted \ Prefills
        /\ lmetric'.waiting = Saturating(lmetric.waiting - Cardinality(Prefills))
    BY <1>4, UpdateUnstarted
  <2>3. IsFiniteSet(Unstarted \ Prefills)
        /\ Cardinality(Unstarted \ Prefills) = Cardinality(Unstarted) - Cardinality(Unstarted \cap Prefills)
    BY <1>b, <2>2, FS_Subset, FS_Difference
  <2>4. Unstarted \cap Prefills = Prefills
    BY <2>2
  <2>5. Cardinality(Unstarted') = Cardinality(Unstarted) - Cardinality(Prefills) /\ Cardinality(Unstarted') \in Nat
    BY <2>2, <2>3, <2>4, FS_CardinalityType
  <2>6. lmetric.waiting - Cardinality(Prefills) = Cardinality(Unstarted')
    BY <1>c, <2>1, <2>5
  <2> QED BY <2>2, <2>5, <2>6, SaturatingNat
<1>5. ASSUME NEW r \in Req, PassGeneration(r) PROVE lmetric'.waiting = Cardinality(Unstarted')
  BY <1>a, <1>c, <1>5, PassGenerationLive, PassUnstarted
<1>6. CASE EndCycle
  BY <1>a, <1>c, <1>6, EndCycleLive, EndCycleUnstarted
<1>7. CASE Engine \/ UNCHANGED vars
  BY <1>c, <1>7, OtherLive, OtherUnstarted
<1>8. ASSUME NEW r \in Req, Disconnect(r) PROVE lmetric'.waiting = Cardinality(Unstarted')
  BY <1>c, <1>8, DisconnectLive, OtherUnstarted
<1> QED BY <1>1, <1>2, <1>3, <1>4, <1>5, <1>6, <1>7, <1>8, FailStops DEF Next, CompletionLoop

(* waiting_reqs is the number of requests assigned but not started, with    *)
(* clients leaving, aborts acknowledged and the stream ending in any order, *)
(* where a request is prefilled once and whole, no step output is lost and  *)
(* no POST fails.  Each of these breaks it in the code: the decrement is    *)
(* made once per PREFILL output of a known request.                         *)
THEOREM WaitingIsExact ==
  ASSUME MaxChunks = 1, Env \cap {"lose", "refuse", "break"} = {}
  PROVE  Spec => []WaitingExact
<1> DEFINE Inv == DeliveryInv /\ PrefillFirst /\ OrphansNew /\ StartedInv
<1>1. Init => Inv
  BY InitDelivery, InitCount, InitStarted DEF CountInv
<1>2. Inv /\ [Next]_vars => Inv'
  <2> SUFFICES ASSUME Inv, [Next]_vars PROVE Inv'
    OBVIOUS
  <2>1. Struct /\ PhaseInv
    BY DEF DeliveryInv
  <2>2. DeliveryInv' /\ PrefillFirst'
    BY DeliveryStep, FirstStep
  <2>3. OrphansNew'
    BY <2>1, ClientMoves, ColocationAssumption DEF ClientMoved, OrphansNew
  <2>4. PrefillAhead'
    BY AheadStep DEF StartedInv
  <2>5. CancelStarted' /\ NoFault'
    BY <2>1, CancelStartedStep, NoFaultStep DEF StartedInv
  <2>6. WaitingExact'
    BY WaitingStep DEF StartedInv
  <2> QED BY <2>2, <2>3, <2>4, <2>5, <2>6 DEF StartedInv
<1>3. Inv => WaitingExact
  BY DEF StartedInv
<1> QED BY <1>1, <1>2, <1>3, PTL DEF Spec
=============================================================================

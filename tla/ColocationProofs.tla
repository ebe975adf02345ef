------------------------- MODULE ColocationProofs --------------------------
(***************************************************************************)
(* Theorems about Colocation, for every set of requests, every bound and   *)
(* every environment: type correctness, one place per entry, the exact     *)
(* batch size, and that no client is left behind.                          *)
(***************************************************************************)
EXTENDS Colocation, DataTheorems, FiniteSetTheorems, SequenceTheorems, TLAPS

-----------------------------------------------------------------------------
(* Type correctness. *)

LEMMA ReqFinite == \A S \in SUBSET Req : IsFiniteSet(S) /\ Cardinality(S) \in Nat
BY ColocationAssumption, FS_Subset, FS_CardinalityType

LEMMA SaturatingNat == \A n \in Int : Saturating(n) \in Nat /\ (n >= 0 => Saturating(n) = n)
BY DEF Saturating

(* Closing and answering move clients between the states a client can have. *)
LEMMA ClientType ==
  ASSUME NEW c \in [Req -> ClientSt], NEW S
  PROVE  Close(S, c) \in [Req -> ClientSt]
BY DEF Close, ClientSt

LEMMA AnsweredType == TypeOK => \A S : Answered(S) \in [Req -> ClientSt]
BY DEF TypeOK, Answered, ClientSt

LEMMA EndLoopType ==
  ASSUME TypeOK, NEW sites \in SUBSET PanicSite, NEW c \in [Req -> ClientSt],
         EndLoop(sites, c), lmetric'.bs \in Nat, lmetric'.waiting \in Nat, got' = got
  PROVE  TypeOK'
<1>1. NoStep \in StepOutput
  BY DEF NoStep, StepOutput, Silent, Output
<1>2. client' \in [Req -> ClientSt]
  BY ClientType DEF EndLoop
<1>3. step' \in StepOutput /\ process' \in {"up", "down"} /\ panics' \in SUBSET PanicSite
  BY <1>1 DEF EndLoop, TypeOK
<1>4. phases' \in [Req -> Phase] /\ exst' \in [Req -> ExtSt] /\ <<>> \in Seq(Req)
  BY DEF EndLoop, Phase, ExtSt
<1> QED BY <1>2, <1>3, <1>4 DEF EndLoop, TypeOK, workVars, engineVars

LEMMA InitType == Init => TypeOK
<1> SUFFICES ASSUME Init PROVE TypeOK
  OBVIOUS
<1>1. NoStep \in StepOutput
  BY DEF NoStep, StepOutput, Silent, Output
<1>2. <<>> \in Seq(Req) /\ <<>> \in Seq(StepOutput)
  OBVIOUS
<1>3. eng \in [Req -> EngineRec]
  BY DEF Init, EngineRec, EngineSt
<1> QED BY <1>1, <1>2, <1>3 DEF Init, TypeOK, Phase, ExtSt, ClientSt

LEMMA EngineRecType ==
  /\ \A e \in EngineRec : Failed(e) \in EngineRec /\ \A st \in EngineSt : Moved(e, st) \in EngineRec
  /\ \A e \in EngineRec : \A o \in Output : AfterOutput(e, o) \in EngineRec
BY SMTT(30) DEF EngineRec, Failed, Moved, AfterOutput, EngineSt, Output

LEMMA SchedulerType ==
  ASSUME TypeOK, NEW r \in Req, Admit(r) \/ AdmitPanic(r) \/ Disconnect(r)
  PROVE  TypeOK'
<1>1. CASE Admit(r)
  <2>1. committed' \in Seq(Req)
    BY <1>1, RangeAppend DEF Admit, TypeOK
  <2>2. client' \in [Req -> ClientSt]
    BY <1>1 DEF Admit, TypeOK, ClientSt
  <2>3. lmetric'.bs = lmetric.bs + 1 /\ lmetric'.waiting = lmetric.waiting + 1
    BY <1>1 DEF Admit
  <2>4. lmetric'.bs \in Nat /\ lmetric'.waiting \in Nat
    BY <2>3, SMTT(30) DEF TypeOK
  <2>5. UNCHANGED <<process, wl, held, wq, loopVars, errs, panics, engineVars, got>>
    BY <1>1 DEF Admit
  <2> QED BY <2>1, <2>2, <2>4, <2>5 DEF TypeOK, loopVars, engineVars
<1>2. CASE AdmitPanic(r)
  <2>1. client' \in [Req -> ClientSt]
    <3>1. Close(Range(committed), client) \in [Req -> ClientSt]
      BY ClientType DEF TypeOK
    <3> QED BY <1>2, <3>1 DEF AdmitPanic, ClientSt
  <2>2. lmetric'.bs \in Nat /\ lmetric'.waiting \in Nat
    <3>1. lmetric'.bs = lmetric.bs + 1 /\ lmetric'.waiting = lmetric.waiting + 1
      BY <1>2 DEF AdmitPanic
    <3> QED BY <3>1 DEF TypeOK
  <2>3. committed' \in Seq(Req) /\ panics' \in SUBSET PanicSite
    BY <1>2 DEF AdmitPanic, TypeOK, PanicSite
  <2> QED BY <1>2, <2>1, <2>2, <2>3 DEF AdmitPanic, TypeOK, loopVars, engineVars
<1>3. CASE Disconnect(r)
  <2>1. client' \in [Req -> ClientSt]
    BY <1>3 DEF Disconnect, TypeOK, ClientSt
  <2> QED BY <1>3, <2>1 DEF Disconnect, TypeOK, workVars, loopVars, engineVars
<1> QED BY <1>1, <1>2, <1>3

LEMMA WorkLoopType ==
  ASSUME TypeOK, WorkLoop
  PROVE  TypeOK'
<1>1. CASE Reserve
  BY <1>1 DEF Reserve, TypeOK, loopVars, engineVars, clientVars
<1>2. CASE ReserveClosed
  <2>1. client' \in [Req -> ClientSt]
    BY <1>2, ClientType DEF ReserveClosed, TypeOK
  <2>2. wq' \in Seq(Req) /\ panics' \in SUBSET PanicSite /\ process' \in {"up", "down"}
    BY <1>2 DEF ReserveClosed, TypeOK, PanicSite
  <2>3. wl' = "dead" /\ UNCHANGED <<lmetric, committed, held, loopVars, errs, engineVars, got>>
    BY <1>2 DEF ReserveClosed
  <2> QED BY <2>1, <2>2, <2>3 DEF TypeOK, loopVars, engineVars
<1>3. CASE NextRequest
  <2>1. committed' \in Seq(Req) /\ held' \in SUBSET Req /\ wl' \in {"reserve", "lock"}
    <3>1. committed \in Seq(Req) /\ held \in SUBSET Req
      BY DEF TypeOK
    <3>2. committed # <<>> => Head(committed) \in Req /\ Tail(committed) \in Seq(Req)
      BY <3>1, RangeTail
    <3> QED BY <1>3, <3>1, <3>2 DEF NextRequest
  <2>2. UNCHANGED <<process, lmetric, wq, loopVars, errs, panics, engineVars, clientVars>>
    BY <1>3 DEF NextRequest
  <2> QED BY <2>1, <2>2 DEF TypeOK, loopVars, engineVars, clientVars
<1>4. CASE NextRequestPanic
  <2>1. panics' \in SUBSET PanicSite
    BY <1>4 DEF NextRequestPanic, TypeOK, PanicSite
  <2> QED BY <1>4, <2>1 DEF NextRequestPanic, TypeOK, loopVars, engineVars, clientVars
<1>5. CASE AddRequest
  <2>1. eng' \in [Req -> EngineRec]
    BY <1>5, EngineRecType DEF AddRequest, TypeOK, EngineSt, EngineRec
  <2> QED BY <1>5, <2>1 DEF AddRequest, TypeOK, loopVars, clientVars
<1>6. CASE Send
  <2>1. wq' \in Seq(Req)
    BY <1>6, RangeAppend DEF Send, TypeOK
  <2> QED BY <1>6, <2>1 DEF Send, TypeOK, loopVars, engineVars, clientVars
<1> QED BY <1>1, <1>2, <1>3, <1>4, <1>5, <1>6 DEF WorkLoop

LEMMA EngineType ==
  ASSUME TypeOK, Engine
  PROVE  TypeOK'
<1>1. CASE EngineStep
  <2>1. PICK T \in SUBSET Acknowledgeable : \E B \in SUBSET (Active \ T) : \E o \in [B -> Output] :
          /\ \A r \in B : o[r] \in NextOutputs(r)
          /\ sse' = Append(sse, [outs |-> [r \in Req |-> IF r \in B THEN o[r] ELSE Silent],
                                 term |-> T])
          /\ eng' = [r \in Req |-> IF r \in B THEN AfterOutput(eng[r], o[r])
                                   ELSE IF r \in T THEN Moved(eng[r], "acked") ELSE eng[r]]
    BY <1>1, ZenonT(30) DEF EngineStep
  <2>2. PICK B \in SUBSET (Active \ T) : \E o \in [B -> Output] :
          /\ sse' = Append(sse, [outs |-> [r \in Req |-> IF r \in B THEN o[r] ELSE Silent],
                                 term |-> T])
          /\ eng' = [r \in Req |-> IF r \in B THEN AfterOutput(eng[r], o[r])
                                   ELSE IF r \in T THEN Moved(eng[r], "acked") ELSE eng[r]]
    BY <2>1
  <2>o. PICK o \in [B -> Output] :
          /\ sse' = Append(sse, [outs |-> [r \in Req |-> IF r \in B THEN o[r] ELSE Silent],
                                 term |-> T])
          /\ eng' = [r \in Req |-> IF r \in B THEN AfterOutput(eng[r], o[r])
                                   ELSE IF r \in T THEN Moved(eng[r], "acked") ELSE eng[r]]
    BY <2>2
  <2>3. [outs |-> [r \in Req |-> IF r \in B THEN o[r] ELSE Silent], term |-> T] \in StepOutput
    BY DEF StepOutput, Silent, Output, Acknowledgeable
  <2>4. sse' \in Seq(StepOutput)
    BY <2>o, <2>3, AppendProperties DEF TypeOK
  <2>6. eng' \in [Req -> EngineRec]
    BY <2>o, EngineRecType DEF TypeOK, EngineSt, EngineRec, Active
  <2> QED BY <1>1, <2>4, <2>6 DEF EngineStep, TypeOK, workVars, loopVars, clientVars
<1>2. CASE EngineEnds
  BY <1>2 DEF EngineEnds, TypeOK, workVars, loopVars, clientVars
<1>3. ASSUME NEW r \in Req, PostFails(r) PROVE TypeOK'
  <2>1. PICK e \in EngineRec : eng' = [eng EXCEPT ![r] = e]
    <3>1. eng[r] \in EngineRec /\ Failed(eng[r]) \in EngineRec
          /\ Failed(Moved(eng[r], "refused")) \in EngineRec
      BY EngineRecType DEF TypeOK, EngineSt
    <3>2. \/ eng' = [eng EXCEPT ![r] = Failed(Moved(eng[r], "refused"))]
          \/ eng' = [eng EXCEPT ![r] = Failed(eng[r])]
      BY <1>3 DEF PostFails
    <3> QED BY <3>1, <3>2
  <2>2. errs' \in SUBSET Req
    BY <1>3 DEF PostFails, TypeOK
  <2>3. UNCHANGED <<process, lmetric, workVars, wq, loopVars, panics, sse, stream, clientVars>>
    BY <1>3 DEF PostFails
  <2> QED BY <2>1, <2>2, <2>3 DEF TypeOK, workVars, loopVars, clientVars
<1>4. ASSUME NEW r \in Req, Preempt(r) PROVE TypeOK'
  <2>1. eng' \in [Req -> EngineRec]
    BY <1>4, EngineRecType DEF Preempt, TypeOK, EngineSt, EngineRec
  <2> QED BY <1>4, <2>1 DEF Preempt, TypeOK, workVars, loopVars, clientVars
<1> QED BY <1>1, <1>2, <1>3, <1>4 DEF Engine

LEMMA FastPathSets ==
  /\ Released \in SUBSET Req /\ Prefills \in SUBSET Req /\ Exiting \in SUBSET Req
  /\ Cardinality(Released) \in Nat /\ Cardinality(Prefills) \in Nat
<1>1. Released \in SUBSET Req /\ Prefills \in SUBSET Req /\ Exiting \in SUBSET Req
  BY DEF Released, Prefills, Exiting, Finished, Reported
<1> QED BY <1>1, ReqFinite

LEMMA EndOfCycleSets ==
  ASSUME TypeOK
  PROVE  /\ TermHeld \in SUBSET Req /\ Faulting \in SUBSET Req /\ Freed \in SUBSET Req
         /\ Cardinality(Freed) \in Nat
<1>1. TermHeld \in SUBSET Req /\ Faulting \in SUBSET Req /\ Dropped \in SUBSET Req
  BY DEF TermHeld, Faulting, Dropped, TypeOK, StepOutput
<1>2. Freed \in SUBSET Req
  BY <1>1 DEF Freed
<1> QED BY <1>1, <1>2, ReqFinite

LEMMA CompletionLoopType ==
  ASSUME TypeOK, CompletionLoop
  PROVE  TypeOK'
<1>1. CASE RecvStep
  <2>1. step' \in StepOutput /\ sse' \in Seq(StepOutput)
    <3>1. sse \in Seq(StepOutput) /\ sse # <<>>
      BY <1>1 DEF RecvStep, TypeOK
    <3> QED BY <1>1, <3>1, RangeTail DEF RecvStep
  <2> QED BY <1>1, <2>1 DEF RecvStep, TypeOK, workVars, clientVars
<1>2. CASE LoseStep
  <2>1. sse' \in Seq(StepOutput)
    <3>1. sse \in Seq(StepOutput) /\ sse # <<>>
      BY <1>2 DEF LoseStep, TypeOK
    <3> QED BY <1>2, <3>1, RangeTail DEF LoseStep
  <2> QED BY <1>2, <2>1 DEF LoseStep, TypeOK, workVars, loopVars, clientVars
<1>3. CASE StreamEnded
  BY <1>3, EndLoopType DEF StreamEnded, TypeOK
<1>4. CASE DrainChannel
  <2>1. Range(wq) \subseteq Req /\ <<>> \in Seq(Req)
    BY RangeBasics DEF TypeOK
  <2>2. entries' \in SUBSET Req /\ phases' \in [Req -> Phase]
    BY <1>4, <2>1 DEF DrainChannel, TypeOK, Phase
  <2>3. /\ cq' = "metrics" /\ wq' = <<>>
        /\ UNCHANGED <<process, lmetric, workVars, step, todo, gen, exents, exst, leaving, cancel,
                       errs, panics, engineVars, clientVars>>
    BY <1>4 DEF DrainChannel
  <2> QED BY <2>1, <2>2, <2>3 DEF TypeOK, workVars, engineVars, clientVars
<1>5. CASE UpdateMetrics
  <2>1. lmetric'.bs \in Nat /\ lmetric'.waiting \in Nat
    BY <1>5, FastPathSets, SaturatingNat, SMTT(30) DEF UpdateMetrics, TypeOK
  <2>2. gen' \in [Req -> Nat] /\ exst' \in [Req -> ExtSt]
    BY <1>5 DEF UpdateMetrics, TypeOK, ExtSt
  <2>3. todo' \in SUBSET Req /\ exents' \in SUBSET Req /\ leaving' \in SUBSET Req
    BY <1>5, FastPathSets DEF UpdateMetrics, TypeOK, Reported
  <2>4. cq' = "pass" /\ UNCHANGED <<process, workVars, wq, step, entries, phases, cancel,
                                    errs, panics, engineVars, clientVars>>
    BY <1>5 DEF UpdateMetrics
  <2> QED BY <2>1, <2>2, <2>3, <2>4 DEF TypeOK, workVars, engineVars, clientVars
<1>6. CASE ExitPanic
  BY <1>6, EndLoopType DEF ExitPanic, TypeOK, PanicSite
<1>7. CASE UnderflowPanic
  <2>1. lmetric'.bs \in Nat /\ lmetric'.waiting \in Nat
    <3> DEFINE b == lmetric.bs - Cardinality(Released)
               w == lmetric.waiting - Cardinality(Prefills)
    <3>1. b \in Int /\ w \in Int /\ lmetric.waiting \in Nat
      BY FastPathSets DEF TypeOK
    <3>2. b % UsizeMod \in Nat /\ w % UsizeMod \in Nat
      <4> HIDE DEF b, w
      <4> QED BY <3>1, ColocationAssumption
    <3>3. lmetric'.bs = b % UsizeMod /\ lmetric'.waiting \in {lmetric.waiting, w % UsizeMod}
      BY <1>7 DEF UnderflowPanic
    <3> QED BY <3>1, <3>2, <3>3
  <2> QED BY <1>7, <2>1, EndLoopType DEF UnderflowPanic, TypeOK, PanicSite
<1>8. ASSUME NEW r \in Req, PassGeneration(r) PROVE TypeOK'
  <2>1. phases' \in [Req -> Phase]
    BY <1>8 DEF PassGeneration, PhaseAfter, TypeOK, Phase
  <2>2. got' \in [Req -> Nat]
    <3>1. step.outs[r].ntok \in 0..1
      BY <1>8 DEF TypeOK, StepOutput, Output
    <3>2. Delivered(r) \in Nat
      BY <3>1 DEF Delivered
    <3> QED BY <1>8, <3>2, SMTT(30) DEF PassGeneration, TypeOK
  <2>3. /\ entries' \in SUBSET Req /\ cancel' \in SUBSET Req /\ todo' \in SUBSET Req
        /\ client' \in [Req -> ClientSt]
    BY <1>8 DEF PassGeneration, TypeOK, ClientSt
  <2>4. UNCHANGED <<process, lmetric, workVars, wq, cq, step, gen, exents, exst, leaving,
                    errs, panics, engineVars>>
    BY <1>8 DEF PassGeneration
  <2> QED BY <2>1, <2>2, <2>3, <2>4 DEF TypeOK, workVars, engineVars
<1>9. ASSUME NEW r \in Req, PassPanic(r) PROVE TypeOK'
  <2>1. PhasePanic(r) \in SUBSET PanicSite
    BY DEF PhasePanic, PanicSite
  <2> QED BY <1>9, <2>1, EndLoopType DEF PassPanic, TypeOK
<1>10. CASE EndCycle
  <2>1. lmetric'.bs \in Nat /\ lmetric'.waiting \in Nat
    BY <1>10, EndOfCycleSets, SaturatingNat DEF EndCycle, TypeOK
  <2>2. ExstPut \in [Req -> ExtSt]
    BY DEF ExstPut, TypeOK, ExtSt
  <2>3. exst' \in [Req -> ExtSt]
    BY <1>10, <2>2 DEF EndCycle, ExtSt
  <2>4. phases' \in [Req -> Phase]
    BY <1>10 DEF EndCycle, TypeOK, Phase
  <2>5. client' \in [Req -> ClientSt]
    BY <1>10, AnsweredType, ClientType DEF EndCycle
  <2>6. entries' \in SUBSET Req /\ exents' \in SUBSET Req /\ step' \in StepOutput
    <3>1. NoStep \in StepOutput
      BY DEF NoStep, StepOutput, Silent, Output
    <3> QED BY <1>10, <3>1, EndOfCycleSets DEF EndCycle, TypeOK
  <2>7. /\ cq' = "recv" /\ leaving' = {} /\ cancel' = {} /\ errs' = {}
        /\ UNCHANGED <<process, workVars, wq, todo, gen, panics, engineVars, got>>
    BY <1>10 DEF EndCycle
  <2> QED BY <2>1, <2>3, <2>4, <2>5, <2>6, <2>7 DEF TypeOK, workVars, engineVars
<1>11. CASE FaultPanic
  <2>1. PICK S \in SUBSET Faulting : EndLoop({"fault"}, Answered(S))
    BY <1>11 DEF FaultPanic
  <2>2. UNCHANGED <<lmetric, got>>
    BY <1>11 DEF FaultPanic
  <2>3. {"fault"} \in SUBSET PanicSite
    BY DEF PanicSite
  <2> QED BY <2>1, <2>2, <2>3, AnsweredType, EndLoopType DEF TypeOK
<1>12. CASE TermPanic
  <2>1. TermPanics \in SUBSET PanicSite
    BY DEF TermPanics, PanicSite
  <2> QED BY <1>12, <2>1, AnsweredType, EndLoopType DEF TermPanic, TypeOK
<1> QED BY <1>1, <1>2, <1>3, <1>4, <1>5, <1>6, <1>7, <1>8, <1>9, <1>10, <1>11, <1>12 DEF CompletionLoop

LEMMA TypeStep == TypeOK /\ [Next]_vars => TypeOK'
<1> SUFFICES ASSUME TypeOK, [Next]_vars PROVE TypeOK'
  OBVIOUS
<1>1. CASE Next
  BY <1>1, SchedulerType, WorkLoopType, CompletionLoopType, EngineType DEF Next
<1>2. CASE UNCHANGED vars
  BY <1>2 DEF vars, workVars, loopVars, engineVars, clientVars, TypeOK
<1> QED BY <1>1, <1>2

(* Every action keeps every variable of the driver in its type: the         *)
(* counters of a replica stay natural numbers, whatever the engine reports. *)
THEOREM TypeCorrect == Spec => []TypeOK
BY InitType, TypeStep, PTL DEF Spec

-----------------------------------------------------------------------------
(* One place per entry.  Struct is the part of the inductive invariant that *)
(* speaks of where requests are.                                            *)

Struct == TypeOK /\ EntryInOnePlace /\ LoopControl /\ NewUntouched /\ ExtAgree

Apart(c, h, w, e, x, l) ==
  /\ c \cap h = {} /\ c \cap w = {} /\ c \cap e = {} /\ c \cap x = {} /\ c \cap l = {}
  /\ h \cap w = {} /\ h \cap e = {} /\ h \cap x = {} /\ h \cap l = {}
  /\ w \cap e = {} /\ w \cap x = {} /\ w \cap l = {}
  /\ e \cap x = {} /\ e \cap l = {}
  /\ x \cap l = {}

OnePlace == /\ Apart(Range(committed), held, Range(wq), entries, exents, leaving)
            /\ IsInjective(committed) /\ IsInjective(wq) /\ \A q, r \in held : q = r

LEMMA TupleApart ==
  ASSUME NEW c, NEW h, NEW w, NEW e, NEW x, NEW l, NEW p, p = <<c, h, w, e, x, l>>
  PROVE  (\A i, j \in DOMAIN p : i # j => p[i] \cap p[j] = {}) <=> Apart(c, h, w, e, x, l)
<1>1. /\ DOMAIN p = 1 .. 6 /\ p[1] = c /\ p[2] = h /\ p[3] = w /\ p[4] = e /\ p[5] = x /\ p[6] = l
  OBVIOUS
<1>2. ASSUME \A i, j \in DOMAIN p : i # j => p[i] \cap p[j] = {} PROVE Apart(c, h, w, e, x, l)
  <2>1. \A i, j \in 1 .. 6 : i # j => p[i] \cap p[j] = {}
    BY <1>1, <1>2
  <2>2. /\ p[1] \cap p[2] = {} /\ p[1] \cap p[3] = {} /\ p[1] \cap p[4] = {} /\ p[1] \cap p[5] = {}
        /\ p[1] \cap p[6] = {} /\ p[2] \cap p[3] = {} /\ p[2] \cap p[4] = {} /\ p[2] \cap p[5] = {}
    BY <2>1
  <2>3. /\ p[2] \cap p[6] = {} /\ p[3] \cap p[4] = {} /\ p[3] \cap p[5] = {} /\ p[3] \cap p[6] = {}
        /\ p[4] \cap p[5] = {} /\ p[4] \cap p[6] = {} /\ p[5] \cap p[6] = {}
    BY <2>1
  <2> QED BY <1>1, <2>2, <2>3 DEF Apart
<1>3. ASSUME Apart(c, h, w, e, x, l), NEW i \in DOMAIN p, NEW j \in DOMAIN p, i # j
      PROVE  p[i] \cap p[j] = {}
  <2>1. i \in 1 .. 6 /\ j \in 1 .. 6
    BY <1>1, <1>3
  <2>2. /\ i \in {1, 2, 3, 4, 5, 6} /\ j \in {1, 2, 3, 4, 5, 6}
    BY <2>1
  <2> QED BY <1>1, <1>3, <2>2 DEF Apart
<1> QED BY <1>2, <1>3

LEMMA OnePlaceExplicit == (EntryInOnePlace <=> OnePlace) /\ (EntryInOnePlace' <=> OnePlace')
<1>1. EntryInOnePlace <=> OnePlace
  BY TupleApart DEF EntryInOnePlace, OnePlace, Places
<1>2. EntryInOnePlace' <=> OnePlace'
  BY TupleApart DEF EntryInOnePlace, OnePlace, Places
<1> QED BY <1>1, <1>2

LEMMA InitStruct == Init => Struct
<1> SUFFICES ASSUME Init PROVE Struct
  OBVIOUS
<1>1. Range(committed) = {} /\ Range(wq) = {} /\ IsInjective(committed) /\ IsInjective(wq)
  BY RangeBasics DEF Init, Range, IsInjective
<1>2. EntryInOnePlace
  BY <1>1, OnePlaceExplicit DEF Init, OnePlace, Apart
<1>3. LoopControl /\ NewUntouched /\ ExtAgree
  BY <1>1 DEF Init, LoopControl, NewUntouched, ExtAgree, ExtHeld, Reported
<1> QED BY <1>2, <1>3, InitType DEF Struct

(* The variables Struct depends on, beside those of TypeOK. *)
placeVars == <<committed, wl, held, wq, cq, step, todo, entries, exents, exst, leaving, cancel, client>>

LEMMA PlacesUnchanged ==
  ASSUME Struct, TypeOK', UNCHANGED placeVars
  PROVE  Struct'
BY DEF placeVars, Struct, EntryInOnePlace, Places, Range, IsInjective, LoopControl, NewUntouched, ExtAgree,
       Reported

(* Closing and answering never make a client new, or waiting. *)
LEMMA ClientFacts ==
  /\ \A S : \A c \in [Req -> ClientSt] : \A r \in Req :
       /\ Close(S, c)[r] = "new" => c[r] = "new"
       /\ Close(S, c)[r] = "waiting" => c[r] = "waiting" /\ r \notin S
  /\ TypeOK => \A S : \A r \in Req :
       /\ Answered(S)[r] = "new" => client[r] = "new"
       /\ Answered(S)[r] = "waiting" => client[r] = "waiting" /\ r \notin S
BY DEF Close, Answered, TypeOK

LEMMA EndLoopStruct ==
  ASSUME Struct, TypeOK', NEW sites, NEW c \in [Req -> ClientSt], EndLoop(sites, c),
         \A r \in Req : c[r] = "new" => client[r] = "new"
  PROVE  Struct'
<1>1. /\ UNCHANGED <<committed, wl, held>> /\ wq' = <<>> /\ entries' = {} /\ exents' = {}
      /\ leaving' = {} /\ cancel' = {} /\ todo' = {} /\ cq' = "dead"
      /\ exst' = [r \in Req |-> "None"]
  BY DEF EndLoop, workVars
<1>2. Range(wq') = {} /\ IsInjective(wq')
  BY <1>1 DEF Range, IsInjective
<1>3. EntryInOnePlace'
  <2>1. OnePlace
    BY OnePlaceExplicit DEF Struct
  <2>2. OnePlace'
    BY <1>1, <1>2, <2>1 DEF OnePlace, Apart
  <2> QED BY <2>2, OnePlaceExplicit
<1>4. LoopControl'
  BY <1>1 DEF Struct, LoopControl
<1>5. NewUntouched'
  <2>1. \A r \in Req : client'[r] = "new" => client[r] = "new"
    BY ClientFacts DEF EndLoop
  <2> QED BY <1>1, <1>2, <2>1 DEF Struct, NewUntouched
<1>6. ExtAgree'
  BY <1>1 DEF ExtAgree, ExtHeld
<1> QED BY <1>3, <1>4, <1>5, <1>6 DEF Struct

LEMMA SchedulerStruct ==
  ASSUME Struct, TypeOK', NEW r \in Req, Admit(r) \/ AdmitPanic(r) \/ Disconnect(r)
  PROVE  Struct'
<1>1. CASE Admit(r)
  <2>1. /\ client[r] = "new" /\ client' = [client EXCEPT ![r] = "waiting"]
        /\ committed' = Append(committed, r)
        /\ UNCHANGED <<wl, held, wq, cq, step, todo, entries, exents, exst, leaving, cancel>>
    BY <1>1 DEF Admit, loopVars
  <2>2. r \notin Range(committed) \cup held \cup Range(wq) \cup entries \cup exents \cup leaving
    BY <2>1 DEF Struct, NewUntouched
  <2>3. /\ Range(committed') = Range(committed) \cup {r}
        /\ IsInjective(committed) => IsInjective(committed')
    BY <2>1, <2>2, RangeAppend DEF Struct, TypeOK
  <2>4. EntryInOnePlace'
    <3>1. OnePlace
      BY OnePlaceExplicit DEF Struct
    <3>2. OnePlace'
      BY <2>1, <2>2, <2>3, <3>1 DEF OnePlace, Apart
    <3> QED BY <3>2, OnePlaceExplicit
  <2>5. NewUntouched'
    BY <2>1, <2>3 DEF Struct, NewUntouched, TypeOK
  <2>6. LoopControl' /\ ExtAgree'
    BY <2>1 DEF Struct, LoopControl, ExtAgree, Reported
  <2> QED BY <2>4, <2>5, <2>6 DEF Struct
<1>2. CASE AdmitPanic(r)
  <2>1. /\ committed' = <<>> /\ client' = [Close(Range(committed), client) EXCEPT ![r] = "Closed"]
        /\ UNCHANGED <<wl, held, wq, cq, step, todo, entries, exents, exst, leaving, cancel>>
    BY <1>2 DEF AdmitPanic, loopVars
  <2>2. Range(committed') = {} /\ IsInjective(committed')
    BY <2>1 DEF Range, IsInjective
  <2>3. EntryInOnePlace'
    <3>1. OnePlace
      BY OnePlaceExplicit DEF Struct
    <3>2. OnePlace'
      BY <2>1, <2>2, <3>1 DEF OnePlace, Apart
    <3> QED BY <3>2, OnePlaceExplicit
  <2>4. NewUntouched'
    <3>1. \A q \in Req : client'[q] = "new" => client[q] = "new"
      <4> DEFINE c == Close(Range(committed), client)
      <4>1. client \in [Req -> ClientSt] /\ c \in [Req -> ClientSt]
        BY ClientType DEF Struct, TypeOK
      <4>2. \A q \in Req : c[q] = "new" => client[q] = "new"
        BY <4>1, ClientFacts
      <4>3. client' = [c EXCEPT ![r] = "Closed"]
        BY <2>1
      <4> QED BY <4>1, <4>2, <4>3
    <3> QED BY <2>1, <2>2, <3>1 DEF Struct, NewUntouched
  <2>5. LoopControl' /\ ExtAgree'
    BY <2>1 DEF Struct, LoopControl, ExtAgree, Reported
  <2> QED BY <2>3, <2>4, <2>5 DEF Struct
<1>3. CASE Disconnect(r)
  <2>1. /\ client' = [client EXCEPT ![r] = "gone"]
        /\ UNCHANGED <<committed, wl, held, wq, cq, step, todo, entries, exents, exst, leaving, cancel>>
    BY <1>3 DEF Disconnect, workVars, loopVars
  <2>2. NewUntouched'
    BY <2>1 DEF Struct, NewUntouched, TypeOK
  <2>3. EntryInOnePlace' /\ LoopControl' /\ ExtAgree'
    BY <2>1 DEF Struct, EntryInOnePlace, Places, LoopControl, ExtAgree, Reported
  <2> QED BY <2>2, <2>3 DEF Struct
<1> QED BY <1>1, <1>2, <1>3

LEMMA WorkLoopStruct ==
  ASSUME Struct, TypeOK', WorkLoop
  PROVE  Struct'
<1>a. OnePlace
  BY OnePlaceExplicit DEF Struct
<1>1. CASE Reserve
  <2>1. /\ wl = "reserve" /\ wl' = "pull"
        /\ UNCHANGED <<committed, held, wq, cq, step, todo, entries, exents, exst, leaving, cancel, client>>
    BY <1>1 DEF Reserve, loopVars, clientVars
  <2>2. EntryInOnePlace' /\ NewUntouched' /\ ExtAgree'
    BY <2>1 DEF Struct, EntryInOnePlace, Places, NewUntouched, ExtAgree
  <2>3. LoopControl'
    BY <2>1 DEF Struct, LoopControl, Reported
  <2> QED BY <2>2, <2>3 DEF Struct
<1>2. CASE ReserveClosed
  <2>1. /\ wl = "reserve" /\ wl' = "dead" /\ wq' = <<>>
        /\ UNCHANGED <<committed, held, cq, step, todo, entries, exents, exst, leaving, cancel>>
    BY <1>2 DEF ReserveClosed, loopVars
  <2>2. Range(wq') = {} /\ IsInjective(wq')
    BY <2>1 DEF Range, IsInjective
  <2>3. OnePlace'
    BY <2>1, <2>2, <1>a DEF OnePlace, Apart
  <2>4. \A q \in Req : client'[q] = "new" => client[q] = "new"
    <3>1. client \in [Req -> ClientSt]
      BY DEF Struct, TypeOK
    <3>2. client' = Close(IF DebugBuild THEN Range(wq) ELSE Req, client)
      BY <1>2 DEF ReserveClosed
    <3> QED BY <3>1, <3>2, ClientFacts
  <2>5. NewUntouched' /\ ExtAgree'
    BY <2>1, <2>2, <2>4 DEF Struct, NewUntouched, ExtAgree
  <2>6. LoopControl'
    BY <2>1 DEF Struct, LoopControl, Reported
  <2> QED BY <2>3, <2>5, <2>6, OnePlaceExplicit DEF Struct
<1>3. CASE NextRequest
  <2>1. /\ wl = "pull"
        /\ UNCHANGED <<wq, cq, step, todo, entries, exents, exst, leaving, cancel, client>>
    BY <1>3 DEF NextRequest, loopVars, clientVars
  <2>2. held = {}
    BY <2>1 DEF Struct, LoopControl
  <2>3. CASE committed = <<>>
    <3>1. UNCHANGED <<committed, held>>
      BY <1>3, <2>3 DEF NextRequest
    <3>2. EntryInOnePlace' /\ NewUntouched' /\ ExtAgree'
      BY <2>1, <3>1 DEF Struct, EntryInOnePlace, Places, NewUntouched, ExtAgree
    <3>3. LoopControl'
      BY <2>1, <2>2, <3>1 DEF Struct, LoopControl, Reported
    <3> QED BY <3>2, <3>3 DEF Struct
  <2>4. CASE committed # <<>>
    <3>1. wl' = "lock" /\ held' = {Head(committed)} /\ committed' = Tail(committed)
      BY <1>3, <2>4 DEF NextRequest
    <3>2. /\ Range(committed) = Range(committed') \cup {Head(committed)}
          /\ IsInjective(committed) => IsInjective(committed') /\ Head(committed) \notin Range(committed')
      <4>1. committed \in Seq(Req)
        BY DEF Struct, TypeOK
      <4> QED BY <2>4, <3>1, <4>1, RangeTail
    <3>3. OnePlace'
      BY <2>1, <2>2, <3>1, <3>2, <1>a DEF OnePlace, Apart
    <3>4. NewUntouched' /\ ExtAgree'
      BY <2>1, <3>1, <3>2 DEF Struct, NewUntouched, ExtAgree
    <3>5. LoopControl'
      BY <2>1, <3>1 DEF Struct, LoopControl, Reported
    <3> QED BY <3>3, <3>4, <3>5, OnePlaceExplicit DEF Struct
  <2> QED BY <2>3, <2>4
<1>4. CASE NextRequestPanic
  <2>1. /\ wl = "pull"
        /\ UNCHANGED <<committed, held, wq, cq, step, todo, entries, exents, exst, leaving, cancel, client>>
    BY <1>4 DEF NextRequestPanic, loopVars, clientVars
  <2>2. EntryInOnePlace' /\ NewUntouched' /\ ExtAgree'
    BY <2>1 DEF Struct, EntryInOnePlace, Places, NewUntouched, ExtAgree
  <2>3. LoopControl'
    BY <2>1 DEF Struct, LoopControl, Reported
  <2> QED BY <2>2, <2>3 DEF Struct
<1>5. CASE AddRequest
  <2>1. /\ wl' = "send"
        /\ UNCHANGED <<committed, held, wq, cq, step, todo, entries, exents, exst, leaving, cancel, client>>
    BY <1>5 DEF AddRequest, loopVars, clientVars
  <2>2. EntryInOnePlace' /\ NewUntouched' /\ ExtAgree'
    BY <2>1 DEF Struct, EntryInOnePlace, Places, NewUntouched, ExtAgree
  <2>3. LoopControl'
    BY <2>1 DEF Struct, LoopControl, Reported
  <2> QED BY <2>2, <2>3 DEF Struct
<1>6. CASE Send
  <2>1. /\ wl' = "reserve" /\ held' = {}
        /\ UNCHANGED <<committed, cq, step, todo, entries, exents, exst, leaving, cancel, client>>
    BY <1>6 DEF Send, loopVars, clientVars
  <2>2. PICK r \in held : wq' = Append(wq, r)
    BY <1>6 DEF Send
  <2>3. held = {r} /\ r \notin Range(wq) /\ r \in Req
    BY <1>a, <2>2, SMTT(30) DEF OnePlace, Apart, Struct, TypeOK
  <2>4. Range(wq') = Range(wq) \cup {r} /\ (IsInjective(wq) => IsInjective(wq'))
    <3>1. wq \in Seq(Req)
      BY DEF Struct, TypeOK
    <3> QED BY <2>2, <2>3, <3>1, RangeAppend
  <2>5. OnePlace'
    BY <2>1, <2>3, <2>4, <1>a DEF OnePlace, Apart
  <2>6. NewUntouched' /\ ExtAgree'
    BY <2>1, <2>3, <2>4 DEF Struct, NewUntouched, ExtAgree
  <2>7. LoopControl'
    BY <2>1 DEF Struct, LoopControl, Reported
  <2> QED BY <2>5, <2>6, <2>7, OnePlaceExplicit DEF Struct
<1> QED BY <1>1, <1>2, <1>3, <1>4, <1>5, <1>6 DEF WorkLoop

(* What the exception context holds after the aborts and faults of a cycle. *)
LEMMA PutFacts ==
  ASSUME TypeOK, ExtAgree, LoopControl, entries \cap exents = {}
  PROVE  /\ cancel \subseteq entries /\ Faulting \subseteq entries
         /\ {r \in Req : ExstPut[r] \in ExtHeld} = exents \cup cancel \cup Faulting
         /\ Freed \subseteq exents \cup cancel \cup Faulting
         /\ Freed = (exents \cup cancel \cup Faulting) \cap (step.term \cup Dropped)
<1>1. cancel \subseteq entries /\ Faulting \subseteq entries /\ entries \subseteq Req
  BY DEF LoopControl, Faulting, TypeOK
<1>2. {r \in Req : ExstPut[r] \in ExtHeld} = exents \cup cancel \cup Faulting
  BY <1>1 DEF ExstPut, ExtHeld, ExtAgree, TypeOK
<1>3. step.term \subseteq Req
  BY DEF TypeOK, StepOutput
<1>4. TermHeld = (exents \cup cancel \cup Faulting) \cap step.term
  BY <1>2, <1>3 DEF TermHeld
<1>5. Dropped \subseteq exents \cup cancel \cup Faulting
  BY <1>2 DEF Dropped, ExtHeld
<1> QED BY <1>1, <1>2, <1>4, <1>5 DEF Freed

LEMMA CompletionLoopStruct ==
  ASSUME Struct, TypeOK', CompletionLoop
  PROVE  Struct'
<1>a. OnePlace
  BY OnePlaceExplicit DEF Struct
<1>b. client \in [Req -> ClientSt] /\ \A S : Answered(S) \in [Req -> ClientSt]
  BY AnsweredType DEF Struct, TypeOK
<1>c. \A S : \A r \in Req : Answered(S)[r] = "new" => client[r] = "new"
  BY ClientFacts DEF Struct
<1>1. CASE RecvStep
  <2>1. /\ cq = "recv" /\ cq' = "drain"
        /\ UNCHANGED <<committed, wl, held, wq, todo, entries, exents, exst, leaving, cancel, client>>
    BY <1>1 DEF RecvStep, workVars, clientVars
  <2>2. EntryInOnePlace' /\ NewUntouched' /\ ExtAgree'
    BY <2>1 DEF Struct, EntryInOnePlace, Places, NewUntouched, ExtAgree
  <2>3. LoopControl'
    BY <2>1 DEF Struct, LoopControl
  <2> QED BY <2>2, <2>3 DEF Struct
<1>2. CASE LoseStep
  <2>1. UNCHANGED placeVars
    BY <1>2 DEF LoseStep, workVars, loopVars, clientVars, placeVars
  <2> QED BY <2>1, PlacesUnchanged DEF Struct
<1>3. CASE StreamEnded
  BY <1>3, <1>b, EndLoopStruct DEF StreamEnded
<1>4. CASE DrainChannel
  <2>1. /\ cq = "drain" /\ cq' = "metrics" /\ wq' = <<>> /\ entries' = entries \cup Range(wq)
        /\ UNCHANGED <<committed, wl, held, step, todo, exents, exst, leaving, cancel, client>>
    BY <1>4 DEF DrainChannel, workVars, clientVars
  <2>2. Range(wq') = {} /\ IsInjective(wq')
    BY <2>1 DEF Range, IsInjective
  <2>3. OnePlace'
    BY <2>1, <2>2, <1>a DEF OnePlace, Apart
  <2>4. NewUntouched' /\ ExtAgree'
    BY <2>1, <2>2 DEF Struct, NewUntouched, ExtAgree
  <2>5. LoopControl'
    BY <2>1 DEF Struct, LoopControl, Reported
  <2> QED BY <2>3, <2>4, <2>5, OnePlaceExplicit DEF Struct
<1>5. CASE UpdateMetrics
  <2>1. /\ cq = "metrics" /\ cq' = "pass" /\ todo' = Reported(step)
        /\ exents' = exents \ Exiting /\ leaving' = Exiting
        /\ UNCHANGED <<committed, wl, held, wq, step, entries, cancel, client>>
    BY <1>5 DEF UpdateMetrics, workVars, clientVars
  <2>2. exst' = [r \in Req |-> IF r \notin Exiting THEN exst[r]
                               ELSE IF exst[r] = "WaitingTerm" THEN "ExitedTerm" ELSE "Exited"]
    BY <1>5 DEF UpdateMetrics
  <2>3. Exiting \subseteq exents
    BY DEF Struct, ExtAgree, Exiting, Finished, Reported
  <2>4. OnePlace'
    BY <2>1, <2>3, <1>a DEF OnePlace, Apart
  <2>5. NewUntouched'
    BY <2>1, <2>3 DEF Struct, NewUntouched
  <2>6. ExtAgree'
    BY <2>1, <2>2 DEF Struct, ExtAgree, ExtHeld
  <2>7. LoopControl'
    <3>1. cancel = {}
      BY <2>1 DEF Struct, LoopControl
    <3> QED BY <2>1, <3>1 DEF Struct, LoopControl, Reported
  <2> QED BY <2>4, <2>5, <2>6, <2>7, OnePlaceExplicit DEF Struct
<1>6. CASE ExitPanic
  BY <1>6, <1>b, EndLoopStruct DEF ExitPanic
<1>7. CASE UnderflowPanic
  BY <1>7, <1>b, EndLoopStruct DEF UnderflowPanic
<1>8. ASSUME NEW r \in Req, PassGeneration(r) PROVE Struct'
  <2>1. /\ cq = "pass" /\ r \in todo /\ todo' = todo \ {r}
        /\ UNCHANGED <<committed, wl, held, wq, cq, step, exents, exst, leaving>>
    BY <1>8 DEF PassGeneration, workVars
  <2>2. \/ /\ r \in entries /\ entries' = entries \ {r} /\ cancel' = cancel
           /\ client' = [client EXCEPT ![r] = IF @ = "waiting" THEN "End" ELSE @]
        \/ /\ cancel' = cancel \/ (r \in entries /\ cancel' = cancel \cup {r})
           /\ UNCHANGED <<entries, client>>
    BY <1>8 DEF PassGeneration
  <2>3. OnePlace'
    BY <2>1, <2>2, <1>a DEF OnePlace, Apart
  <2>4. NewUntouched' /\ ExtAgree'
    BY <2>1, <2>2, <1>b DEF Struct, NewUntouched, ExtAgree
  <2>5. LoopControl'
    BY <2>1, <2>2 DEF Struct, LoopControl, Reported
  <2> QED BY <2>3, <2>4, <2>5, OnePlaceExplicit DEF Struct
<1>9. ASSUME NEW r \in Req, PassPanic(r) PROVE Struct'
  BY <1>9, <1>b, EndLoopStruct DEF PassPanic
<1>10. CASE EndCycle
  <2>1. /\ cq = "pass" /\ cq' = "recv" /\ todo = {} /\ leaving' = {} /\ cancel' = {}
        /\ entries' = entries \ (cancel \cup Faulting)
        /\ exents' = (exents \cup cancel \cup Faulting) \ Freed
        /\ client' = Close(leaving \cup Freed, Answered(Faulting))
        /\ UNCHANGED <<committed, wl, held, wq, todo>>
    BY <1>10 DEF EndCycle, workVars
  <2>2. exst' = [r \in Req |-> IF r \in step.term \cup Dropped THEN "None"
                               ELSE IF ExstPut[r] = "FaultedLive" THEN "Faulted" ELSE ExstPut[r]]
    BY <1>10 DEF EndCycle
  <2>3. /\ cancel \subseteq entries /\ Faulting \subseteq entries
        /\ {r \in Req : ExstPut[r] \in ExtHeld} = exents \cup cancel \cup Faulting
        /\ Freed = (exents \cup cancel \cup Faulting) \cap (step.term \cup Dropped)
    BY <1>a, PutFacts DEF Struct, OnePlace, Apart
  <2>4. OnePlace'
    BY <2>1, <2>3, <1>a DEF OnePlace, Apart
  <2>5. NewUntouched'
    <3>1. \A r \in Req : client'[r] = "new" => client[r] = "new"
      BY <2>1, <1>b, <1>c, ClientFacts
    <3> QED BY <2>1, <2>3, <3>1 DEF Struct, NewUntouched
  <2>6. ExtAgree'
    BY <2>1, <2>2, <2>3 DEF ExtAgree, ExtHeld
  <2>7. LoopControl'
    BY <2>1 DEF Struct, LoopControl
  <2> QED BY <2>4, <2>5, <2>6, <2>7, OnePlaceExplicit DEF Struct
<1>11. CASE FaultPanic
  <2>1. PICK S \in SUBSET Faulting : EndLoop({"fault"}, Answered(S))
    BY <1>11 DEF FaultPanic
  <2> QED BY <2>1, <1>b, <1>c, EndLoopStruct
<1>12. CASE TermPanic
  BY <1>12, <1>b, <1>c, EndLoopStruct DEF TermPanic
<1> QED BY <1>1, <1>2, <1>3, <1>4, <1>5, <1>6, <1>7, <1>8, <1>9, <1>10, <1>11, <1>12 DEF CompletionLoop

LEMMA StructStep == Struct /\ [Next]_vars => Struct'
<1> SUFFICES ASSUME Struct, [Next]_vars PROVE Struct'
  OBVIOUS
<1>1. TypeOK /\ TypeOK'
  BY TypeStep DEF Struct
<1>2. ASSUME NEW r \in Req, Admit(r) \/ AdmitPanic(r) \/ Disconnect(r) PROVE Struct'
  BY <1>1, <1>2, SchedulerStruct
<1>3. CASE WorkLoop
  BY <1>1, <1>3, WorkLoopStruct
<1>4. CASE CompletionLoop
  BY <1>1, <1>4, CompletionLoopStruct
<1>5. CASE Engine
  <2>1. UNCHANGED placeVars
    BY <1>5 DEF Engine, EngineStep, EngineEnds, PostFails, Preempt, placeVars, workVars, loopVars, clientVars
  <2> QED BY <1>1, <2>1, PlacesUnchanged
<1>6. CASE UNCHANGED vars
  <2>1. UNCHANGED placeVars
    BY <1>6 DEF vars, placeVars, workVars, loopVars, clientVars
  <2> QED BY <1>1, <2>1, PlacesUnchanged
<1> QED BY <1>2, <1>3, <1>4, <1>5, <1>6 DEF Next

(* An entry lives in exactly one place at a time, whatever the interleaving *)
(* of the two loops, the clients and the engine, in both build profiles.    *)
THEOREM OnePlacePerEntry == Spec => []EntryInOnePlace
<1>1. Struct => EntryInOnePlace
  BY DEF Struct
<1> QED BY InitStruct, StructStep, <1>1, PTL DEF Spec

-----------------------------------------------------------------------------
(* The loop boundary.  A request has no state in the exception context      *)
(* before it enters it, which entries it leaves for good; so end-of-cycle   *)
(* clearing touches the phases of no tracked request.                       *)

Before == Range(committed) \cup held \cup Range(wq) \cup entries

PhaseInv ==
  /\ \A r \in Req : client[r] = "new" \/ r \in Before => exst[r] = "None"
  /\ \A r \in entries : phases[r] \notin {"Untracked", "Excepted"}
  /\ \A r \in exents : phases[r] = "Excepted"

LEMMA InitPhase == Init => PhaseInv
BY DEF Init, PhaseInv, Before

(* A step that only moves requests towards entries. *)
LEMMA PhaseUnchanged ==
  ASSUME PhaseInv, UNCHANGED <<entries, exents, exst, phases>>,
         \A r \in Req : client'[r] = "new" => client[r] = "new",
         \A r \in Req : r \in Before' => r \in Before \/ client[r] = "new"
  PROVE  PhaseInv'
BY DEF PhaseInv

LEMMA EndLoopPhase ==
  ASSUME NEW sites, NEW c, EndLoop(sites, c)
  PROVE  PhaseInv'
BY DEF EndLoop, PhaseInv

LEMMA SchedulerPhase ==
  ASSUME Struct, PhaseInv, NEW r \in Req, Admit(r) \/ AdmitPanic(r) \/ Disconnect(r)
  PROVE  PhaseInv'
<1>a. client \in [Req -> ClientSt] /\ committed \in Seq(Req)
  BY DEF Struct, TypeOK
<1>0. UNCHANGED <<entries, exents, exst, phases, held, wq>>
  BY DEF Admit, AdmitPanic, Disconnect, workVars, loopVars
<1>1. \A q \in Req : client'[q] = "new" => client[q] = "new"
  <2>1. CASE Admit(r)
    BY <2>1, <1>a DEF Admit
  <2>2. CASE AdmitPanic(r)
    <3> DEFINE c == Close(Range(committed), client)
    <3>1. c \in [Req -> ClientSt] /\ \A q \in Req : c[q] = "new" => client[q] = "new"
      BY <1>a, ClientType, ClientFacts
    <3>2. client' = [c EXCEPT ![r] = "Closed"]
      BY <2>2 DEF AdmitPanic
    <3> QED BY <3>1, <3>2
  <2>3. CASE Disconnect(r)
    BY <2>3, <1>a DEF Disconnect
  <2> QED BY <2>1, <2>2, <2>3
<1>2. \A q \in Req : q \in Range(committed') => q \in Range(committed) \/ client[q] = "new"
  <2>1. CASE Admit(r)
    BY <2>1, <1>a, RangeAppend DEF Admit
  <2>2. CASE AdmitPanic(r)
    BY <2>2 DEF AdmitPanic, Range
  <2>3. CASE Disconnect(r)
    BY <2>3 DEF Disconnect, workVars
  <2> QED BY <2>1, <2>2, <2>3
<1> QED BY <1>0, <1>1, <1>2, PhaseUnchanged DEF Before

LEMMA WorkLoopPhase ==
  ASSUME Struct, PhaseInv, WorkLoop
  PROVE  PhaseInv'
<1>a. client \in [Req -> ClientSt] /\ committed \in Seq(Req) /\ wq \in Seq(Req)
  BY DEF Struct, TypeOK
<1>0. UNCHANGED <<entries, exents, exst, phases>>
  BY DEF WorkLoop, Reserve, ReserveClosed, NextRequest, NextRequestPanic, AddRequest, Send, loopVars
<1>1. \A q \in Req : client'[q] = "new" => client[q] = "new"
  <2>1. CASE ReserveClosed
    BY <2>1, <1>a, ClientFacts DEF ReserveClosed
  <2>2. CASE ~ReserveClosed
    BY <2>2 DEF WorkLoop, Reserve, NextRequest, NextRequestPanic, AddRequest, Send, clientVars
  <2> QED BY <2>1, <2>2
<1>2. Range(committed') \cup held' \cup Range(wq') \subseteq Range(committed) \cup held \cup Range(wq)
  <2>1. CASE ReserveClosed
    BY <2>1 DEF ReserveClosed, Range
  <2>2. CASE NextRequest
    <3>1. wq' = wq
      BY <2>2 DEF NextRequest
    <3>2. CASE committed = <<>>
      BY <2>2, <3>1, <3>2 DEF NextRequest
    <3>3. CASE committed # <<>>
      <4>1. held' = {Head(committed)} /\ committed' = Tail(committed)
        BY <2>2, <3>3 DEF NextRequest
      <4>2. Range(committed) = Range(committed') \cup {Head(committed)}
        BY <4>1, <3>3, <1>a, RangeTail
      <4> QED BY <3>1, <4>1, <4>2
    <3> QED BY <3>2, <3>3
  <2>3. CASE Send
    BY <2>3, <1>a, RangeAppend DEF Send, Struct, TypeOK
  <2>4. CASE Reserve \/ NextRequestPanic \/ AddRequest
    BY <2>4 DEF Reserve, NextRequestPanic, AddRequest
  <2> QED BY <2>1, <2>2, <2>3, <2>4 DEF WorkLoop
<1> QED BY <1>0, <1>1, <1>2, PhaseUnchanged DEF Before

LEMMA CompletionLoopPhase ==
  ASSUME Struct, PhaseInv, CompletionLoop
  PROVE  PhaseInv'
<1>a. /\ client \in [Req -> ClientSt] /\ phases \in [Req -> Phase] /\ exst \in [Req -> ExtSt]
      /\ entries \subseteq Req /\ exents \subseteq Req /\ step.term \subseteq Req
  BY DEF Struct, TypeOK, StepOutput
<1>b. Apart(Range(committed), held, Range(wq), entries, exents, leaving)
  BY OnePlaceExplicit DEF Struct, OnePlace
<1>1. CASE RecvStep \/ LoseStep
  <2>1. UNCHANGED <<entries, exents, exst, phases, client, committed, held, wq>>
    BY <1>1 DEF RecvStep, LoseStep, workVars, loopVars, clientVars
  <2> QED BY <2>1, PhaseUnchanged DEF Before
<1>2. CASE StreamEnded \/ ExitPanic \/ UnderflowPanic \/ FaultPanic \/ TermPanic
  BY <1>2, EndLoopPhase DEF StreamEnded, ExitPanic, UnderflowPanic, FaultPanic, TermPanic
<1>3. ASSUME NEW r \in Req, PassPanic(r) PROVE PhaseInv'
  BY <1>3, EndLoopPhase DEF PassPanic
<1>4. CASE DrainChannel
  <2>1. /\ wq' = <<>> /\ entries' = entries \cup Range(wq)
        /\ phases' = [r \in Req |-> IF r \in Range(wq) THEN "Waiting" ELSE phases[r]]
        /\ UNCHANGED <<committed, held, exents, exst, client>>
    BY <1>4 DEF DrainChannel, workVars, clientVars
  <2>2. Range(wq') = {} /\ Range(wq) \subseteq Req
    BY <2>1 DEF Range, Struct, TypeOK
  <2>3. \A r \in Req : r \in Before' => r \in Before
    BY <2>1, <2>2 DEF Before
  <2> QED BY <2>1, <2>2, <2>3, <1>a, <1>b DEF PhaseInv, Apart
<1>5. CASE UpdateMetrics
  <2>1. /\ exents' = exents \ Exiting
        /\ exst' = [r \in Req |-> IF r \notin Exiting THEN exst[r]
                                  ELSE IF exst[r] = "WaitingTerm" THEN "ExitedTerm" ELSE "Exited"]
        /\ UNCHANGED <<committed, held, wq, entries, phases, client>>
    BY <1>5 DEF UpdateMetrics, workVars, clientVars
  <2>2. \A r \in Exiting : exst[r] # "None"
    BY DEF Exiting, ExtHeld
  <2>3. Before' = Before
    BY <2>1 DEF Before
  <2> QED BY <2>1, <2>2, <2>3, <1>a DEF PhaseInv
<1>6. ASSUME NEW r \in Req, PassGeneration(r) PROVE PhaseInv'
  <2> DEFINE o == step.outs[r]
  <2>1. /\ phases' = [phases EXCEPT ![r] =
              IF (r \in entries /\ o.fin) \/ @ = "Untracked" THEN "Untracked" ELSE PhaseAfter(@, o.state)]
        /\ UNCHANGED <<committed, held, wq, exents, exst>>
    BY <1>6 DEF PassGeneration, workVars
  <2>2. /\ entries' = IF r \in entries /\ o.fin THEN entries \ {r} ELSE entries
        /\ \A q \in Req : client'[q] = "new" => client[q] = "new"
    BY <1>6, <1>a DEF PassGeneration
  <2>3. Before' \subseteq Before
    BY <2>1, <2>2 DEF Before
  <2>4. \A q \in entries' : phases'[q] \notin {"Untracked", "Excepted"}
    BY <2>1, <2>2, <1>a DEF PhaseInv, PhaseAfter
  <2>5. \A q \in exents' : phases'[q] = "Excepted"
    BY <2>1, <1>a, <1>b DEF PhaseInv, PhaseAfter, Apart
  <2> QED BY <2>1, <2>2, <2>3, <2>4, <2>5 DEF PhaseInv
<1>7. CASE EndCycle
  <2>1. /\ entries' = entries \ (cancel \cup Faulting)
        /\ exents' = (exents \cup cancel \cup Faulting) \ Freed
        /\ client' = Close(leaving \cup Freed, Answered(Faulting))
        /\ UNCHANGED <<committed, held, wq>> /\ UnknownFault = {} /\ TermPanics = {}
    BY <1>7 DEF EndCycle, workVars
  <2>2. exst' = [r \in Req |-> IF r \in step.term \cup Dropped THEN "None"
                               ELSE IF ExstPut[r] = "FaultedLive" THEN "Faulted" ELSE ExstPut[r]]
    BY <1>7 DEF EndCycle
  <2>3. phases' = [r \in Req |-> IF r \in step.term \cup Dropped THEN "Untracked"
                                 ELSE IF r \in cancel \cup Faulting THEN "Excepted" ELSE phases[r]]
    BY <1>7 DEF EndCycle
  <2>4. /\ cancel \subseteq entries /\ Faulting \subseteq entries
        /\ Freed = (exents \cup cancel \cup Faulting) \cap (step.term \cup Dropped)
    BY <1>b, PutFacts DEF Struct, Apart
  <2>5. \A r \in Req \ (cancel \cup Faulting) : ExstPut[r] = exst[r]
    BY DEF ExstPut
  <2>6. \A r \in step.term \cup Dropped : ExstPut[r] # "None"
    <3>1. UnknownTerm = {}
      BY <2>1 DEF TermPanics
    <3> QED BY <3>1 DEF UnknownTerm, Dropped
  <2>7. \A q \in Req : client'[q] = "new" => client[q] = "new"
    BY <2>1, AnsweredType, ClientFacts DEF Struct
  <2>8. ASSUME NEW r \in Req, client'[r] = "new" \/ r \in Before'
        PROVE  r \notin cancel \cup Faulting /\ exst[r] = "None"
    <3>1. client[r] = "new" \/ r \in Before
      BY <2>1, <2>7, <2>8 DEF Before
    <3>2. r \notin cancel \cup Faulting
      BY <2>1, <2>4, <2>7, <2>8, <1>b DEF Before, Apart, Struct, NewUntouched
    <3> QED BY <3>1, <3>2 DEF PhaseInv
  <2>9. \A r \in Req : client'[r] = "new" \/ r \in Before' => exst'[r] = "None"
    BY <2>2, <2>5, <2>8
  <2>10. \A r \in entries' : phases'[r] \notin {"Untracked", "Excepted"}
    <3> SUFFICES ASSUME NEW r \in entries' PROVE phases'[r] \notin {"Untracked", "Excepted"}
      OBVIOUS
    <3>1. r \in entries /\ r \in Req /\ r \notin cancel \cup Faulting /\ exst[r] = "None"
      BY <2>1, <1>a, <2>8 DEF Before
    <3>2. r \notin step.term \cup Dropped
      BY <3>1, <2>5, <2>6
    <3> QED BY <2>3, <3>1, <3>2 DEF PhaseInv
  <2>11. \A r \in exents' : phases'[r] = "Excepted"
    BY <2>1, <2>3, <2>4, <1>a DEF PhaseInv
  <2> QED BY <2>9, <2>10, <2>11 DEF PhaseInv
<1> QED BY <1>1, <1>2, <1>3, <1>4, <1>5, <1>6, <1>7 DEF CompletionLoop

LEMMA PhaseStep == Struct /\ PhaseInv /\ [Next]_vars => PhaseInv'
<1> SUFFICES ASSUME Struct, PhaseInv, [Next]_vars PROVE PhaseInv'
  OBVIOUS
<1>1. ASSUME NEW r \in Req, Admit(r) \/ AdmitPanic(r) \/ Disconnect(r) PROVE PhaseInv'
  BY <1>1, SchedulerPhase
<1>2. CASE WorkLoop
  BY <1>2, WorkLoopPhase
<1>3. CASE CompletionLoop
  BY <1>3, CompletionLoopPhase
<1>4. CASE Engine \/ UNCHANGED vars
  <2>1. UNCHANGED <<entries, exents, exst, phases, client, committed, held, wq>>
    BY <1>4 DEF Engine, EngineStep, EngineEnds, PostFails, Preempt, vars, workVars, loopVars, clientVars
  <2> QED BY <2>1, PhaseUnchanged DEF Before
<1> QED BY <1>1, <1>2, <1>3, <1>4 DEF Next

(* The assertions at the loop boundary hold: a tracked request has a live   *)
(* phase, an excepted one is marked, and entries and states of the          *)
(* exception context agree, whatever aborts, faults and ACKs came before.   *)
THEOREM LoopBoundaryHolds == Spec => []LoopBoundary
<1>1. Struct /\ PhaseInv => LoopBoundary
  BY DEF Struct, PhaseInv, LoopBoundary, ExtAgree
<1> QED BY InitStruct, StructStep, InitPhase, PhaseStep, <1>1, PTL DEF Spec

-----------------------------------------------------------------------------
(* Clients.  A client that waits has its entry where it will be served, and *)
(* an entry that is dropped has no client waiting for it.                   *)

ClientInv == ExceptedServed /\ WaitingClientOwned /\ NoSilentClose

Owned == Range(committed) \cup held \cup Range(wq) \cup entries

LEMMA InitClient == Init => ClientInv
BY DEF Init, ClientInv, ExceptedServed, WaitingClientOwned, NoSilentClose

LEMMA ClientUnchanged ==
  ASSUME Struct, ClientInv, UNCHANGED <<client, process, exents, leaving, cancel>>,
         Owned' = Owned, Running' => Running
  PROVE  ClientInv'
BY DEF ClientInv, ExceptedServed, WaitingClientOwned, NoSilentClose, Owned

LEMMA EndLoopClient ==
  ASSUME Struct, ClientInv, NEW sites, NEW c \in [Req -> ClientSt], EndLoop(sites, c),
         \A r \in Req : c[r] = "waiting" => client[r] = "waiting"
  PROVE  ClientInv'
<1> DEFINE down == sites # {} /\ ~DebugBuild
           S == IF down THEN Req ELSE entries \cup exents \cup leaving \cup Range(wq)
<1>1. /\ process' = IF down THEN "down" ELSE process
      /\ client' = Close(S, c) /\ cq' = "dead" /\ UNCHANGED <<committed, held>>
      /\ exents' = {} /\ leaving' = {} /\ cancel' = {}
  BY DEF EndLoop, workVars
<1>2. \A r \in Req : client'[r] = "waiting" => client[r] = "waiting" /\ r \notin S
  <2> HIDE DEF S
  <2> QED BY <1>1, ClientFacts
<1>3. WaitingClientOwned'
  <2> SUFFICES ASSUME process' = "up", NEW r \in Req, client'[r] = "waiting"
               PROVE  r \in Range(committed') \cup held'
    BY DEF WaitingClientOwned
  <2>1. ~down /\ process = "up"
    BY <1>1
  <2> QED BY <1>1, <1>2, <2>1 DEF ClientInv, WaitingClientOwned
<1>4. ExceptedServed' /\ NoSilentClose'
  BY <1>1 DEF ExceptedServed, NoSilentClose, Running
<1> QED BY <1>3, <1>4 DEF ClientInv

LEMMA SchedulerClient ==
  ASSUME Struct, ClientInv, NEW r \in Req, Admit(r) \/ AdmitPanic(r) \/ Disconnect(r)
  PROVE  ClientInv'
<1>a. client \in [Req -> ClientSt]
  BY DEF Struct, TypeOK
<1>1. CASE Admit(r)
  <2>1. /\ client[r] = "new" /\ client' = [client EXCEPT ![r] = "waiting"]
        /\ UNCHANGED <<process, panics, held, wq, cq, entries, exents, leaving, cancel>>
    BY <1>1 DEF Admit, loopVars
  <2>2. r \notin exents \cup leaving \cup cancel
    BY <2>1 DEF Struct, NewUntouched, LoopControl
  <2>3. Range(committed') = Range(committed) \cup {r}
    <3>1. committed \in Seq(Req) /\ committed' = Append(committed, r)
      BY <1>1 DEF Admit, Struct, TypeOK
    <3> QED BY <3>1, RangeAppend
  <2>4. ExceptedServed'
    BY <2>1, <2>2, <1>a DEF ClientInv, ExceptedServed, Struct, TypeOK
  <2>5. WaitingClientOwned'
    BY <2>1, <2>3, <1>a DEF ClientInv, WaitingClientOwned
  <2>6. NoSilentClose'
    BY <2>1, <1>a DEF ClientInv, NoSilentClose, Running, SchedulerDead
  <2> QED BY <2>4, <2>5, <2>6 DEF ClientInv
<1>2. CASE AdmitPanic(r)
  <2> DEFINE c == Close(Range(committed), client)
  <2>1. /\ client' = [c EXCEPT ![r] = "Closed"] /\ panics' = panics \cup {"overflow"}
        /\ UNCHANGED <<process, held, wq, entries, exents, leaving, cancel>>
    BY <1>2 DEF AdmitPanic, loopVars
  <2>2. c \in [Req -> ClientSt]
    BY <1>a, ClientType
  <2>3. \A q \in Req : c[q] = "waiting" => client[q] = "waiting" /\ q \notin Range(committed)
    BY <1>a, ClientFacts
  <2>4. \A q \in Req : client'[q] = "waiting" => client[q] = "waiting" /\ q \notin Range(committed)
    <3> HIDE DEF c
    <3> QED BY <2>1, <2>2, <2>3
  <2>5. ExceptedServed'
    BY <2>1, <2>4 DEF ClientInv, ExceptedServed, Struct, TypeOK
  <2>6. WaitingClientOwned'
    BY <2>1, <2>4 DEF ClientInv, WaitingClientOwned
  <2>7. NoSilentClose'
    BY <2>1 DEF NoSilentClose, Running, SchedulerDead
  <2> QED BY <2>5, <2>6, <2>7 DEF ClientInv
<1>3. CASE Disconnect(r)
  <2>1. /\ client' = [client EXCEPT ![r] = "gone"]
        /\ UNCHANGED <<process, panics, committed, held, wq, cq, entries, exents, leaving, cancel>>
    BY <1>3 DEF Disconnect, workVars, loopVars
  <2>2. ExceptedServed'
    BY <2>1, <1>a DEF ClientInv, ExceptedServed, Struct, TypeOK
  <2>3. WaitingClientOwned'
    BY <2>1, <1>a DEF ClientInv, WaitingClientOwned
  <2>4. NoSilentClose'
    BY <2>1, <1>a DEF ClientInv, NoSilentClose, Running, SchedulerDead
  <2> QED BY <2>2, <2>3, <2>4 DEF ClientInv
<1> QED BY <1>1, <1>2, <1>3

LEMMA WorkLoopClient ==
  ASSUME Struct, ClientInv, WorkLoop
  PROVE  ClientInv'
<1>a. client \in [Req -> ClientSt] /\ committed \in Seq(Req) /\ wq \in Seq(Req) /\ held \subseteq Req
  BY DEF Struct, TypeOK
<1>1. CASE ReserveClosed
  <2> DEFINE S == IF DebugBuild THEN Range(wq) ELSE Req
  <2>1. /\ client' = Close(S, client) /\ cq = "dead"
        /\ process' = IF DebugBuild THEN process ELSE "down"
        /\ UNCHANGED <<committed, held, cq, entries, exents, leaving, cancel>>
    BY <1>1 DEF ReserveClosed, loopVars
  <2>2. \A r \in Req : client'[r] = "waiting" => client[r] = "waiting" /\ r \notin S
    <3> HIDE DEF S
    <3> QED BY <2>1, <1>a, ClientFacts
  <2>3. ExceptedServed'
    BY <2>1, <2>2 DEF ClientInv, ExceptedServed, Struct, TypeOK
  <2>4. WaitingClientOwned'
    BY <2>1, <2>2 DEF ClientInv, WaitingClientOwned
  <2>5. NoSilentClose'
    BY <2>1 DEF NoSilentClose, Running
  <2> QED BY <2>3, <2>4, <2>5 DEF ClientInv
<1>2. CASE Reserve \/ NextRequestPanic \/ AddRequest
  <2>1. UNCHANGED <<client, process, committed, held, wq, cq, entries, exents, leaving, cancel>>
    BY <1>2 DEF Reserve, NextRequestPanic, AddRequest, loopVars, clientVars
  <2>2. Owned' = Owned
    BY <2>1 DEF Owned
  <2>3. panics \subseteq panics'
    BY <1>2 DEF Reserve, NextRequestPanic, AddRequest
  <2>4. Running' => Running
    BY <2>1, <2>3 DEF Running, SchedulerDead
  <2> QED BY <2>1, <2>2, <2>4, ClientUnchanged
<1>3. CASE NextRequest
  <2>1. UNCHANGED <<client, process, panics, wq, cq, entries, exents, leaving, cancel>>
    BY <1>3 DEF NextRequest, loopVars, clientVars
  <2>2. Range(committed') \cup held' = Range(committed) \cup held
    <3>1. CASE committed = <<>>
      BY <1>3, <3>1 DEF NextRequest
    <3>2. CASE committed # <<>>
      <4>1. held' = {Head(committed)} /\ committed' = Tail(committed) /\ held = {}
        BY <1>3, <3>2 DEF NextRequest, Struct, LoopControl
      <4> QED BY <1>a, <3>2, <4>1, RangeTail
    <3> QED BY <3>1, <3>2
  <2>3. Owned' = Owned
    BY <2>1, <2>2 DEF Owned
  <2>4. Running' => Running
    BY <2>1 DEF Running, SchedulerDead
  <2> QED BY <2>1, <2>3, <2>4, ClientUnchanged
<1>4. CASE Send
  <2>1. /\ held' = {}
        /\ UNCHANGED <<client, process, panics, committed, cq, entries, exents, leaving, cancel>>
    BY <1>4 DEF Send, loopVars, clientVars
  <2>2. Range(wq') = Range(wq) \cup held
    <3>1. PICK r \in held : wq' = Append(wq, r)
      BY <1>4 DEF Send
    <3>2. held = {r}
      BY <3>1 DEF Struct, EntryInOnePlace
    <3> QED BY <1>a, <3>1, <3>2, RangeAppend
  <2>3. Owned' = Owned
    BY <2>1, <2>2 DEF Owned
  <2>4. Running' => Running
    BY <2>1 DEF Running, SchedulerDead
  <2> QED BY <2>1, <2>3, <2>4, ClientUnchanged
<1> QED BY <1>1, <1>2, <1>3, <1>4 DEF WorkLoop

(* The end of a cycle drops no entry whose client still waits. *)
LEMMA EndCycleClient ==
  ASSUME Struct, ClientInv, EndCycle
  PROVE  /\ client' = Answered(Faulting)
         /\ \A r \in leaving \cup exents \cup cancel \cup Faulting \cup Freed : client'[r] # "waiting"
<1>a. client \in [Req -> ClientSt] /\ Answered(Faulting) \in [Req -> ClientSt]
  BY AnsweredType DEF Struct, TypeOK
<1>1. Faulting \subseteq entries /\ Freed \subseteq exents \cup cancel \cup Faulting
  BY PutFacts, OnePlaceExplicit DEF Struct, OnePlace, Apart
<1>2. \A r \in leaving \cup exents \cup cancel \cup Faulting : Answered(Faulting)[r] # "waiting"
  BY ClientFacts, <1>1 DEF ClientInv, ExceptedServed, Struct, TypeOK
<1>3. \A r \in Req : ~(r \in leaving \cup Freed /\ Answered(Faulting)[r] = "waiting")
  BY <1>1, <1>2
<1>4. Close(leaving \cup Freed, Answered(Faulting)) = [r \in Req |-> Answered(Faulting)[r]]
  BY <1>3 DEF Close
<1> QED BY <1>a, <1>1, <1>2, <1>4 DEF EndCycle

LEMMA CompletionLoopClient ==
  ASSUME Struct, ClientInv, CompletionLoop
  PROVE  ClientInv'
<1>a. client \in [Req -> ClientSt] /\ \A S : Answered(S) \in [Req -> ClientSt]
  BY AnsweredType DEF Struct, TypeOK
<1>b. \A S : \A r \in Req : Answered(S)[r] = "waiting" => client[r] = "waiting" /\ r \notin S
  BY ClientFacts DEF Struct
<1>1. CASE RecvStep \/ LoseStep
  <2>1. UNCHANGED <<client, process, panics, committed, held, wq, entries, exents, leaving, cancel>>
    BY <1>1 DEF RecvStep, LoseStep, workVars, loopVars, clientVars
  <2>2. Owned' = Owned
    BY <2>1 DEF Owned
  <2>3. Running' => Running
    BY <1>1, <2>1 DEF Running, SchedulerDead, RecvStep, LoseStep
  <2> QED BY <2>1, <2>2, <2>3, ClientUnchanged
<1>2. CASE DrainChannel
  <2>1. /\ wq' = <<>> /\ entries' = entries \cup Range(wq) /\ cq = "drain"
        /\ UNCHANGED <<client, process, panics, committed, held, exents, leaving, cancel>>
    BY <1>2 DEF DrainChannel, workVars, clientVars
  <2>2. Owned' = Owned
    BY <2>1 DEF Owned, Range
  <2>3. Running' => Running
    BY <2>1 DEF Running, SchedulerDead
  <2> QED BY <2>1, <2>2, <2>3, ClientUnchanged
<1>3. CASE UpdateMetrics
  <2>1. /\ cq = "metrics" /\ exents' = exents \ Exiting /\ leaving' = Exiting
        /\ UNCHANGED <<client, process, panics, committed, held, wq, entries, cancel>>
    BY <1>3 DEF UpdateMetrics, workVars, clientVars
  <2>2. Exiting \subseteq exents
    BY DEF Struct, ExtAgree, Exiting, Finished, Reported
  <2>3. ExceptedServed'
    BY <2>1, <2>2 DEF ClientInv, ExceptedServed
  <2>4. WaitingClientOwned' /\ NoSilentClose'
    BY <2>1 DEF ClientInv, WaitingClientOwned, NoSilentClose, Running, SchedulerDead
  <2> QED BY <2>3, <2>4 DEF ClientInv
<1>4. ASSUME NEW r \in Req, PassGeneration(r) PROVE ClientInv'
  <2>1. UNCHANGED <<process, panics, committed, held, wq, cq, exents, leaving>>
    BY <1>4 DEF PassGeneration, workVars
  <2>2. CASE r \in entries /\ step.outs[r].fin
    <3>1. /\ entries' = entries \ {r} /\ cancel' = cancel
          /\ client' = [client EXCEPT ![r] = IF @ = "waiting" THEN "End" ELSE @]
      BY <1>4, <2>2 DEF PassGeneration
    <3>2. ExceptedServed'
      BY <2>1, <3>1, <1>a DEF ClientInv, ExceptedServed, Struct, TypeOK
    <3>3. WaitingClientOwned'
      BY <2>1, <3>1, <1>a DEF ClientInv, WaitingClientOwned
    <3>4. NoSilentClose'
      BY <2>1, <3>1, <1>a DEF ClientInv, NoSilentClose, Running, SchedulerDead
    <3> QED BY <3>2, <3>3, <3>4 DEF ClientInv
  <2>3. CASE ~(r \in entries /\ step.outs[r].fin)
    <3>1. /\ UNCHANGED <<entries, client>>
          /\ cancel' = IF r \in entries /\ SendFails(r) THEN cancel \cup {r} ELSE cancel
      BY <1>4, <2>3 DEF PassGeneration
    <3>2. ExceptedServed'
      BY <2>1, <3>1 DEF ClientInv, ExceptedServed, SendFails
    <3>3. WaitingClientOwned' /\ NoSilentClose'
      BY <2>1, <3>1 DEF ClientInv, WaitingClientOwned, NoSilentClose, Running, SchedulerDead
    <3> QED BY <3>2, <3>3 DEF ClientInv
  <2> QED BY <2>2, <2>3
<1>5. CASE EndCycle
  <2>1. /\ cq = "pass" /\ leaving' = {} /\ cancel' = {}
        /\ entries' = entries \ (cancel \cup Faulting)
        /\ exents' = (exents \cup cancel \cup Faulting) \ Freed
        /\ client' = Close(leaving \cup Freed, Answered(Faulting))
        /\ UNCHANGED <<process, panics, committed, held, wq>>
    BY <1>5 DEF EndCycle, workVars
  <2>2. /\ cancel \subseteq entries /\ Faulting \subseteq entries
        /\ Freed \subseteq exents \cup cancel \cup Faulting
    BY PutFacts, OnePlaceExplicit DEF Struct, OnePlace, Apart
  <2>3. /\ client' = Answered(Faulting)
        /\ \A r \in exents \cup cancel \cup Faulting : client'[r] # "waiting"
    BY <1>5, EndCycleClient
  <2>4. ExceptedServed'
    BY <2>1, <2>3 DEF ExceptedServed
  <2>5. WaitingClientOwned'
    BY <2>1, <2>3, <1>b DEF ClientInv, WaitingClientOwned
  <2>6. NoSilentClose'
    <3>1. \A r \in Req : Answered(Faulting)[r] = "Closed" => client[r] = "Closed"
      BY DEF Answered
    <3> QED BY <2>1, <2>3, <3>1 DEF ClientInv, NoSilentClose, Running, SchedulerDead
  <2> QED BY <2>4, <2>5, <2>6 DEF ClientInv
<1>6. CASE StreamEnded
  BY <1>6, <1>a, EndLoopClient DEF StreamEnded
<1>7. CASE ExitPanic
  BY <1>7, <1>a, EndLoopClient DEF ExitPanic
<1>8. CASE UnderflowPanic
  BY <1>8, <1>a, EndLoopClient DEF UnderflowPanic
<1>9. ASSUME NEW r \in Req, PassPanic(r) PROVE ClientInv'
  BY <1>9, <1>a, EndLoopClient DEF PassPanic
<1>10. CASE FaultPanic
  <2>1. PICK S \in SUBSET Faulting : EndLoop({"fault"}, Answered(S))
    BY <1>10 DEF FaultPanic
  <2> QED BY <2>1, <1>a, <1>b, EndLoopClient
<1>11. CASE TermPanic
  BY <1>11, <1>a, <1>b, EndLoopClient DEF TermPanic
<1> QED BY <1>1, <1>2, <1>3, <1>4, <1>5, <1>6, <1>7, <1>8, <1>9, <1>10, <1>11 DEF CompletionLoop

LEMMA ClientStep == Struct /\ ClientInv /\ [Next]_vars => ClientInv'
<1> SUFFICES ASSUME Struct, ClientInv, [Next]_vars PROVE ClientInv'
  OBVIOUS
<1>1. ASSUME NEW r \in Req, Admit(r) \/ AdmitPanic(r) \/ Disconnect(r) PROVE ClientInv'
  BY <1>1, SchedulerClient
<1>2. CASE WorkLoop
  BY <1>2, WorkLoopClient
<1>3. CASE CompletionLoop
  BY <1>3, CompletionLoopClient
<1>4. CASE Engine \/ UNCHANGED vars
  <2>1. UNCHANGED <<client, process, panics, committed, held, wq, cq, entries, exents, leaving, cancel>>
    BY <1>4 DEF Engine, EngineStep, EngineEnds, PostFails, Preempt, vars, workVars, loopVars, clientVars
  <2>2. Owned' = Owned /\ (Running' => Running)
    BY <2>1 DEF Owned, Running, SchedulerDead
  <2> QED BY <2>1, <2>2, ClientUnchanged
<1> QED BY <1>1, <1>2, <1>3, <1>4 DEF Next

(* A client still waiting has its entry in a place that will serve it.      *)
THEOREM ClientsOwned == Spec => []WaitingClientOwned
<1>1. ClientInv => WaitingClientOwned
  BY DEF ClientInv
<1> QED BY InitStruct, StructStep, InitClient, ClientStep, <1>1, PTL DEF Spec

(* While the loop runs, no client sees its stream end without an answer.    *)
THEOREM ClientsNeverClosed == Spec => []NoSilentClose
<1>1. ClientInv => NoSilentClose
  BY DEF ClientInv
<1> QED BY InitStruct, StructStep, InitClient, ClientStep, <1>1, PTL DEF Spec

-----------------------------------------------------------------------------
(* The batch size.  Every action changes bs by the number of requests it    *)
(* adds to or removes from Live.                                            *)

LEMMA LiveType == TypeOK => Live \subseteq Req /\ IsFiniteSet(Live) /\ Cardinality(Live) \in Nat
<1> SUFFICES ASSUME TypeOK PROVE Live \subseteq Req
  BY ReqFinite
<1>1. Range(committed) \subseteq Req /\ Range(wq) \subseteq Req
  BY RangeBasics DEF TypeOK
<1> QED BY <1>1 DEF Live, TypeOK

(* A step that gives up the requests of S and takes |S| off bs. *)
LEMMA ReleaseExact ==
  ASSUME Struct, BatchSizeExact, Running, NEW S, S \subseteq Live, Live' = Live \ S,
         lmetric'.bs = Saturating(lmetric.bs - Cardinality(S))
  PROVE  BatchSizeExact'
<1>1. /\ Cardinality(Live) \in Nat /\ Live \cap S = S
      /\ Cardinality(Live') = Cardinality(Live) - Cardinality(S)
      /\ Cardinality(Live') \in Nat /\ Cardinality(S) \in Nat
  <2>1. IsFiniteSet(Live) /\ Live \subseteq Req
    BY LiveType DEF Struct
  <2>2. IsFiniteSet(S) /\ Live \cap S = S
    BY <2>1, FS_Subset
  <2>3. IsFiniteSet(Live \ S) /\ Cardinality(Live \ S) = Cardinality(Live) - Cardinality(Live \cap S)
    BY <2>1, FS_Difference
  <2> QED BY <2>1, <2>2, <2>3, FS_CardinalityType
<1>2. lmetric.bs = Cardinality(Live)
  BY DEF BatchSizeExact
<1>3. lmetric'.bs = Cardinality(Live')
  BY <1>1, <1>2, SaturatingNat
<1> QED BY <1>3 DEF BatchSizeExact

LEMMA SameLive ==
  ASSUME BatchSizeExact, Running' => Running, Live' = Live, lmetric'.bs = lmetric.bs
  PROVE  BatchSizeExact'
BY DEF BatchSizeExact

(* What each action does to the requests the replica holds. *)
LEMMA AdmitLive ==
  ASSUME Struct, NEW r \in Req, Admit(r)
  PROVE  r \notin Live /\ Live' = Live \cup {r} /\ Running' = Running
<1>1. /\ client[r] = "new"
      /\ UNCHANGED <<process, panics, held, wq, cq, step, todo, entries, exents>>
  BY DEF Admit, loopVars
<1>2. Range(committed') = Range(committed) \cup {r}
  <2>1. committed \in Seq(Req) /\ committed' = Append(committed, r)
    BY DEF Admit, Struct, TypeOK
  <2> QED BY <2>1, RangeAppend
<1>3. r \notin Live
  BY <1>1 DEF Struct, NewUntouched, Live
<1> QED BY <1>1, <1>2, <1>3 DEF Live, CountedOut, Running, SchedulerDead

LEMMA DisconnectLive ==
  ASSUME NEW r \in Req, Disconnect(r)
  PROVE  Live' = Live /\ Running' = Running
<1>1. UNCHANGED <<process, panics, committed, held, wq, cq, step, todo, entries, exents>>
  BY DEF Disconnect, workVars, loopVars
<1> QED BY <1>1 DEF Running, SchedulerDead, Live, CountedOut

LEMMA WorkLoopLive ==
  ASSUME Struct, WorkLoop, Running'
  PROVE  Live' = Live /\ Running /\ UNCHANGED <<lmetric, client>>
<1>a. committed \in Seq(Req) /\ wq \in Seq(Req)
  BY DEF Struct, TypeOK
<1>1. UNCHANGED <<lmetric, cq, step, todo, entries, exents>> /\ panics \subseteq panics'
  BY DEF WorkLoop, Reserve, ReserveClosed, NextRequest, NextRequestPanic, AddRequest, Send, loopVars
<1>2. ~ReserveClosed
  BY <1>1 DEF ReserveClosed, Running
<1>3. UNCHANGED <<process, client>>
  BY <1>2 DEF WorkLoop, Reserve, NextRequest, NextRequestPanic, AddRequest, Send, clientVars
<1>4. Range(committed') \cup held' \cup Range(wq') = Range(committed) \cup held \cup Range(wq)
  <2>1. CASE Reserve \/ NextRequestPanic \/ AddRequest
    BY <2>1 DEF Reserve, NextRequestPanic, AddRequest
  <2>2. CASE NextRequest /\ committed = <<>>
    BY <2>2 DEF NextRequest
  <2>3. CASE NextRequest /\ committed # <<>>
    <3>1. /\ held' = {Head(committed)} /\ committed' = Tail(committed) /\ held = {}
          /\ wq' = wq
      BY <2>3 DEF NextRequest, Struct, LoopControl
    <3> QED BY <1>a, <2>3, <3>1, RangeTail
  <2>4. CASE Send
    <3>1. PICK r \in held : wq' = Append(wq, r)
      BY <2>4 DEF Send
    <3>2. held = {r} /\ r \in Req
      BY <3>1 DEF Struct, EntryInOnePlace, TypeOK
    <3>3. Range(wq') = Range(wq) \cup {r}
      BY <1>a, <3>1, <3>2, RangeAppend
    <3> QED BY <2>4, <3>2, <3>3 DEF Send
  <2> QED BY <1>2, <2>1, <2>2, <2>3, <2>4 DEF WorkLoop
<1>5. Live' = Live
  BY <1>1, <1>4 DEF Live, CountedOut
<1> QED BY <1>1, <1>3, <1>5 DEF Running, SchedulerDead

LEMMA IntakeLive ==
  ASSUME Struct, RecvStep \/ LoseStep \/ DrainChannel
  PROVE  Live' = Live /\ Running' = Running /\ UNCHANGED <<lmetric, client>>
<1>1. /\ cq # "pass" /\ cq # "dead" /\ cq' # "dead" /\ todo' = todo
      /\ UNCHANGED <<process, panics, lmetric, client, committed, held, exents>>
      /\ entries' \cup Range(wq') = entries \cup Range(wq)
  <2>1. CASE RecvStep \/ LoseStep
    BY <2>1 DEF RecvStep, LoseStep, workVars, loopVars, clientVars
  <2>2. CASE DrainChannel
    <3>1. /\ cq = "drain" /\ cq' = "metrics" /\ wq' = <<>> /\ entries' = entries \cup Range(wq)
          /\ UNCHANGED <<process, panics, lmetric, client, committed, held, exents, todo>>
      BY <2>2 DEF DrainChannel, workVars, clientVars
    <3> QED BY <3>1 DEF Range
  <2> QED BY <2>1, <2>2
<1>2. todo = {} /\ todo' = {}
  BY <1>1 DEF Struct, LoopControl
<1>3. CountedOut = {} /\ CountedOut' = {}
  BY <1>2 DEF CountedOut
<1> QED BY <1>1, <1>3 DEF Live, Running, SchedulerDead

LEMMA UpdateMetricsLive ==
  ASSUME Struct, UpdateMetrics
  PROVE  Released \subseteq Live /\ Live' = Live \ Released /\ Running' = Running /\ client' = client
<1>a. OnePlace
  BY OnePlaceExplicit DEF Struct
<1>1. /\ cq = "metrics" /\ cq' = "pass" /\ todo' = Reported(step) /\ exents' = exents \ Exiting
      /\ UNCHANGED <<process, panics, client, committed, held, wq, step, entries>>
  BY DEF UpdateMetrics, workVars, clientVars
<1>2. Exiting \subseteq exents
  BY DEF Struct, ExtAgree, Exiting, Finished, Reported
<1>3. CountedOut = {} /\ CountedOut' = Finished \cap entries
  <2>1. CountedOut' = {r \in Reported(step) \cap entries : step.outs[r].fin}
    BY <1>1 DEF CountedOut
  <2> QED BY <2>1, <1>1 DEF Finished, CountedOut, Struct, LoopControl
<1>4. Live' = Live \ Released /\ Released \subseteq Live
  BY <1>1, <1>2, <1>3, <1>a DEF Live, Released, OnePlace, Apart
<1> QED BY <1>1, <1>4 DEF Running, SchedulerDead

LEMMA PassGenerationLive ==
  ASSUME Struct, NEW r \in Req, PassGeneration(r)
  PROVE  /\ Live' = Live /\ Running' = Running /\ UNCHANGED lmetric
         /\ r \in entries /\ step.outs[r].fin => r \notin Live
<1>a. OnePlace
  BY OnePlaceExplicit DEF Struct
<1>1. /\ cq = "pass" /\ r \in todo /\ todo' = todo \ {r}
      /\ \/ step.outs[r].fin /\ r \in entries /\ entries' = entries \ {r}
         \/ ~(step.outs[r].fin /\ r \in entries) /\ entries' = entries
      /\ UNCHANGED <<process, panics, lmetric, cq, committed, held, wq, step, exents>>
  BY DEF PassGeneration, workVars
<1>2. entries' \ CountedOut' = entries \ CountedOut
  BY <1>1 DEF CountedOut
<1>3. r \in entries /\ step.outs[r].fin => r \notin Live
  BY <1>1, <1>a DEF CountedOut, Live, OnePlace, Apart
<1> QED BY <1>1, <1>2, <1>3 DEF Live, Running, SchedulerDead

LEMMA EndCycleLive ==
  ASSUME Struct, EndCycle
  PROVE  Faulting \subseteq Live /\ Freed \subseteq Live /\ Live' = Live \ Freed /\ Running' = Running
<1>a. OnePlace
  BY OnePlaceExplicit DEF Struct
<1>1. /\ cq = "pass" /\ cq' = "recv" /\ todo = {} /\ todo' = {}
      /\ entries' = entries \ (cancel \cup Faulting)
      /\ exents' = (exents \cup cancel \cup Faulting) \ Freed
      /\ UNCHANGED <<process, panics, committed, held, wq>>
  BY DEF EndCycle, workVars
<1>2. /\ cancel \subseteq entries /\ Faulting \subseteq entries
      /\ Freed \subseteq exents \cup cancel \cup Faulting
  BY <1>a, PutFacts DEF Struct, OnePlace, Apart
<1>3. CountedOut = {} /\ CountedOut' = {}
  BY <1>1 DEF CountedOut
<1>4. Live' = Live \ Freed /\ Freed \subseteq Live /\ Faulting \subseteq Live
  BY <1>1, <1>2, <1>3, <1>a DEF Live, OnePlace, Apart
<1> QED BY <1>1, <1>4 DEF Running, SchedulerDead

LEMMA OtherLive ==
  ASSUME Engine \/ UNCHANGED vars
  PROVE  Live' = Live /\ Running' = Running /\ UNCHANGED <<lmetric, client>>
<1>1. UNCHANGED <<process, panics, lmetric, client, committed, held, wq, cq, step, todo, entries, exents>>
  BY DEF Engine, EngineStep, EngineEnds, PostFails, Preempt, vars, workVars, loopVars, clientVars
<1> QED BY <1>1 DEF Live, CountedOut, Running, SchedulerDead

(* The actions that end the loop or the scheduler's task. *)
LEMMA FailStops ==
  /\ \A r \in Req : AdmitPanic(r) \/ PassPanic(r) => ~Running'
  /\ StreamEnded \/ ExitPanic \/ UnderflowPanic \/ FaultPanic \/ TermPanic => ~Running'
BY DEF AdmitPanic, PassPanic, StreamEnded, ExitPanic, UnderflowPanic, FaultPanic, TermPanic,
       EndLoop, Running, SchedulerDead

LEMMA InitBatch == Init => Live = {} /\ BatchSizeExact
<1> SUFFICES ASSUME Init PROVE Live = {} /\ BatchSizeExact
  OBVIOUS
<1>1. Range(committed) = {} /\ Range(wq) = {} /\ lmetric.bs = 0
  BY DEF Init, Range
<1>2. Live = {}
  BY <1>1 DEF Init, Live
<1> QED BY <1>1, <1>2, FS_EmptySet DEF BatchSizeExact

LEMMA BatchStep == Struct /\ BatchSizeExact /\ [Next]_vars => BatchSizeExact'
<1> SUFFICES ASSUME Struct, BatchSizeExact, [Next]_vars, Running' PROVE BatchSizeExact'
  BY DEF BatchSizeExact
<1>1. ASSUME NEW r \in Req, Admit(r) PROVE BatchSizeExact'
  <2>1. lmetric'.bs = lmetric.bs + 1
    BY <1>1 DEF Admit
  <2>2. Cardinality(Live') = Cardinality(Live) + 1
    BY <1>1, AdmitLive, LiveType, FS_AddElement DEF Struct
  <2> QED BY <1>1, <2>1, <2>2, AdmitLive DEF BatchSizeExact
<1>2. ASSUME NEW r \in Req, Disconnect(r) PROVE BatchSizeExact'
  <2>1. lmetric' = lmetric
    BY <1>2 DEF Disconnect
  <2> QED BY <1>2, <2>1, DisconnectLive, SameLive
<1>3. CASE WorkLoop
  BY <1>3, WorkLoopLive, SameLive
<1>4. CASE RecvStep \/ LoseStep \/ DrainChannel
  BY <1>4, IntakeLive, SameLive
<1>5. CASE UpdateMetrics
  <2>1. lmetric'.bs = Saturating(lmetric.bs - Cardinality(Released))
    BY <1>5 DEF UpdateMetrics
  <2> QED BY <1>5, <2>1, UpdateMetricsLive, ReleaseExact
<1>6. ASSUME NEW r \in Req, PassGeneration(r) PROVE BatchSizeExact'
  BY <1>6, PassGenerationLive, SameLive
<1>7. CASE EndCycle
  <2>1. lmetric'.bs = Saturating(lmetric.bs - Cardinality(Freed))
    BY <1>7 DEF EndCycle
  <2> QED BY <1>7, <2>1, EndCycleLive, ReleaseExact
<1>8. CASE Engine \/ UNCHANGED vars
  BY <1>8, OtherLive, SameLive
<1> QED BY <1>1, <1>2, <1>3, <1>4, <1>5, <1>6, <1>7, <1>8, FailStops DEF Next, CompletionLoop

(* While the completion loop runs, the batch size the scheduler routes by   *)
(* is the number of requests the replica holds, in every environment.       *)
THEOREM BatchSizeIsExact == Spec => []BatchSizeExact
BY InitStruct, StructStep, InitBatch, BatchStep, PTL DEF Spec

-----------------------------------------------------------------------------
(* The driver implements Replica: a step after which it runs is a step of   *)
(* Replica or a stutter, any other step is Replica's failure.               *)

(* Replica's own copy of Cardinality is the one of this module. *)
LEMMA SameCardinality == \A S : Rep!Cardinality(S) = Cardinality(S)
BY DEF Cardinality, Rep!Cardinality

LEMMA StutterRefines ==
  ASSUME UNCHANGED <<client, lmetric>>, Live' = Live, Running' = Running
  PROVE  UNCHANGED Rep!vars
BY DEF Rep!vars

(* bs never saturates, so a release is an exact subtraction. *)
LEMMA BatchReleased ==
  ASSUME Struct, BatchSizeExact, Running, NEW S, S \subseteq Live,
         lmetric'.bs = Saturating(lmetric.bs - Cardinality(S))
  PROVE  lmetric'.bs = lmetric.bs - Cardinality(S)
<1>1. IsFiniteSet(Live) /\ lmetric.bs = Cardinality(Live) /\ lmetric.bs \in Nat
  BY LiveType DEF Struct, BatchSizeExact
<1>2. Cardinality(S) \in Nat /\ Cardinality(S) <= lmetric.bs
  BY <1>1, FS_Subset, FS_CardinalityType
<1> QED BY <1>1, <1>2, SaturatingNat

LEMMA RunningStep ==
  ASSUME Struct, ClientInv, BatchSizeExact, [Next]_vars, Running'
  PROVE  [Rep!Next]_(Rep!vars)
<1> SUFFICES Rep!Serve \/ UNCHANGED Rep!vars
  BY DEF Rep!Next
<1>1. ASSUME NEW r \in Req, Admit(r) PROVE Rep!Serve
  <2>1. Rep!Assign(r)
    BY <1>1, AdmitLive DEF Admit, Rep!Assign
  <2> QED BY <1>1, <2>1, AdmitLive DEF Rep!Serve
<1>2. ASSUME NEW r \in Req, Disconnect(r) PROVE Rep!Serve
  <2>1. Rep!Leave(r)
    BY <1>2, DisconnectLive DEF Disconnect, Rep!Leave
  <2> QED BY <1>2, <2>1, DisconnectLive DEF Rep!Serve
<1>3. CASE WorkLoop
  <2>1. Running' = Running
    BY <1>3, WorkLoopLive DEF Running
  <2> QED BY <1>3, <2>1, WorkLoopLive, StutterRefines
<1>4. CASE RecvStep \/ LoseStep \/ DrainChannel
  BY <1>4, IntakeLive, StutterRefines
<1>5. CASE UpdateMetrics
  <2>1. lmetric'.bs = Saturating(lmetric.bs - Cardinality(Released))
    BY <1>5 DEF UpdateMetrics
  <2>2. lmetric'.bs = lmetric.bs - Cardinality(Released) /\ Running
    BY <1>5, <2>1, UpdateMetricsLive, BatchReleased
  <2>3. Rep!Finish(Released)
    BY <1>5, <2>2, UpdateMetricsLive, SameCardinality DEF Rep!Finish
  <2> QED BY <1>5, <2>2, <2>3, UpdateMetricsLive DEF Rep!Serve
<1>6. ASSUME NEW r \in Req, PassGeneration(r) PROVE Rep!Serve \/ UNCHANGED Rep!vars
  <2>1. CASE r \in entries /\ step.outs[r].fin /\ client[r] = "waiting"
    <3>1. client' = [client EXCEPT ![r] = "End"]
      BY <1>6, <2>1 DEF PassGeneration
    <3>2. Rep!Answer(r)
      BY <1>6, <2>1, <3>1, PassGenerationLive DEF Rep!Answer
    <3> QED BY <1>6, <3>2, PassGenerationLive DEF Rep!Serve
  <2>2. CASE ~(r \in entries /\ step.outs[r].fin /\ client[r] = "waiting")
    <3>1. client' = client
      <4>1. client' = client \/ (client[r] # "waiting" /\ client' = [client EXCEPT ![r] = client[r]])
        BY <1>6, <2>2 DEF PassGeneration
      <4> QED BY <4>1 DEF Struct, TypeOK
    <3> QED BY <1>6, <3>1, PassGenerationLive, StutterRefines
  <2> QED BY <2>1, <2>2
<1>7. CASE EndCycle
  <2>1. lmetric'.bs = Saturating(lmetric.bs - Cardinality(Freed))
    BY <1>7 DEF EndCycle
  <2>2. lmetric'.bs = lmetric.bs - Cardinality(Freed) /\ Running
    BY <1>7, <2>1, EndCycleLive, BatchReleased
  <2>3. Rep!Except(Faulting, Freed)
    BY <1>7, <2>2, EndCycleLive, EndCycleClient, SameCardinality DEF Rep!Except, Answered
  <2>4. \E F, S \in SUBSET Live : Rep!Except(F, S)
    BY <1>7, <2>3, EndCycleLive
  <2> QED BY <1>7, <2>2, <2>4, EndCycleLive DEF Rep!Serve
<1>8. CASE Engine \/ UNCHANGED vars
  BY <1>8, OtherLive, StutterRefines
<1> QED BY <1>1, <1>2, <1>3, <1>4, <1>5, <1>6, <1>7, <1>8, FailStops DEF Next, CompletionLoop

(* The driver keeps the promise of a replica: as long as it runs, every     *)
(* request takes one slot and gives it up once, and every client is         *)
(* answered at most once, with End only after its slot was given up.        *)
THEOREM DriverImplementsReplica == Spec => ImplementsReplica
<1>1. Init => Rep!Init
  BY InitBatch DEF Init, Rep!Init, Running, SchedulerDead
<1>2. Struct /\ ClientInv /\ BatchSizeExact /\ [Next]_vars => [Rep!Next]_(Rep!vars)
  BY RunningStep DEF Rep!Next, Rep!Fail
<1>3. Init => Struct /\ ClientInv /\ BatchSizeExact
  BY InitStruct, InitClient, InitBatch
<1>4. Struct /\ ClientInv /\ BatchSizeExact /\ [Next]_vars => (Struct /\ ClientInv /\ BatchSizeExact)'
  BY StructStep, ClientStep, BatchStep
<1> QED BY <1>1, <1>2, <1>3, <1>4, PTL DEF Spec, ImplementsReplica, Rep!Spec
=============================================================================

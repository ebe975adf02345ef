----------------------------- MODULE RoutingProofs -----------------------------
(***************************************************************************)
(* Why a decision may count with hits observed under an earlier lock.  The *)
(* observation took them and the epoch together, every change of the index *)
(* counts the epoch up, so an epoch that is still the same vouches for the *)
(* hits.                                                                   *)
(***************************************************************************)
EXTENDS Routing, DataTheorems

(***************************************************************************)
(* What is known of the observation of replica i: it is no newer than the  *)
(* index, and not older unless the epoch tells.                            *)
(***************************************************************************)
Vouched(i) ==
    /\ observations[i].idx = i
    /\ observations[i].epoch \in Int /\ observations[i].epoch <= epoch[i]
    /\ observations[i].epoch = epoch[i] => observations[i].hit = cached[i]

IndexTypeOK ==
    /\ epoch \in [Replica -> Int]
    /\ cached \in [Replica -> Int]

IInv ==
    /\ IndexTypeOK
    /\ DOMAIN observations \subseteq Replica
    /\ \A i \in DOMAIN observations : Vouched(i)

(***************************************************************************)
(* Nothing is observed at first.                                           *)
(***************************************************************************)
LEMMA InitIInv == Init => IInv
<1> SUFFICES ASSUME Init PROVE IInv
  OBVIOUS
<1>1. IndexTypeOK
  BY DEF Init, IndexTypeOK
<1>2. DOMAIN observations = {}
  BY DEF Init, NoObservations
<1> QED
  BY <1>1, <1>2 DEF IInv

(***************************************************************************)
(* Capture pairs the hits with the epoch (capture_observations).           *)
(***************************************************************************)
LEMMA CaptureIInv ==
    ASSUME IInv, NEW i \in Replica, Capture(i)
    PROVE IInv'
<1>1. UNCHANGED <<cached, epoch>>
  BY DEF Capture, indexVars
<1> DEFINE seen == observations'[i]
<1>2. DOMAIN observations' = DOMAIN observations \cup {i}
  BY DEF Capture, Observation
<1>3. seen.idx = i /\ seen.epoch = epoch[i] /\ seen.hit = cached[i]
  BY DEF Capture, Observation
<1>4. \A j \in DOMAIN observations : observations'[j] = observations[j]
  BY DEF Capture, Observation
<1>5. Vouched(i)'
  BY <1>1, <1>3 DEF Vouched, IInv, IndexTypeOK
<1>6. \A j \in DOMAIN observations : Vouched(j)'
  BY <1>1, <1>4 DEF Vouched, IInv
<1> QED
  BY <1>1, <1>2, <1>5, <1>6 DEF IInv, IndexTypeOK

(***************************************************************************)
(* A step of an engine may change its index, and then counts the epoch.    *)
(***************************************************************************)
LEMMA StepIInv ==
    ASSUME IInv, NEW i \in Replica, NEW a, NEW b, NEW k,
           NEW depth \in Depths, Step(i, a, b, k, depth)
    PROVE IInv'
<1>1. observations' = observations
  BY DEF Step, decisionVars
<1>2. cached' = [cached EXCEPT ![i] = depth] /\ depth \in Int
  BY DEF Step, Depths
<1>3. epoch' \in [Replica -> Int] /\ epoch'[i] > epoch[i]
  BY DEF Step, IInv, IndexTypeOK
<1>4. \A j \in Replica \ {i} : epoch'[j] = epoch[j] /\ cached'[j] = cached[j]
  BY <1>2 DEF Step, IInv, IndexTypeOK
<1>5. ASSUME NEW j \in DOMAIN observations PROVE Vouched(j)'
  <2>1. j \in Replica /\ Vouched(j)
    BY DEF IInv
  <2>2. CASE j = i
    BY <1>1, <1>3, <2>1, <2>2 DEF Vouched, IInv, IndexTypeOK
  <2>3. CASE j # i
    BY <1>1, <1>4, <2>1, <2>3 DEF Vouched
  <2> QED
    BY <2>2, <2>3
<1> QED
  BY <1>1, <1>2, <1>3, <1>5 DEF IInv, IndexTypeOK

(***************************************************************************)
(* The other steps leave index and observations alone, or forget these.    *)
(***************************************************************************)
LEMMA NextIInv == IInv /\ [Next]_vars => IInv'
<1> SUFFICES ASSUME IInv, [Next]_vars PROVE IInv'
  OBVIOUS
<1>1. ASSUME UNCHANGED <<cached, epoch, observations>> PROVE IInv'
  BY <1>1 DEF IInv, IndexTypeOK, Vouched
<1>2. CASE Start \/ Decide \/ Tick \/ UNCHANGED vars
  BY <1>1, <1>2 DEF Start, Decide, Tick, vars, indexVars, decisionVars
<1>3. CASE Finish
  <2>1. UNCHANGED <<cached, epoch>> /\ observations' = NoObservations
    BY <1>3 DEF Finish, indexVars
  <2> QED
    BY <2>1 DEF IInv, IndexTypeOK, NoObservations
<1>4. ASSUME NEW i \in Replica, Capture(i) PROVE IInv'
  BY <1>4, CaptureIInv
<1>5. ASSUME NEW i \in Replica, NEW depth \in Depths, StepOf(i, depth) PROVE IInv'
  BY <1>5, StepIInv DEF StepOf
<1>6. ASSUME NEW i \in Replica, Drop(i) PROVE IInv'
  BY <1>1, <1>6 DEF Drop, indexVars, decisionVars
<1> QED
  BY <1>2, <1>3, <1>4, <1>5, <1>6 DEF Next

(***************************************************************************)
(* A decision counts with the hits of the index as it is when the decision *)
(* is applied (apply_default_after), for any number of replicas, whatever  *)
(* the policy and however the engines interleave with it.                  *)
(***************************************************************************)
LEMMA DecideCurrent == IInv /\ Decide => pred_hit' = cached[chosen']
<1> SUFFICES ASSUME IInv, Decide PROVE pred_hit' = cached[chosen']
  OBVIOUS
<1>1. PICK c \in Replica : chosen' = c /\ pred_hit' = HitsAtApply(observations[c])
  BY DEF Decide
<1>2. Vouched(c)
  BY DEF IInv, Decide
<1> QED
  BY <1>1, <1>2 DEF HitsAtApply, Vouched

THEOREM DecisionsAreCurrent == Spec => AppliesCurrentHits
<1>1. Init => IInv
  BY InitIInv
<1>2. IInv /\ [Next]_vars => IInv'
  BY NextIInv
<1>3. IInv /\ [Next]_vars => [Decide => pred_hit' = cached[chosen']]_vars
  BY DecideCurrent
<1> QED
  BY <1>1, <1>2, <1>3, PTL DEF Spec, AppliesCurrentHits

LEMMA BlocksFit ==
  ASSUME req \in Nat, NEW h \in 0..Blocks
  PROVE  /\ Blocks \in Nat /\ h * BlockSize \in Nat /\ h * BlockSize <= req
         /\ Monus(req, h * BlockSize) = req - h * BlockSize
<1>1. BlockSize \in Nat \ {0}
  BY RoutingAssumption
<1>2. Blocks \in Nat /\ Blocks * BlockSize <= req
  BY <1>1 DEF Blocks
<1>3. h * BlockSize \in Nat /\ h * BlockSize <= Blocks * BlockSize
  BY <1>1, <1>2
<1>4. h * BlockSize <= req
  BY <1>1, <1>2, <1>3
<1> QED BY <1>2, <1>3, <1>4 DEF Monus

(* What the hits of a sequence leave to compute.                            *)
LEMMA ToComputeType ==
  ASSUME req \in Nat, NEW s \in Seq(0..Blocks)
  PROVE  /\ ToCompute(s) \in Seq(Int) /\ Len(ToCompute(s)) = Len(s)
         /\ SumFunction(ToCompute(s)) = SeqSum(ToCompute(s)) /\ SeqSum(ToCompute(s)) \in Int
<1>1. Len(s) \in Nat /\ DOMAIN s = 1..Len(s) /\ \A k \in 1..Len(s) : s[k] \in 0..Blocks
  BY LenProperties
<1>2. \A k \in 1..Len(s) : Monus(req, s[k] * BlockSize) \in Int
  BY <1>1, BlocksFit
<1>3. ToCompute(s) \in [1..Len(s) -> Int]
  BY <1>1, <1>2 DEF ToCompute
<1>4. ToCompute(s) \in Seq(Int) /\ Len(ToCompute(s)) = Len(s)
  BY <1>1, <1>3, IsASeq, LenProperties
<1>5. DOMAIN ToCompute(s) = 1..Len(ToCompute(s))
  BY <1>4, LenProperties
<1> QED BY <1>4, <1>5, SumFunctionIs, SeqSumType DEF SeqSum

LEMMA ComputeEmpty == ToCompute(<<>>) = <<>> /\ SumFunction(ToCompute(<<>>)) = 0
<1>1. ToCompute(<<>>) = <<>>
  BY DEF ToCompute
<1>2. DOMAIN <<>> = 1..Len(<<>>)
  BY EmptySeq, LenProperties
<1> QED BY <1>1, <1>2, SumFunctionIs, SeqSumEmpty DEF SeqSum

LEMMA ComputeAppend ==
  ASSUME req \in Nat, NEW s \in Seq(0..Blocks), NEW h \in 0..Blocks
  PROVE  SumFunction(ToCompute(Append(s, h))) = SumFunction(ToCompute(s)) + (req - h * BlockSize)
<1> DEFINE t == Append(s, h)
<1>1. /\ t \in Seq(0..Blocks) /\ Len(t) = Len(s) + 1 /\ t[Len(s) + 1] = h /\ Len(s) \in Nat
      /\ \A k \in 1..Len(s) : t[k] = s[k]
      /\ DOMAIN s = 1..Len(s) /\ DOMAIN t = 1..(Len(s) + 1)
  BY AppendProperties, LenProperties
<1>2. /\ ToCompute(s) \in Seq(Int) /\ Len(ToCompute(s)) = Len(s)
      /\ ToCompute(t) \in Seq(Int) /\ Len(ToCompute(t)) = Len(t)
  BY <1>1, ToComputeType
<1>3. Monus(req, h * BlockSize) = req - h * BlockSize /\ req - h * BlockSize \in Int
  BY BlocksFit
<1> HIDE DEF t
<1>4. ToCompute(t) = Append(ToCompute(s), req - h * BlockSize)
  <2> DEFINE a == ToCompute(t)
             b == ToCompute(s)
             c == Append(b, req - h * BlockSize)
  <2>1. c \in Seq(Int) /\ Len(c) = Len(s) + 1 /\ c[Len(s) + 1] = req - h * BlockSize
        /\ \A k \in 1..Len(s) : c[k] = b[k]
    BY <1>2, <1>3, AppendProperties
  <2>2. a[Len(s) + 1] = req - h * BlockSize
    BY <1>1, <1>3 DEF ToCompute
  <2>3. \A k \in 1..Len(s) : a[k] = b[k]
    BY <1>1 DEF ToCompute
  <2> HIDE DEF a, b, c
  <2>4. \A k \in 1..Len(a) : a[k] = c[k]
    <3> TAKE k \in 1..Len(a)
    <3>1. k \in 1..Len(s) \/ k = Len(s) + 1
      BY <1>1, <1>2 DEF a
    <3> QED BY <3>1, <2>1, <2>2, <2>3
  <2>5. a \in Seq(Int) /\ Len(a) = Len(c)
    BY <1>1, <1>2, <2>1 DEF a
  <2>6. a = c
    BY <2>1, <2>4, <2>5, SeqEqual
  <2> QED BY <2>6 DEF a, b, c
<1>5. SeqSum(ToCompute(t)) = SeqSum(ToCompute(s)) + (req - h * BlockSize)
  BY <1>2, <1>3, <1>4, SeqSumAppend
<1> QED BY <1>1, <1>5, ToComputeType DEF t

LEMMA ComputeTail ==
  ASSUME req \in Nat, NEW s \in Seq(0..Blocks), s # <<>>
  PROVE  /\ Head(s) \in 0..Blocks /\ Tail(s) \in Seq(0..Blocks) /\ Len(Tail(s)) = Len(s) - 1
         /\ SumFunction(ToCompute(Tail(s))) = SumFunction(ToCompute(s)) - (req - Head(s) * BlockSize)
<1> DEFINE t == Tail(s)
<1>1. /\ Head(s) \in 0..Blocks /\ t \in Seq(0..Blocks) /\ Len(s) \in Nat \ {0} /\ Len(t) = Len(s) - 1
      /\ Head(s) = s[1] /\ \A k \in 1..Len(t) : t[k] = s[k + 1]
      /\ DOMAIN s = 1..Len(s) /\ DOMAIN t = 1..Len(t)
  <2>1. /\ Head(s) \in 0..Blocks /\ t \in Seq(0..Blocks) /\ Len(t) = Len(s) - 1
        /\ \A k \in 1..Len(t) : t[k] = s[k + 1]
    BY HeadTailProperties
  <2>2. Len(s) \in Nat \ {0} /\ DOMAIN s = 1..Len(s) /\ Head(s) = s[1]
    BY LenProperties, EmptySeq
  <2> HIDE DEF t
  <2>3. DOMAIN t = 1..Len(t)
    BY <2>1, LenProperties
  <2> QED BY <2>1, <2>2, <2>3
<1> HIDE DEF t
<1> DEFINE a == ToCompute(s)
           b == ToCompute(t)
<1>2. /\ a \in Seq(Int) /\ Len(a) = Len(s) /\ SumFunction(a) = SeqSum(a) /\ SeqSum(a) \in Int
      /\ b \in Seq(Int) /\ Len(b) = Len(t) /\ SumFunction(b) = SeqSum(b) /\ SeqSum(b) \in Int
  BY <1>1, ToComputeType
<1>3. a[1] = req - Head(s) * BlockSize /\ \A k \in 1..Len(t) : b[k] = a[k + 1]
  BY <1>1, BlocksFit, SMTT(30) DEF ToCompute
<1> HIDE DEF a, b
<1>4. a # <<>>
  BY <1>1, <1>2, EmptySeq
<1>5. Tail(a) = b
  <2>1. Tail(a) \in Seq(Int) /\ Len(Tail(a)) = Len(b) /\ \A k \in 1..Len(Tail(a)) : Tail(a)[k] = b[k]
    BY <1>1, <1>2, <1>3, <1>4, HeadTailProperties
  <2> QED BY <1>2, <2>1, SeqEqual
<1>6. Head(a) \in Int /\ SeqSum(a) = Head(a) + SeqSum(b) /\ Head(a) = a[1]
  <2>1. Head(a) \in Int /\ SeqSum(a) = Head(a) + SeqSum(Tail(a))
    BY <1>2, <1>4, SeqSumTail
  <2>2. Head(a) = a[1]
    BY <1>2, <1>4
  <2> QED BY <1>5, <2>1, <2>2
<1>7. SeqSum(b) = SeqSum(a) - (req - Head(s) * BlockSize)
  BY <1>2, <1>3, <1>6
<1> QED BY <1>1, <1>2, <1>7 DEF a, b, t
(* What Routing!WaitingTokensAccounted says of one replica.                 *)
Exact(i) ==
    /\ lmetric[i].bs = Len(running[i]) + Len(Underway(i)) + leaving[i].bs
    /\ "waiting" \notin amiss[i] => lmetric[i].waiting = Len(Underway(i))
    /\ "queued" \notin amiss[i] => TokensWaiting(i)

(* A request the engine has begun.                                          *)
Held == [pred : 0..Blocks, real : 0..Blocks, gen : Nat, left : Nat]

LMetric == [bs : Int, waiting : Int, queued : Int, all : Int]

(* Hits are at most the blocks of a prompt, and a replica is chosen from    *)
(* the decision to the end of its extra step.                               *)
WaitType ==
    /\ req \in Nat \ {0}
    /\ lmetric \in [Replica -> LMetric]
    /\ waiting \in [Replica -> Seq(0..Blocks)]
    /\ running \in [Replica -> Seq(Held)]
    /\ leaving \in [Replica -> [bs : Nat, all : Int]]
    /\ amiss \in [Replica -> SUBSET {"waiting", "queued"}]
    /\ cached \in [Replica -> 0..Blocks]
    /\ pred_hit \in 0..Blocks
    /\ chosen \in Replica \cup {Nobody} /\ (chosen = Nobody <=> pc # "extra")

WaitInv == WaitType /\ \A i \in Replica : Exact(i)

(* The same with the sequence of requests underway given a name.            *)
LEMMA ExactOf ==
  ASSUME NEW i, NEW u, Underway(i) = u
  PROVE  Exact(i) <=> /\ lmetric[i].bs = Len(running[i]) + Len(u) + leaving[i].bs
                      /\ "waiting" \notin amiss[i] => lmetric[i].waiting = Len(u)
                      /\ "queued" \notin amiss[i] => lmetric[i].queued = SumFunction(ToCompute(u))
BY DEF Exact, TokensWaiting

(* The same after a step that leaves the prompt alone.                      *)
LEMMA ExactNext ==
  ASSUME NEW i, NEW u, Underway(i)' = u, req' = req
  PROVE  Exact(i)' <=> /\ lmetric'[i].bs = Len(running'[i]) + Len(u) + leaving'[i].bs
                       /\ "waiting" \notin amiss'[i] => lmetric'[i].waiting = Len(u)
                       /\ "queued" \notin amiss'[i] => lmetric'[i].queued = SumFunction(ToCompute(u))
<1>1. ToCompute(Underway(i))' = ToCompute(u)
  BY DEF ToCompute
<1>2. Exact(i)' <=> /\ lmetric'[i].bs = Len(running'[i]) + Len(Underway(i)') + leaving'[i].bs
                    /\ "waiting" \notin amiss'[i] => lmetric'[i].waiting = Len(Underway(i)')
                    /\ "queued" \notin amiss'[i] => lmetric'[i].queued = SumFunction(ToCompute(Underway(i))')
  BY DEF Exact, TokensWaiting
<1> QED BY <1>1, <1>2

(* What nothing has happened to is as it was.                               *)
LEMMA ExactKept ==
  ASSUME NEW i, Exact(i), req' = req, lmetric'[i] = lmetric[i], running'[i] = running[i],
         leaving'[i] = leaving[i], amiss'[i] = amiss[i], Underway(i)' = Underway(i)
  PROVE  Exact(i)'
<1>1. PICK u : u = Underway(i)
  OBVIOUS
<1>2. /\ lmetric[i].bs = Len(running[i]) + Len(u) + leaving[i].bs
      /\ "waiting" \notin amiss[i] => lmetric[i].waiting = Len(u)
      /\ "queued" \notin amiss[i] => lmetric[i].queued = SumFunction(ToCompute(u))
  BY <1>1, ExactOf
<1>3. Underway(i)' = u
  BY <1>1
<1> QED BY <1>2, <1>3, ExactNext

(* The requests underway are the predicted hits of each.                    *)
LEMMA UnderwayType ==
  ASSUME WaitType, NEW i \in Replica
  PROVE  Underway(i) \in Seq(0..Blocks) /\ Len(Underway(i)) \in Nat
<1>1. waiting[i] \in Seq(0..Blocks) /\ pred_hit \in 0..Blocks
  BY DEF WaitType
<1>2. Append(waiting[i], pred_hit) \in Seq(0..Blocks)
  BY <1>1, AppendProperties
<1>3. Underway(i) \in Seq(0..Blocks)
  BY <1>1, <1>2 DEF Underway
<1> QED BY <1>3, LenProperties

(* No replica has anything at first.                                        *)
LEMMA InitWait == Init => WaitInv
<1> SUFFICES ASSUME Init PROVE WaitInv
  OBVIOUS
<1>1. req \in Nat \ {0} /\ BlockSize \in Nat \ {0} /\ N \in Nat \ {0}
  BY RoutingAssumption DEF Init
<1>2. Blocks \in Nat
  BY <1>1 DEF Blocks
<1>3. WaitType
  <2>1. waiting \in [Replica -> Seq(0..Blocks)] /\ running \in [Replica -> Seq(Held)]
    <3>1. <<>> \in Seq(0..Blocks) /\ <<>> \in Seq(Held)
      BY EmptySeq
    <3> QED BY <3>1 DEF Init
  <2>2. cached \in [Replica -> 0..Blocks]
    BY DEF Init
  <2>3. lmetric \in [Replica -> LMetric]
    BY DEF Init, LMetric
  <2>4. chosen = Nobody /\ pc = "idle" /\ pred_hit = 0
    BY DEF Init
  <2>5. leaving \in [Replica -> [bs : Nat, all : Int]] /\ amiss \in [Replica -> SUBSET {"waiting", "queued"}]
    BY DEF Init, NothingLeaves
  <2> QED BY <1>1, <1>2, <2>1, <2>2, <2>3, <2>4, <2>5 DEF WaitType
<1>4. ASSUME NEW i \in Replica PROVE Exact(i)
  <2>1. Underway(i) = <<>>
    BY <1>1 DEF Init, Underway, Replica, Nobody
  <2>2. /\ lmetric[i].waiting = 0 /\ lmetric[i].bs = 0 /\ lmetric[i].queued = 0
        /\ running[i] = <<>> /\ leaving[i].bs = 0
    BY DEF Init, NothingLeaves
  <2>3. Len(<<>>) = 0
    OBVIOUS
  <2>4. Len(Underway(i)) = 0 /\ Len(running[i]) = 0 /\ SumFunction(ToCompute(Underway(i))) = 0
    BY <2>1, <2>2, <2>3, ComputeEmpty
  <2> QED BY <2>2, <2>4 DEF Exact, TokensWaiting
<1> QED BY <1>3, <1>4 DEF WaitInv

(* A decision adds one request, and what it has to compute by the index.    *)
LEMMA DecideWait == ASSUME IInv, WaitInv, Decide PROVE WaitInv'
<1>1. PICK c \in Replica :
        /\ chosen' = c /\ pred_hit' = HitsAtApply(observations[c])
        /\ lmetric' = [lmetric EXCEPT ![c] =
              [bs |-> @.bs + 1, waiting |-> @.waiting + 1,
               queued |-> @.queued + Monus(req, HitsAtApply(observations[c]) * BlockSize), all |-> @.all + req]]
  BY DEF Decide
<1>2. pc = "capture" /\ pc' = "extra" /\ UNCHANGED <<req, cached, waiting, running, leaving, amiss>>
  BY DEF Decide, indexVars, engineVars
<1>3. WaitType /\ \A i \in Replica : Exact(i)
  BY DEF WaitInv
<1>4. HitsAtApply(observations[c]) = cached[c]
  BY <1>1, DecideCurrent
<1>5. PICK h \in 0..Blocks : h = cached[c]
  BY <1>3 DEF WaitType
<1>6. pred_hit' = h
  BY <1>1, <1>4, <1>5
<1>7. Monus(req, h * BlockSize) = req - h * BlockSize /\ req - h * BlockSize \in Int /\ Blocks \in Nat
  BY <1>3, BlocksFit DEF WaitType
<1>8. /\ lmetric'[c].bs = lmetric[c].bs + 1 /\ lmetric'[c].waiting = lmetric[c].waiting + 1
      /\ lmetric'[c].queued = lmetric[c].queued + (req - h * BlockSize)
      /\ lmetric' \in [Replica -> LMetric]
      /\ \A i \in Replica \ {c} : lmetric'[i] = lmetric[i]
  <2> DEFINE m == lmetric[c]
             v == [bs |-> m.bs + 1, waiting |-> m.waiting + 1,
                   queued |-> m.queued + (req - h * BlockSize), all |-> m.all + req]
  <2>1. m \in LMetric /\ req \in Int /\ lmetric \in [Replica -> LMetric]
    BY <1>3 DEF WaitType
  <2>2. lmetric' = [lmetric EXCEPT ![c] = v]
    BY <1>1, <1>4, <1>5, <1>7
  <2>3. v \in LMetric
    BY <1>7, <2>1 DEF LMetric
  <2>4. /\ v.bs = m.bs + 1 /\ v.waiting = m.waiting + 1
        /\ v.queued = m.queued + (req - h * BlockSize)
    OBVIOUS
  <2> HIDE DEF v
  <2> QED BY <2>1, <2>2, <2>3, <2>4
<1>9. WaitType'
  <2>1. Blocks' = Blocks /\ Held' = Held
    BY <1>2 DEF Blocks, Held
  <2>2. chosen' \in Replica /\ chosen' # Nobody
    BY <1>1, RoutingAssumption DEF Replica, Nobody
  <2> QED BY <1>2, <1>3, <1>6, <1>8, <2>1, <2>2 DEF WaitType
<1>10. \A i \in Replica : Underway(i) = waiting[i]
  BY <1>2, <1>3, RoutingAssumption DEF Underway, WaitType, Replica, Nobody
<1>11. ASSUME NEW i \in Replica \ {c} PROVE Exact(i)'
  <2>1. Underway(i)' = Underway(i)
    BY <1>1, <1>2, <1>10 DEF Underway
  <2> QED BY <2>1, <1>2, <1>3, <1>8, ExactKept
<1>12. Exact(c)'
  <2>1. PICK s \in Seq(0..Blocks), r \in Nat, l \in Nat : s = waiting[c] /\ r = Len(running[c]) /\ l = leaving[c].bs
    BY <1>3, LenProperties DEF WaitType
  <2>2. Underway(c) = s /\ Underway(c)' = Append(s, h)
    BY <1>1, <1>2, <1>6, <1>10, <2>1 DEF Underway
  <2>3. /\ lmetric[c].bs = r + Len(s) + l
        /\ "waiting" \notin amiss[c] => lmetric[c].waiting = Len(s)
        /\ "queued" \notin amiss[c] => lmetric[c].queued = SumFunction(ToCompute(s))
    BY <1>3, <2>1, <2>2, ExactOf
  <2>4. Len(Append(s, h)) = Len(s) + 1 /\ Len(s) \in Nat
    BY AppendProperties, LenProperties
  <2>5. SumFunction(ToCompute(Append(s, h))) = SumFunction(ToCompute(s)) + (req - h * BlockSize)
    BY <1>3, ComputeAppend DEF WaitType
  <2>6. running'[c] = running[c] /\ leaving'[c] = leaving[c] /\ amiss'[c] = amiss[c]
    BY <1>2
  <2>7. lmetric'[c].bs = r + Len(Append(s, h)) + l
    BY <1>8, <2>3, <2>4
  <2>8. /\ "waiting" \notin amiss'[c] => lmetric'[c].waiting = Len(Append(s, h))
        /\ "queued" \notin amiss'[c] => lmetric'[c].queued = SumFunction(ToCompute(Append(s, h)))
    BY <1>8, <2>3, <2>4, <2>5, <2>6
  <2> QED BY <1>2, <2>1, <2>2, <2>6, <2>7, <2>8, ExactNext
<1> QED BY <1>9, <1>11, <1>12 DEF WaitInv
(* The request joins the engine's queue with the hits the counter expects.  *)
LEMMA FinishWait == ASSUME WaitInv, Finish PROVE WaitInv'
<1>1. /\ pc = "extra" /\ pc' = "idle" /\ chosen' = Nobody /\ pred_hit' = 0
      /\ waiting' = [waiting EXCEPT ![chosen] = Append(@, pred_hit)]
      /\ UNCHANGED <<req, lmetric, cached, running, leaving, amiss>>
  BY DEF Finish, indexVars
<1>2. WaitType /\ \A i \in Replica : Exact(i)
  BY DEF WaitInv
<1>3. PICK c \in Replica : c = chosen
  BY <1>1, <1>2 DEF WaitType
<1>4. Append(waiting[c], pred_hit) \in Seq(0..Blocks)
  <2>1. waiting[c] \in Seq(0..Blocks) /\ pred_hit \in 0..Blocks
    BY <1>2 DEF WaitType
  <2> QED BY <2>1, AppendProperties
<1>5. WaitType'
  <2>0. req \in Nat /\ pred_hit \in 0..Blocks /\ Blocks' = Blocks /\ Held' = Held
    BY <1>1, <1>2 DEF Blocks, Held, WaitType
  <2>1. 0 \in 0..Blocks
    BY <2>0, BlocksFit
  <2>2. waiting' \in [Replica -> Seq(0..Blocks)]
    BY <1>1, <1>2, <1>3, <1>4 DEF WaitType
  <2> QED BY <1>1, <1>2, <2>0, <2>1, <2>2 DEF WaitType
<1>6. ASSUME NEW i \in Replica PROVE Exact(i)'
  <2>1. i # Nobody /\ waiting \in [Replica -> Seq(0..Blocks)]
    <3>1. i # Nobody
      BY RoutingAssumption DEF Replica, Nobody
    <3> QED BY <1>2, <3>1 DEF WaitType
  <2>2. Underway(i)' = Underway(i)
    <3>1. Underway(i)' = waiting'[i]
      BY <1>1, <2>1 DEF Underway
    <3>2. waiting'[i] = IF chosen = i THEN Append(waiting[i], pred_hit) ELSE waiting[i]
      BY <1>1, <1>3, <2>1
    <3> QED BY <3>1, <3>2 DEF Underway
  <2> QED BY <1>1, <1>2, <2>2, ExactKept
<1> QED BY <1>5, <1>6 DEF WaitInv


(* What a step may say of a request, and what it does to the counters.      *)
Event == [of : Held, what : {"nothing", "output", "finished", "preempted", "dropped"}, n : Nat]

(* What is computed of a prompt is not all of it.                           *)
LEMMA HitsFit ==
  ASSUME req \in Nat \ {0}, NEW h \in Hits
  PROVE  h \in 0..Blocks /\ h * BlockSize \in Nat /\ h * BlockSize < req
<1>1. h \in 0..Blocks /\ (h = 0 \/ h * BlockSize < req)
  BY DEF Hits, Depths
<1>2. h * BlockSize \in Nat /\ BlockSize \in Nat
  BY <1>1, BlocksFit, RoutingAssumption
<1>3. 0 * BlockSize = 0
  BY <1>2
<1> QED BY <1>1, <1>2, <1>3

(* A request the engine begins has tokens left to compute.                  *)
LEMMA BegunIs ==
  ASSUME req \in Nat \ {0}, NEW p \in 0..Blocks, NEW h \in Hits
  PROVE  /\ Begun(p, h) \in Held /\ Begun(p, h).pred = p /\ Begun(p, h).gen = 0
         /\ Begun(p, h).real = h /\ Begun(p, h).left = req - h * BlockSize /\ Begun(p, h).left > 0
<1>1. h \in 0..Blocks /\ h * BlockSize \in Nat /\ h * BlockSize < req
  BY HitsFit
<1>2. req - h * BlockSize \in Nat /\ req - h * BlockSize > 0
  BY <1>1
<1> QED BY <1>1, <1>2 DEF Begun, Held

(* Nothing is an event, of a request nobody has.                            *)
LEMMA NothingIs ==
  ASSUME req \in Nat \ {0}
  PROVE  Nothing \in Event /\ Nothing.what = "nothing" /\ Nothing.n = 0
<1>1. Blocks \in Nat /\ BlockSize \in Nat
  <2>1. BlockSize \in Nat \ {0}
    BY RoutingAssumption
  <2> QED BY <2>1 DEF Blocks
<1>2. 0 * BlockSize = 0
  BY <1>1
<1>3. Begun(0, 0) \in Held
  BY <1>1, <1>2 DEF Begun, Held
<1> QED BY <1>3 DEF Nothing, Event

(* What a step may say of a request begun.                                  *)
LEMMA ReportsAre ==
  ASSUME NEW r \in Held, NEW e \in Reports(r)
  PROVE  /\ e \in Event /\ e.of = r /\ e.what \in {"output", "finished", "dropped"}
         /\ e.what = "output" => 0 < e.n /\ e.n <= r.left
         /\ e.what = "finished" => e.n = r.left
         /\ e.what = "dropped" => e.n = 0
<1>1. r.left \in Nat /\ Chunks \subseteq Nat
  BY RoutingAssumption DEF Held
<1>2. CASE \E n \in {c \in Chunks \cup {r.left} : 0 < c /\ c <= r.left} : e = [of |-> r, what |-> "output", n |-> n]
  BY <1>1, <1>2 DEF Event
<1>3. CASE e = [of |-> r, what |-> "finished", n |-> r.left]
  BY <1>1, <1>3 DEF Event
<1>4. CASE e = [of |-> r, what |-> "dropped", n |-> 0]
  BY <1>4 DEF Event
<1> QED BY <1>2, <1>3, <1>4 DEF Reports

(* The first request not begun, with the hits the counter expects.          *)
LEMMA FirstIs ==
  ASSUME WaitType, NEW i \in Replica, NEW e \in FirstReports(i)
  PROVE  /\ waiting[i] # <<>> /\ e \in Event /\ e.what \in {"output", "finished", "dropped"}
         /\ e.of.pred = Head(waiting[i]) /\ e.of.left = req - e.of.real * BlockSize /\ e.of.left > 0
         /\ e.what = "output" => e.n <= e.of.left
         /\ e.what = "finished" => e.n = e.of.left
<1>1. waiting[i] # <<>>
  BY DEF FirstReports
<1>2. PICK h \in Hits : e \in Reports(Begun(Head(waiting[i]), h))
  BY DEF FirstReports
<1>3. Head(waiting[i]) \in 0..Blocks /\ req \in Nat \ {0}
  <2>1. waiting[i] \in Seq(0..Blocks)
    BY DEF WaitType
  <2> QED BY <1>1, <2>1, HeadTailProperties DEF WaitType
<1>4. PICK r \in Held : /\ r = Begun(Head(waiting[i]), h) /\ r.pred = Head(waiting[i]) /\ r.real = h
                        /\ r.left = req - h * BlockSize /\ r.left > 0
  BY <1>3, BegunIs
<1>5. e \in Reports(r)
  BY <1>2, <1>4
<1>6. /\ e \in Event /\ e.of = r /\ e.what \in {"output", "finished", "dropped"}
      /\ e.what = "output" => 0 < e.n /\ e.n <= r.left
      /\ e.what = "finished" => e.n = r.left
  BY <1>5, ReportsAre
<1> QED BY <1>1, <1>4, <1>6

(* A request begun; if it is preempted it is to be computed again.          *)
LEMMA LaterIs ==
  ASSUME req \in Nat \ {0}, NEW r \in Held, NEW e \in LaterReports(r)
  PROVE  /\ e \in Event /\ e.what # "nothing"
         /\ e.what = "output" => 0 < e.n /\ e.n <= e.of.left
         /\ e.what = "finished" => e.n = e.of.left
         /\ e.what \in {"dropped", "preempted"} => e.n = 0
<1>1. CASE e \in Reports(r)
  BY <1>1, ReportsAre
<1>2. ASSUME NEW h \in Hits,
             e = [of |-> [r EXCEPT !.real = h, !.left = req + r.gen - h * BlockSize],
                  what |-> "preempted", n |-> 0]
      PROVE  e \in Event /\ e.what = "preempted" /\ e.n = 0
  <2>1. h \in 0..Blocks /\ h * BlockSize \in Nat /\ h * BlockSize < req
    BY HitsFit
  <2>2. r.gen \in Nat /\ req \in Nat
    BY DEF Held
  <2>3. req + r.gen - h * BlockSize \in Nat
    BY <2>1, <2>2
  <2>4. [r EXCEPT !.real = h, !.left = req + r.gen - h * BlockSize] \in Held
    BY <2>1, <2>3 DEF Held
  <2> QED BY <1>2, <2>4 DEF Event
<1> QED BY <1>1, <1>2 DEF LaterReports

(* Each request an event is about is begun, finished or dropped after it.   *)
LEMMA EventGives ==
  ASSUME req \in Nat \ {0}, NEW e \in Event, e.what = "output" => e.n <= e.of.left
  PROVE  /\ QueuedDec(e) \in Int /\ AllInc(e) \in Int
         /\ After(e) \in Seq(Held) /\ Len(After(e)) \in Nat
         /\ Dropped(e) \in [bs : Nat, all : Int]
         /\ e.what = "nothing" => One(e.what = "finished") + Len(After(e)) + Dropped(e).bs = 0
         /\ e.what # "nothing" => One(e.what = "finished") + Len(After(e)) + Dropped(e).bs = 1
<1>1. /\ e.of \in Held /\ e.n \in Nat /\ e.of.left \in Nat /\ e.of.gen \in Nat /\ e.of.real \in Int /\ e.of.pred \in Int
      /\ e.what \in {"nothing", "output", "finished", "preempted", "dropped"} /\ BlockSize \in Int /\ req \in Int
  BY RoutingAssumption DEF Event, Held
<1>2. QueuedDec(e) \in Int
  <2>1. (e.of.real - e.of.pred) * BlockSize \in Int
    BY <1>1
  <2> QED BY <1>1, <2>1 DEF QueuedDec
<1>3. AllInc(e) \in Int
  BY <1>1 DEF AllInc
<1>4. After(e) \in Seq(Held) /\ Len(After(e)) = IF e.what \in {"output", "preempted"} THEN 1 ELSE 0
  <2>1. CASE e.what = "output"
    <3>1. PICK x \in Nat, y \in Nat :
            x = e.of.left - e.n /\ y = IF e.n = e.of.left THEN e.of.gen + 1 ELSE e.of.gen
      BY <1>1, <2>1
    <3> DEFINE h == [e.of EXCEPT !.left = x, !.gen = y]
    <3>2. h \in Held
      BY <1>1, <3>1 DEF Held
    <3>3. After(e) = <<h>>
      BY <2>1, <3>1 DEF After
    <3> HIDE DEF h
    <3> QED BY <2>1, <3>2, <3>3
  <2>2. CASE e.what = "preempted"
    <3>1. After(e) = <<e.of>>
      BY <2>2 DEF After
    <3> QED BY <1>1, <2>2, <3>1
  <2>3. CASE e.what \notin {"output", "preempted"}
    <3>1. After(e) = <<>>
      BY <2>3 DEF After
    <3> QED BY <2>3, <3>1, EmptySeq
  <2> QED BY <2>1, <2>2, <2>3
<1>5. Dropped(e) \in [bs : Nat, all : Int] /\ Dropped(e).bs = IF e.what = "dropped" THEN 1 ELSE 0
  <2>1. req + e.of.gen \in Int
    BY <1>1
  <2> QED BY <2>1 DEF Dropped, NothingLeaves
<1>6. One(e.what = "finished") = IF e.what = "finished" THEN 1 ELSE 0
  BY DEF One
<1>7. /\ e.what = "nothing" => One(e.what = "finished") + Len(After(e)) + Dropped(e).bs = 0
      /\ e.what # "nothing" => One(e.what = "finished") + Len(After(e)) + Dropped(e).bs = 1
  BY <1>1, <1>4, <1>5, <1>6
<1> QED BY <1>2, <1>3, <1>4, <1>5, <1>7

(* What the end of a whole prefill takes away is what its decision added,   *)
(* whatever the engine found cached.                                        *)
LEMMA FirstTakes ==
  ASSUME WaitType, NEW i \in Replica, NEW e \in FirstReports(i)
  PROVE  /\ "waiting" \notin FirstAmiss(e) => IsPrefill(e)
         /\ "queued" \notin FirstAmiss(e) => QueuedDec(e) = req - Head(waiting[i]) * BlockSize
<1>1. /\ e.what \in {"output", "finished", "dropped"} /\ e.of.pred = Head(waiting[i])
      /\ e.of.left = req - e.of.real * BlockSize /\ e.of.left > 0
      /\ e.what = "output" => e.n <= e.of.left
      /\ e.what = "finished" => e.n = e.of.left
      /\ e.n \in Nat /\ e.of.left \in Nat /\ e.of.real \in Nat /\ e.of.pred \in Nat
  BY FirstIs DEF Event, Held
<1>2. "waiting" \notin FirstAmiss(e) => IsPrefill(e)
  BY <1>1 DEF FirstAmiss, IsPrefill
<1>3. ASSUME "queued" \notin FirstAmiss(e) PROVE QueuedDec(e) = req - e.of.pred * BlockSize
  <2>1. PICK l \in Nat, r \in Nat, p \in Nat : l = e.of.left /\ r = e.of.real /\ p = e.of.pred
    BY <1>1
  <2>2. BlockSize \in Nat /\ req \in Nat
    BY RoutingAssumption DEF WaitType
  <2>3. (r - p) * BlockSize = r * BlockSize - p * BlockSize /\ r * BlockSize \in Int /\ p * BlockSize \in Int
    BY <2>2
  <2>4. l = req - r * BlockSize
    BY <1>1, <2>1
  <2>5. CASE e.what = "output"
    <3>1. e.n = l
      BY <1>1, <1>3, <2>1, <2>5 DEF FirstAmiss
    <3>2. QueuedDec(e) = e.n + (r - p) * BlockSize
      BY <1>1, <2>1, <2>5 DEF QueuedDec, IsPrefill
    <3> QED BY <2>1, <2>2, <2>3, <2>4, <3>1, <3>2
  <2>6. CASE e.what = "finished"
    <3>1. r = p
      BY <1>3, <2>1, <2>6 DEF FirstAmiss
    <3>2. QueuedDec(e) = l
      BY <1>1, <2>1, <2>6 DEF QueuedDec
    <3> QED BY <2>1, <2>4, <3>1, <3>2
  <2>7. e.what # "dropped"
    BY <1>3 DEF FirstAmiss
  <2> QED BY <1>1, <2>5, <2>6, <2>7
<1> QED BY <1>1, <1>2, <1>3

(* A request begun takes nothing more away, unless it is prefilled again.   *)
LEMMA LaterTakes ==
  ASSUME req \in Nat \ {0}, NEW e,
         e = Nothing \/ \E r \in Held : e \in LaterReports(r),
         LaterAmiss(e) = {}
  PROVE  ~ IsPrefill(e) /\ QueuedDec(e) = 0
<1>1. ~ IsPrefill(e)
  BY DEF LaterAmiss
<1>2. /\ e \in Event /\ (e.what = "output" => 0 < e.n /\ e.n <= e.of.left)
      /\ e.what = "finished" => e.n = e.of.left
      /\ e.what \in {"nothing", "dropped", "preempted"} => e.n = 0
  <2>1. CASE e = Nothing
    BY <2>1, NothingIs
  <2>2. CASE \E r \in Held : e \in LaterReports(r)
    BY <2>2, LaterIs
  <2> QED BY <2>1, <2>2
<1>3. e.n \in Nat /\ e.of.left \in Nat /\ e.what \in {"nothing", "output", "finished", "preempted", "dropped"}
  BY <1>2 DEF Event, Held
<1>4. e.n = 0
  BY <1>1, <1>2, <1>3 DEF IsPrefill
<1> QED BY <1>1, <1>4 DEF QueuedDec

(* A sequence with one place given to what is left of it.                   *)
LEMMA InsteadIs ==
  ASSUME NEW S, NEW r \in Seq(S), NEW u \in Seq(S), NEW k \in 1..(Len(r) + 1)
  PROVE  /\ Instead(r, k, u) \in Seq(S)
         /\ k <= Len(r) => Len(Instead(r, k, u)) = (Len(r) - 1) + Len(u)
         /\ k = Len(r) + 1 => Len(Instead(r, k, u)) = Len(r) + Len(u)
<1>1. Len(r) \in Nat /\ Len(u) \in Nat /\ k \in Nat /\ 1 <= k /\ k <= Len(r) + 1
  BY LenProperties
<1>2. SubSeq(r, 1, k - 1) \in Seq(S) /\ Len(SubSeq(r, 1, k - 1)) = k - 1
  <2>1. 1 \in 1..(Len(r) + 1) /\ k - 1 \in 0..Len(r)
    BY <1>1
  <2>2. \A j \in 1..(k - 1) : r[j] \in S
    BY <1>1, LenProperties
  <2> QED BY <1>1, <2>1, <2>2, SubSeqProperties
<1>3. /\ SubSeq(r, k + 1, Len(r)) \in Seq(S)
      /\ Len(SubSeq(r, k + 1, Len(r))) = IF k <= Len(r) THEN Len(r) - k ELSE 0
  <2>1. \A j \in (k + 1)..Len(r) : r[j] \in S
    BY <1>1, LenProperties
  <2> QED BY <1>1, <2>1, SubSeqProperties
<1>4. PICK f \in Seq(S), g \in Seq(S) : f = SubSeq(r, 1, k - 1) /\ g = SubSeq(r, k + 1, Len(r))
  BY <1>2, <1>3
<1>5. (f \o u) \o g \in Seq(S) /\ Len((f \o u) \o g) = Len(f) + Len(u) + Len(g)
  <2>1. f \o u \in Seq(S) /\ Len(f \o u) = Len(f) + Len(u)
    BY <1>4, ConcatProperties
  <2>2. (f \o u) \o g \in Seq(S) /\ Len((f \o u) \o g) = Len(f \o u) + Len(g)
    BY <1>4, <2>1, ConcatProperties
  <2> QED BY <2>1, <2>2
<1>6. Instead(r, k, u) = (f \o u) \o g
  BY <1>4, Zenon DEF Instead
<1>7. Instead(r, k, u) \in Seq(S) /\ Len(Instead(r, k, u)) = Len(f) + Len(u) + Len(g)
  BY <1>5, <1>6, Zenon
<1>8. Len(f) = k - 1 /\ Len(g) = IF k <= Len(r) THEN Len(r) - k ELSE 0
  BY <1>2, <1>3, <1>4
<1>9. k <= Len(r) => Len(Instead(r, k, u)) = (Len(r) - 1) + Len(u)
  BY <1>1, <1>7, <1>8
<1>10. k = Len(r) + 1 => Len(Instead(r, k, u)) = Len(r) + Len(u)
  BY <1>1, <1>7, <1>8
<1> QED BY <1>7, <1>9, <1>10

(* What the engine has prefilled, or not, of the requests it was given.     *)
LEMMA StepUnderway ==
  ASSUME WaitType, NEW i \in Replica, waiting[i] # <<>>
  PROVE  /\ Underway(i) # <<>> /\ Head(Underway(i)) = Head(waiting[i])
         /\ Tail(Underway(i)) = IF chosen = i THEN Append(Tail(waiting[i]), pred_hit) ELSE Tail(waiting[i])
<1>1. PICK s \in Seq(0..Blocks), h \in 0..Blocks : s = waiting[i] /\ h = pred_hit
  BY DEF WaitType
<1>2. s # <<>>
  BY <1>1
<1>3. Head(Append(s, h)) = Head(s) /\ Tail(Append(s, h)) = Append(Tail(s), h)
  BY <1>2, HeadTailAppend
<1>4. Append(s, h) # <<>>
  BY AppendProperties
<1> QED BY <1>1, <1>2, <1>3, <1>4 DEF Underway

(* The counters go down by what leaves the queue and the batch.             *)
LEMMA StepWait ==
  ASSUME WaitInv, NEW i \in Replica, NEW a \in FirstReports(i) \cup {Nothing},
         NEW k \in 1..(Len(running[i]) + 1), NEW depth \in Depths,
         NEW b \in IF k <= Len(running[i]) THEN LaterReports(running[i][k]) ELSE {Nothing},
         Step(i, a, b, k, depth)
  PROVE  WaitInv'
<1> DEFINE m == lmetric[i]
           v == [bs |-> Monus(m.bs, One(a.what = "finished") + One(b.what = "finished")),
                 waiting |-> Monus(m.waiting, One(IsPrefill(a)) + One(IsPrefill(b))),
                 queued |-> m.queued - (QueuedDec(a) + QueuedDec(b)), all |-> m.all + AllInc(a) + AllInc(b)]
           r == Instead(running[i], k, After(b)) \o After(a)
           w == IF a.what = "nothing" THEN waiting[i] ELSE Tail(waiting[i])
           l == [bs |-> Dropped(a).bs + Dropped(b).bs, all |-> Dropped(a).all + Dropped(b).all]
<1>1. /\ lmetric' = [lmetric EXCEPT ![i] = v]
      /\ waiting' = [waiting EXCEPT ![i] = w]
      /\ running' = [running EXCEPT ![i] = r]
      /\ leaving' = [leaving EXCEPT ![i] = l] /\ leaving[i].bs = 0
      /\ amiss' = [amiss EXCEPT ![i] = @ \cup FirstAmiss(a) \cup LaterAmiss(b)]
      /\ cached' = [cached EXCEPT ![i] = depth]
      /\ UNCHANGED <<req, pc, chosen, pred_hit>>
  BY DEF Step, decisionVars
<1>2. WaitType /\ \A j \in Replica : Exact(j)
  BY DEF WaitInv
<1>3. /\ m \in LMetric /\ req \in Nat \ {0} /\ lmetric \in [Replica -> LMetric]
      /\ waiting \in [Replica -> Seq(0..Blocks)] /\ running \in [Replica -> Seq(Held)]
      /\ leaving \in [Replica -> [bs : Nat, all : Int]] /\ amiss \in [Replica -> SUBSET {"waiting", "queued"}]
      /\ cached \in [Replica -> 0..Blocks] /\ depth \in 0..Blocks /\ Blocks' = Blocks /\ Held' = Held
  BY <1>1, <1>2 DEF WaitType, Depths, Blocks, Held
<1>4. \/ a = Nothing /\ a.what = "nothing"
      \/ a \in FirstReports(i) /\ a.what # "nothing" /\ waiting[i] # <<>>
  BY <1>2, <1>3, NothingIs, FirstIs
<1>5. a \in Event /\ (a.what = "output" => a.n <= a.of.left)
  BY <1>2, <1>3, <1>4, NothingIs, FirstIs
<1>6. PICK run \in Seq(Held) : run = running[i]
  BY <1>3
<1>7. \/ b = Nothing /\ k = Len(run) + 1
      \/ k \in 1..Len(run) /\ run[k] \in Held /\ b \in LaterReports(run[k])
  <2>1. Len(run) \in Nat /\ k \in 1..(Len(run) + 1)
    BY <1>6, LenProperties
  <2>2. CASE k <= Len(run)
    <3>1. b \in LaterReports(run[k]) /\ k \in 1..Len(run)
      BY <1>6, <2>1, <2>2
    <3> QED BY <3>1, LenProperties
  <2>3. CASE ~ k <= Len(run)
    BY <1>6, <2>1, <2>3
  <2> QED BY <2>2, <2>3
<1>8. /\ b \in Event /\ (b.what = "output" => b.n <= b.of.left)
      /\ b.what = "nothing" <=> b = Nothing
  BY <1>3, <1>7, NothingIs, LaterIs
<1>9. /\ QueuedDec(a) \in Int /\ AllInc(a) \in Int /\ After(a) \in Seq(Held) /\ Dropped(a) \in [bs : Nat, all : Int]
      /\ QueuedDec(b) \in Int /\ AllInc(b) \in Int /\ After(b) \in Seq(Held) /\ Dropped(b) \in [bs : Nat, all : Int]
  BY <1>3, <1>5, <1>8, EventGives
<1>10. PICK ea \in Nat, eb \in Nat :
         /\ a.what = "nothing" => ea = 0
         /\ a.what # "nothing" => ea = 1
         /\ b.what = "nothing" => eb = 0
         /\ b.what # "nothing" => eb = 1
         /\ One(a.what = "finished") + Len(After(a)) + Dropped(a).bs = ea
         /\ One(b.what = "finished") + Len(After(b)) + Dropped(b).bs = eb
  <2>1. PICK ea \in Nat : /\ a.what = "nothing" => ea = 0
                          /\ a.what # "nothing" => ea = 1
    <3>1. 0 \in Nat /\ 1 \in Nat
      OBVIOUS
    <3> QED BY <3>1, Zenon
  <2>2. PICK eb \in Nat : /\ b.what = "nothing" => eb = 0
                          /\ b.what # "nothing" => eb = 1
    <3>1. 0 \in Nat /\ 1 \in Nat
      OBVIOUS
    <3> QED BY <3>1, Zenon
  <2>3. One(a.what = "finished") + Len(After(a)) + Dropped(a).bs = ea
    BY <1>3, <1>5, <2>1, EventGives, Zenon
  <2>4. One(b.what = "finished") + Len(After(b)) + Dropped(b).bs = eb
    BY <1>3, <1>8, <2>2, EventGives, Zenon
  <2> QED BY <2>1, <2>2, <2>3, <2>4, Zenon
<1>22. /\ r \in Seq(Held) /\ eb <= Len(run)
       /\ Len(r) = (Len(run) - eb) + Len(After(b)) + Len(After(a))
  <2>1. k \in 1..(Len(run) + 1) /\ Len(run) \in Nat
    BY <1>6, LenProperties
  <2>2. PICK x \in Seq(Held), y \in Seq(Held) : x = After(a) /\ y = After(b)
    BY <1>9
  <2>3. PICK z \in Seq(Held) :
          /\ z = Instead(run, k, y)
          /\ k <= Len(run) => Len(z) = (Len(run) - 1) + Len(y)
          /\ k = Len(run) + 1 => Len(z) = Len(run) + Len(y)
    <3>1. /\ Instead(run, k, y) \in Seq(Held)
          /\ k <= Len(run) => Len(Instead(run, k, y)) = (Len(run) - 1) + Len(y)
          /\ k = Len(run) + 1 => Len(Instead(run, k, y)) = Len(run) + Len(y)
      BY ONLY <1>6, <2>1, <2>2, InsteadIs, Zenon
    <3> QED BY <3>1
  <2>4. z \o x \in Seq(Held) /\ Len(z \o x) = Len(z) + Len(x)
    BY <2>2, <2>3, ConcatProperties
  <2>5. r = z \o x
    BY <1>6, <2>2, <2>3
  <2>6. Len(x) \in Nat /\ Len(y) \in Nat
    BY <2>2, LenProperties
  <2> HIDE DEF r
  <2>7. r \in Seq(Held) /\ Len(r) = Len(z) + Len(x)
    BY <2>4, <2>5, Zenon
  <2>8. CASE b = Nothing /\ k = Len(run) + 1
    <3>1. eb = 0
      BY <1>8, <1>10, <2>8
    <3>2. Len(r) = Len(run) + Len(y) + Len(x)
      BY <2>3, <2>7, <2>8
    <3> QED BY <2>1, <2>2, <2>6, <2>7, <3>1, <3>2
  <2>9. CASE k \in 1..Len(run) /\ run[k] \in Held /\ b \in LaterReports(run[k])
    <3>1. b.what # "nothing"
      BY <1>3, <2>9, LaterIs
    <3>2. eb = 1 /\ k <= Len(run) /\ 1 <= Len(run)
      BY <1>10, <2>1, <2>9, <3>1
    <3>3. Len(r) = (Len(run) - 1) + Len(y) + Len(x)
      BY <2>3, <2>7, <3>2
    <3> QED BY <2>1, <2>2, <2>6, <2>7, <3>2, <3>3
  <2> QED BY <1>7, <2>8, <2>9
<1>11. PICK u \in Seq(0..Blocks) : u = Underway(i)
  BY <1>2, UnderwayType
<1>12. /\ m.bs = Len(run) + Len(u)
       /\ "waiting" \notin amiss[i] => m.waiting = Len(u)
       /\ "queued" \notin amiss[i] => m.queued = SumFunction(ToCompute(u))
  <2>1. Len(run) \in Nat /\ Len(u) \in Nat
    BY LenProperties
  <2>2. m.bs = Len(run) + Len(u) + 0
    BY <1>1, <1>2, <1>6, <1>11, ExactOf
  <2> QED BY <1>2, <1>11, <2>1, <2>2, ExactOf
<1>13. PICK t \in Seq(0..Blocks) :
         /\ w \in Seq(0..Blocks) /\ t = IF chosen = i THEN Append(w, pred_hit) ELSE w
         /\ a.what = "nothing" => t = u
         /\ a.what # "nothing" => /\ Len(t) = Len(u) - 1 /\ Len(u) >= 1
                                  /\ SumFunction(ToCompute(t)) = SumFunction(ToCompute(u)) - (req - Head(waiting[i]) * BlockSize)
  <2>1. CASE a.what = "nothing"
    BY <1>3, <1>11, <2>1 DEF Underway
  <2>2. CASE a.what # "nothing"
    <3>1. waiting[i] # <<>> /\ w = Tail(waiting[i])
      BY <1>4, <2>2
    <3>2. /\ u # <<>> /\ Head(u) = Head(waiting[i])
          /\ Tail(u) = IF chosen = i THEN Append(w, pred_hit) ELSE w
      BY <1>2, <1>11, <3>1, StepUnderway
    <3>3. /\ Tail(u) \in Seq(0..Blocks) /\ Len(Tail(u)) = Len(u) - 1
          /\ SumFunction(ToCompute(Tail(u))) = SumFunction(ToCompute(u)) - (req - Head(u) * BlockSize)
      BY <1>3, <3>2, ComputeTail
    <3>4. Len(u) >= 1
      BY <3>2, EmptySeq, LenProperties
    <3>5. w \in Seq(0..Blocks)
      BY <1>3, <3>1, HeadTailProperties
    <3> HIDE DEF w
    <3> QED BY <2>2, <3>2, <3>3, <3>4, <3>5, Zenon
  <2> QED BY <2>1, <2>2
<1>14. Len(t) \in Nat /\ Len(u) \in Nat /\ Len(run) \in Nat /\ Len(After(a)) \in Nat /\ Len(After(b)) \in Nat
  BY <1>9, LenProperties
<1>15. PICK fa \in 0..1, fb \in 0..1, pa \in 0..1, pb \in 0..1 :
         /\ fa = One(a.what = "finished") /\ fb = One(b.what = "finished")
         /\ pa = One(IsPrefill(a)) /\ pb = One(IsPrefill(b))
         /\ pa = 1 <=> IsPrefill(a)
  BY DEF One
<1>16. /\ v \in LMetric /\ v.bs = Monus(m.bs, fa + fb) /\ v.waiting = Monus(m.waiting, pa + pb)
       /\ v.queued = m.queued - (QueuedDec(a) + QueuedDec(b))
  <2>1. m.bs \in Int /\ m.waiting \in Int /\ m.queued \in Int /\ m.all \in Int
    BY <1>3 DEF LMetric
  <2>2. Monus(m.bs, fa + fb) \in Int /\ Monus(m.waiting, pa + pb) \in Int
    BY <2>1 DEF Monus
  <2>3. m.queued - (QueuedDec(a) + QueuedDec(b)) \in Int /\ m.all + AllInc(a) + AllInc(b) \in Int
    <3>1. PICK x \in Int, y \in Int, f \in Int, g \in Int :
            x = QueuedDec(a) /\ y = QueuedDec(b) /\ f = AllInc(a) /\ g = AllInc(b)
      BY <1>9
    <3> HIDE DEF m
    <3>2. m.queued - (x + y) \in Int /\ m.all + f + g \in Int
      BY <2>1, <3>1
    <3> QED BY <3>1, <3>2
  <2> HIDE DEF m
  <2> QED BY <1>15, <2>2, <2>3 DEF LMetric
<1>17. l \in [bs : Nat, all : Int] /\ l.bs = Dropped(a).bs + Dropped(b).bs
  BY <1>9
<1> HIDE DEF v, r, w, l
<1>18. /\ lmetric'[i] = v /\ running'[i] = r /\ waiting'[i] = w /\ leaving'[i] = l
       /\ amiss'[i] = amiss[i] \cup FirstAmiss(a) \cup LaterAmiss(b)
       /\ \A j \in Replica \ {i} : /\ lmetric'[j] = lmetric[j] /\ running'[j] = running[j]
                                   /\ waiting'[j] = waiting[j] /\ leaving'[j] = leaving[j] /\ amiss'[j] = amiss[j]
  BY <1>1, <1>3
<1>19. WaitType'
  <2>1. lmetric' \in [Replica -> LMetric] /\ running' \in [Replica -> Seq(Held)]
    BY <1>1, <1>3, <1>22, <1>16
  <2>2. waiting' \in [Replica -> Seq(0..Blocks)] /\ leaving' \in [Replica -> [bs : Nat, all : Int]]
    BY <1>1, <1>3, <1>13, <1>17
  <2>3. FirstAmiss(a) \subseteq {"waiting", "queued"} /\ LaterAmiss(b) \subseteq {"waiting", "queued"}
    BY DEF FirstAmiss, LaterAmiss
  <2>4. amiss' \in [Replica -> SUBSET {"waiting", "queued"}] /\ cached' \in [Replica -> 0..Blocks]
    BY <1>1, <1>3, <2>3
  <2>5. chosen \in Replica \cup {Nobody} /\ (chosen = Nobody <=> pc # "extra") /\ pred_hit \in 0..Blocks
    BY <1>2 DEF WaitType
  <2> QED BY <1>1, <1>3, <2>1, <2>2, <2>4, <2>5 DEF WaitType
<1>20. ASSUME NEW j \in Replica \ {i} PROVE Exact(j)'
  <2>1. Underway(j)' = Underway(j)
    BY <1>1, <1>18 DEF Underway
  <2> QED BY <1>1, <1>2, <1>18, <2>1, ExactKept
<1>21. Exact(i)'
  <2>1. Underway(i)' = t
    BY <1>1, <1>13, <1>18 DEF Underway
  <2>2. lmetric'[i].bs = Len(running'[i]) + Len(t) + leaving'[i].bs
    <3>1. PICK da \in Nat, db \in Nat, na \in Nat, nb \in Nat, lu \in Nat, lr \in Nat :
            /\ da = Dropped(a).bs /\ db = Dropped(b).bs /\ na = Len(After(a)) /\ nb = Len(After(b))
            /\ lu = Len(u) /\ lr = Len(run)
      BY <1>9, <1>14
    <3>2. fa + na + da = ea /\ fb + nb + db = eb
      BY <1>10, <1>15, <3>1
    <3>3. eb <= lr
      BY <1>22, <3>1
    <3>4. ea <= lu /\ Len(t) = lu - ea
      <4>1. CASE a.what = "nothing"
        <5>1. ea = 0 /\ t = u
          BY <1>10, <1>13, <4>1
        <5> QED BY <3>1, <5>1
      <4>2. CASE a.what # "nothing"
        <5>1. ea = 1 /\ Len(t) = Len(u) - 1 /\ Len(u) >= 1
          BY <1>10, <1>13, <4>2
        <5> QED BY <3>1, <5>1
      <4> QED BY <4>1, <4>2
    <3>5. v.bs = Monus(lr + lu, fa + fb) /\ Len(r) = (lr - eb) + nb + na /\ l.bs = da + db
      BY <1>12, <1>16, <1>17, <1>22, <3>1
    <3>6. fa \in Nat /\ fb \in Nat
      BY <1>15
    <3>7. v.bs = Len(r) + Len(t) + l.bs
      <4>1. Monus(lr + lu, fa + fb) = ((lr - eb) + nb + na) + (lu - ea) + (da + db)
        <5>1. /\ ea \in Nat /\ eb \in Nat /\ fa \in Nat /\ fb \in Nat /\ da \in Nat /\ db \in Nat
              /\ na \in Nat /\ nb \in Nat /\ lu \in Nat /\ lr \in Nat
          BY <1>10, <3>1, <3>6
        <5>2. ea <= lu
          BY <3>4
        <5>3. fa + fb <= lr + lu
          BY ONLY <3>2, <3>3, <5>1, <5>2
        <5>4. Monus(lr + lu, fa + fb) = (lr + lu) - (fa + fb)
          BY ONLY <5>1, <5>3 DEF Monus
        <5>5. (lr + lu) - (fa + fb) = ((lr - eb) + nb + na) + (lu - ea) + (da + db)
          BY ONLY <3>2, <5>1
        <5> QED BY <5>4, <5>5
      <4> QED BY <3>4, <3>5, <4>1, Zenon
    <3> QED BY <1>18, <3>7
  <2>3. b = Nothing \/ \E h \in Held : b \in LaterReports(h)
    BY <1>7
  <2>4. ASSUME "waiting" \notin amiss'[i] PROVE lmetric'[i].waiting = Len(t)
    <3>1. "waiting" \notin amiss[i] /\ "waiting" \notin FirstAmiss(a) /\ LaterAmiss(b) = {}
      BY <1>18, <2>4 DEF LaterAmiss
    <3>2. pb = 0
      BY <1>3, <1>15, <2>3, <3>1, LaterTakes DEF One
    <3>3. a.what # "nothing" => pa = 1
      BY <1>2, <1>4, <1>15, <3>1, FirstTakes
    <3>4. a.what = "nothing" => pa = 0
      BY <1>15 DEF IsPrefill
    <3>5. v.waiting = Monus(Len(u), pa + pb)
      BY <1>12, <1>16, <3>1
    <3>6. v.waiting = Len(t)
      BY <1>13, <1>14, <3>2, <3>3, <3>4, <3>5 DEF Monus
    <3> QED BY <1>18, <3>6
  <2>5. ASSUME "queued" \notin amiss'[i] PROVE lmetric'[i].queued = SumFunction(ToCompute(t))
    <3>1. "queued" \notin amiss[i] /\ "queued" \notin FirstAmiss(a) /\ LaterAmiss(b) = {}
      BY <1>18, <2>5 DEF LaterAmiss
    <3>2. QueuedDec(b) = 0
      BY <1>3, <2>3, <3>1, LaterTakes
    <3>3. a.what # "nothing" => QueuedDec(a) = req - Head(waiting[i]) * BlockSize
      BY <1>2, <1>4, <3>1, FirstTakes
    <3>4. a.what = "nothing" => QueuedDec(a) = 0
      <4> SUFFICES ASSUME a.what = "nothing" PROVE QueuedDec(a) = 0
        OBVIOUS
      <4>1. a.n = 0
        BY <1>3, <1>4, NothingIs
      <4> QED BY <4>1 DEF QueuedDec, IsPrefill
    <3>5. PICK q \in Int : q = QueuedDec(a)
      BY <1>9
    <3>6. m.queued = SumFunction(ToCompute(u)) /\ m.queued \in Int
      BY <1>3, <1>12, <3>1 DEF LMetric
    <3>7. v.queued = m.queued - q
      BY <1>16, <3>2, <3>5, <3>6
    <3> HIDE DEF m
    <3>8. CASE a.what = "nothing"
      <4>1. t = u /\ q = 0
        BY <1>13, <3>4, <3>5, <3>8
      <4>2. v.queued = m.queued
        BY <3>4, <3>5, <3>6, <3>7, <4>1
      <4> QED BY <1>18, <3>6, <4>1, <4>2
    <3>9. CASE a.what # "nothing"
      <4>0. QueuedDec(a) = req - Head(waiting[i]) * BlockSize
        BY <3>3, <3>9
      <4>1. SumFunction(ToCompute(t)) = SumFunction(ToCompute(u)) - q
        BY <1>13, <3>5, <3>9, <4>0, Zenon
      <4> QED BY <1>18, <3>6, <3>7, <4>1, Zenon
    <3> QED BY <3>8, <3>9
  <2> QED BY <1>1, <2>1, <2>2, <2>4, <2>5, ExactNext
<1> QED BY <1>19, <1>20, <1>21 DEF WaitInv

(* The cycle gives back what the requests that left had.                    *)
LEMMA DropWait == ASSUME WaitInv, NEW i \in Replica, Drop(i) PROVE WaitInv'
<1>1. /\ lmetric' = [lmetric EXCEPT ![i].bs = Monus(@, leaving[i].bs), ![i].all = Monus(@, leaving[i].all)]
      /\ leaving' = [leaving EXCEPT ![i] = NothingLeaves]
      /\ UNCHANGED <<req, waiting, running, amiss, cached, pc, chosen, pred_hit>>
  BY DEF Drop, indexVars, decisionVars
<1>2. WaitType /\ \A j \in Replica : Exact(j)
  BY DEF WaitInv
<1>3. PICK n \in Nat, t \in Int, m \in LMetric : n = leaving[i].bs /\ t = leaving[i].all /\ m = lmetric[i]
  BY <1>2 DEF WaitType
<1>4. PICK v \in LMetric : /\ v.bs = Monus(m.bs, n) /\ v.waiting = m.waiting /\ v.queued = m.queued
                            /\ lmetric' = [lmetric EXCEPT ![i] = v]
  <2>1. PICK x \in Int, y \in Int : x = Monus(m.bs, n) /\ y = Monus(m.all, t)
    BY <1>3 DEF LMetric, Monus
  <2> DEFINE v == [m EXCEPT !.bs = x, !.all = y]
  <2>2. v \in LMetric /\ v.bs = x /\ v.waiting = m.waiting /\ v.queued = m.queued
    BY <1>3, <2>1 DEF LMetric
  <2>3. lmetric' = [lmetric EXCEPT ![i] = v]
    BY <1>1, <1>2, <1>3, <2>1 DEF WaitType, LMetric
  <2> QED BY <2>1, <2>2, <2>3
<1>5. NothingLeaves \in [bs : Nat, all : Int] /\ NothingLeaves.bs = 0
  BY DEF NothingLeaves
<1>6. /\ lmetric'[i] = v /\ leaving'[i].bs = 0
      /\ \A j \in Replica \ {i} : lmetric'[j] = lmetric[j] /\ leaving'[j] = leaving[j]
  BY <1>1, <1>2, <1>4, <1>5 DEF WaitType
<1>7. WaitType'
  <2>1. lmetric' \in [Replica -> LMetric] /\ leaving' \in [Replica -> [bs : Nat, all : Int]]
    BY <1>1, <1>2, <1>4, <1>5 DEF WaitType
  <2>2. Blocks' = Blocks /\ Held' = Held
    BY <1>1 DEF Blocks, Held
  <2> QED BY <1>1, <1>2, <2>1, <2>2 DEF WaitType
<1>8. \A j \in Replica : Underway(j)' = Underway(j)
  BY <1>1 DEF Underway
<1>9. ASSUME NEW j \in Replica \ {i} PROVE Exact(j)'
  BY <1>1, <1>2, <1>6, <1>8, ExactKept
<1>10. Exact(i)'
  <2>1. PICK u \in Seq(0..Blocks), r \in Seq(Held) : u = Underway(i) /\ r = running[i]
    BY <1>2, UnderwayType DEF WaitType
  <2>2. Len(u) \in Nat /\ Len(r) \in Nat
    BY LenProperties
  <2>3. /\ m.bs = Len(r) + Len(u) + n
        /\ "waiting" \notin amiss[i] => m.waiting = Len(u)
        /\ "queued" \notin amiss[i] => m.queued = SumFunction(ToCompute(u))
    BY <1>2, <1>3, <2>1, ExactOf
  <2>4. v.bs = Len(r) + Len(u) + 0
    BY <1>4, <2>2, <2>3 DEF Monus
  <2>5. Underway(i)' = u /\ running'[i] = r /\ amiss'[i] = amiss[i]
    BY <1>1, <1>8, <2>1
  <2> QED BY <1>1, <1>4, <1>6, <2>3, <2>4, <2>5, ExactNext
<1> QED BY <1>7, <1>9, <1>10 DEF WaitInv

(* Nothing else touches the counters.                                       *)
LEMMA NextWait == IInv /\ WaitInv /\ [Next]_vars => WaitInv'
<1> SUFFICES ASSUME IInv, WaitInv, [Next]_vars PROVE WaitInv'
  OBVIOUS
<1>1. ASSUME UNCHANGED <<req, lmetric, waiting, running, leaving, amiss, cached, pred_hit, chosen>>,
             (pc = "extra") <=> (pc' = "extra")
      PROVE  WaitInv'
  <2>1. WaitType'
    BY <1>1 DEF WaitInv, WaitType, Blocks, Held
  <2>2. ASSUME NEW i \in Replica PROVE Exact(i)'
    <3>1. Underway(i)' = Underway(i)
      BY <1>1 DEF Underway
    <3> QED BY <1>1, <3>1, ExactKept DEF WaitInv
  <2> QED BY <2>1, <2>2 DEF WaitInv
<1>2. CASE Start \/ Tick \/ UNCHANGED vars
  BY <1>1, <1>2 DEF Start, Tick, vars, indexVars, engineVars, decisionVars
<1>3. ASSUME NEW i \in Replica, Capture(i) PROVE WaitInv'
  BY <1>1, <1>3 DEF Capture, indexVars, engineVars
<1>4. CASE Decide
  BY <1>4, DecideWait
<1>5. CASE Finish
  BY <1>5, FinishWait
<1>6. ASSUME NEW i \in Replica, NEW depth \in Depths, StepOf(i, depth) PROVE WaitInv'
  <2>1. PICK a \in FirstReports(i) \cup {Nothing}, k \in 1..(Len(running[i]) + 1) :
        \E b \in IF k <= Len(running[i]) THEN LaterReports(running[i][k]) ELSE {Nothing} :
            Step(i, a, b, k, depth)
    BY <1>6 DEF StepOf
  <2> QED BY <2>1, StepWait
<1>7. ASSUME NEW i \in Replica, Drop(i) PROVE WaitInv'
  BY <1>7, DropWait
<1> QED BY <1>2, <1>3, <1>4, <1>5, <1>6, <1>7 DEF Next

(***************************************************************************)
(* The counters a policy reads of a replica between any two critical       *)
(* sections: its batch is exact, whatever its requests end with; what it   *)
(* has waiting, requests and tokens to compute, is exact as long as every  *)
(* request is first reported with a whole prefill, although a decision     *)
(* adds what the index promised and a prefill takes away what the engine   *)
(* found, and drifts only with a prefill reported in parts or again, a     *)
(* request dropped before it, or one its prefill finishes that was         *)
(* predicted wrong (colocation.rs 456-523, 815-840).                       *)
(***************************************************************************)
THEOREM WaitingCountersAccounted == Spec => []WaitingTokensAccounted
<1>1. Init => IInv /\ WaitInv
  BY InitIInv, InitWait
<1>2. IInv /\ WaitInv /\ [Next]_vars => IInv' /\ WaitInv'
  BY NextIInv, NextWait
<1>3. WaitInv => WaitingTokensAccounted
  BY DEF WaitInv, Exact, WaitingTokensAccounted
<1> QED BY <1>1, <1>2, <1>3, PTL DEF Spec

(* Samples, and sequences of them in the order of their dates.              *)
Sample == [at : Int, item : Int]
Window == [entries : Seq(Sample), agg : Int]

Ordered(s) == \A j, k \in 1..Len(s) : j <= k => s[j].at <= s[k].at

LEMMA ItemsType ==
  ASSUME NEW s \in Seq(Sample)
  PROVE  /\ Items(s) \in Seq(Int) /\ Len(Items(s)) = Len(s) /\ Len(s) \in Nat
         /\ \A k \in 1..Len(s) : s[k] \in Sample /\ Items(s)[k] = s[k].item /\ s[k].item \in Int /\ s[k].at \in Int
         /\ SumFunction(Items(s)) = SeqSum(Items(s)) /\ SeqSum(Items(s)) \in Int
<1>1. Len(s) \in Nat /\ DOMAIN s = 1..Len(s) /\ \A k \in 1..Len(s) : s[k] \in Sample
  BY LenProperties
<1>2. \A k \in 1..Len(s) : s[k].item \in Int /\ s[k].at \in Int
  BY <1>1 DEF Sample
<1>3. Items(s) \in [1..Len(s) -> Int] /\ \A k \in 1..Len(s) : Items(s)[k] = s[k].item
  BY <1>1, <1>2 DEF Items
<1>4. Items(s) \in Seq(Int) /\ Len(Items(s)) = Len(s)
  BY <1>1, <1>3, IsASeq, LenProperties
<1>5. DOMAIN Items(s) = 1..Len(Items(s))
  BY <1>4, LenProperties
<1> QED BY <1>1, <1>2, <1>3, <1>4, <1>5, SumFunctionIs, SeqSumType DEF SeqSum

LEMMA ItemsAppend ==
  ASSUME NEW s \in Seq(Sample), NEW e \in Sample
  PROVE  Append(s, e) \in Seq(Sample) /\ SeqSum(Items(Append(s, e))) = SeqSum(Items(s)) + e.item
<1> DEFINE t == Append(s, e)
           a == Items(t)
           b == Items(s)
           c == Append(b, e.item)
<1>1. /\ t \in Seq(Sample) /\ Len(t) = Len(s) + 1 /\ t[Len(s) + 1] = e /\ Len(s) \in Nat
      /\ \A k \in 1..Len(s) : t[k] = s[k]
  BY AppendProperties, LenProperties
<1> HIDE DEF t
<1>2. /\ a \in Seq(Int) /\ Len(a) = Len(s) + 1 /\ \A k \in 1..Len(t) : a[k] = t[k].item
      /\ b \in Seq(Int) /\ Len(b) = Len(s) /\ \A k \in 1..Len(s) : b[k] = s[k].item
      /\ e.item \in Int
  BY <1>1, ItemsType DEF Sample
<1> HIDE DEF a, b
<1>3. /\ c \in Seq(Int) /\ Len(c) = Len(s) + 1 /\ c[Len(s) + 1] = e.item
      /\ \A k \in 1..Len(s) : c[k] = b[k]
  BY <1>2, AppendProperties
<1>4. SeqSum(c) = SeqSum(b) + e.item
  BY <1>2, SeqSumAppend
<1> HIDE DEF c
<1>5. \A k \in 1..Len(a) : a[k] = c[k]
  <2> TAKE k \in 1..Len(a)
  <2>1. k \in 1..Len(t) /\ (k \in 1..Len(s) \/ k = Len(s) + 1)
    BY <1>1, <1>2
  <2> QED BY <2>1, <1>1, <1>2, <1>3
<1>6. a = c
  BY <1>2, <1>3, <1>5, SeqEqual
<1> QED BY <1>1, <1>4, <1>6 DEF t, a, b

(* What pushing several dates leaves in a window.                           *)
Samples(dates, item, n) == [k \in 1..n |-> [at |-> dates[k], item |-> item]]

LEMMA SamplesType ==
  ASSUME NEW dates \in Seq(Int), NEW item \in Int, NEW n \in 0..Len(dates)
  PROVE  /\ Samples(dates, item, n) \in Seq(Sample) /\ Len(Samples(dates, item, n)) = n
         /\ \A k \in 1..n : Samples(dates, item, n)[k] = [at |-> dates[k], item |-> item]
<1>1. Len(dates) \in Nat /\ \A k \in 1..Len(dates) : dates[k] \in Int
  BY LenProperties
<1>2. n \in Nat /\ \A k \in 1..n : [at |-> dates[k], item |-> item] \in Sample
  BY <1>1 DEF Sample
<1>3. Samples(dates, item, n) \in [1..n -> Sample]
  BY <1>2 DEF Samples
<1>4. Samples(dates, item, n) \in Seq(Sample) /\ Len(Samples(dates, item, n)) = n
  BY <1>2, <1>3, IsASeq, LenProperties
<1> QED BY <1>4 DEF Samples

LEMMA SamplesAppend ==
  ASSUME NEW dates \in Seq(Int), NEW item \in Int, NEW p \in Nat, p + 1 <= Len(dates), NEW s \in Seq(Sample)
  PROVE  s \o Samples(dates, item, p + 1) = Append(s \o Samples(dates, item, p), [at |-> dates[p + 1], item |-> item])
<1> DEFINE n == p + 1
           a == Samples(dates, item, n)
           b == Samples(dates, item, p)
           e == [at |-> dates[n], item |-> item]
           x == s \o a
           y == s \o b
           z == Append(y, e)
<1>1. Len(dates) \in Nat /\ \A k \in 1..Len(dates) : dates[k] \in Int
  BY LenProperties
<1>2. n \in 0..Len(dates) /\ p \in 0..Len(dates) /\ n \in Nat \ {0} /\ e \in Sample
  BY <1>1 DEF Sample
<1>3. /\ a \in Seq(Sample) /\ Len(a) = n /\ \A k \in 1..n : a[k] = [at |-> dates[k], item |-> item]
      /\ b \in Seq(Sample) /\ Len(b) = p /\ \A k \in 1..p : b[k] = [at |-> dates[k], item |-> item]
  BY <1>2, SamplesType
<1>4. a[n] = e /\ \A k \in 1..p : a[k] = b[k]
  <2>1. n \in 1..n /\ \A k \in 1..p : k \in 1..n
    OBVIOUS
  <2> QED BY <1>3, <2>1
<1> HIDE DEF a, b, e
<1>5. Len(s) \in Nat
  BY LenProperties
<1>6. /\ x \in Seq(Sample) /\ Len(x) = Len(s) + n
      /\ \A k \in 1..(Len(s) + n) : x[k] = IF k <= Len(s) THEN s[k] ELSE a[k - Len(s)]
  <2>1. /\ x \in Seq(Sample) /\ Len(x) = Len(s) + Len(a)
        /\ \A k \in 1..(Len(s) + Len(a)) : x[k] = IF k <= Len(s) THEN s[k] ELSE a[k - Len(s)]
    <3>1. a \in Seq(Sample)
      BY <1>3
    <3> QED BY <3>1, ConcatProperties
  <2>2. Len(a) = n
    BY <1>3
  <2> HIDE DEF x, n
  <2> QED BY <2>1, <2>2
<1>7. /\ y \in Seq(Sample) /\ Len(y) = Len(s) + p
      /\ \A k \in 1..(Len(s) + p) : y[k] = IF k <= Len(s) THEN s[k] ELSE b[k - Len(s)]
  BY <1>3, ConcatProperties, ZenonT(30)
<1> HIDE DEF x, y
<1>8. /\ z \in Seq(Sample) /\ Len(z) = Len(y) + 1 /\ z[Len(y) + 1] = e
      /\ \A k \in 1..Len(y) : z[k] = y[k]
  <2>1. y \in Seq(Sample) /\ e \in Sample
    BY <1>2, <1>7
  <2> QED BY ONLY <2>1, AppendProperties
<1> HIDE DEF z
<1>9. Len(x) = Len(z) /\ Len(y) + 1 = Len(s) + n
  BY <1>5, <1>6, <1>7, <1>8
<1>10. \A k \in 1..Len(x) : x[k] = z[k]
  <2> TAKE k \in 1..Len(x)
  <2>1. CASE k = Len(s) + n
    <3>1. ~ (k <= Len(s)) /\ k - Len(s) = n /\ k \in 1..(Len(s) + n)
      BY <1>5, <2>1
    <3> QED BY <1>4, <1>6, <1>8, <1>9, <2>1, <3>1
  <2>2. CASE k # Len(s) + n
    <3>1. k \in 1..(Len(s) + p) /\ k \in 1..(Len(s) + n) /\ (~ (k <= Len(s)) => k - Len(s) \in 1..p)
      BY <1>5, <1>6, <2>2, SMTT(30)
    <3> QED BY <1>4, <1>6, <1>7, <1>8, <3>1
  <2> QED BY <2>1, <2>2
<1>11. x = z
  BY <1>6, <1>8, <1>9, <1>10, SeqEqual
<1> QED BY <1>11 DEF x, y, z, a, b, e, n
LEMMA PushAllIs ==
  ASSUME NEW w \in Window, NEW dates \in Seq(Int), NEW item \in Int
  PROVE  PushAll(w, dates, item) = [entries |-> w.entries \o Samples(dates, item, Len(dates)),
                                    agg |-> w.agg + Len(dates) * item]
<1> DEFINE n == Len(dates)
           P(g) == g = [k \in 0..n |-> IF k = 0 THEN w ELSE Push(g[k - 1], dates[k], item)]
           g0 == CHOOSE g : P(g)
           h == [k \in 0..n |-> [entries |-> w.entries \o Samples(dates, item, k), agg |-> w.agg + k * item]]
<1>1. PushAll(w, dates, item) = g0[n]
  BY DEF PushAll
<1>2. n \in Nat /\ w.entries \in Seq(Sample) /\ w.agg \in Int /\ w = [entries |-> w.entries, agg |-> w.agg]
  BY LenProperties DEF Window
<1> HIDE DEF n
<1>3. h[0] = w
  <2>1. 0 \in 0..Len(dates)
    BY <1>2 DEF n
  <2>2. Samples(dates, item, 0) = <<>>
    <3>1. Len(Samples(dates, item, 0)) = 0 /\ Samples(dates, item, 0) \in Seq(Sample)
      BY <2>1, SamplesType
    <3> QED BY <3>1, EmptySeq
  <2>3. w.entries \o <<>> = w.entries
    BY <1>2, ConcatEmptySeq
  <2>4. w.agg + 0 * item = w.agg
    BY <1>2
  <2> QED BY <1>2, <2>1, <2>2, <2>3, <2>4
<1>4. ASSUME NEW k \in 1..n PROVE h[k] = Push(h[k - 1], dates[k], item)
  <2>1. PICK p \in Nat : k = p + 1 /\ k - 1 = p /\ p + 1 <= Len(dates) /\ p \in 0..n /\ k \in 0..n
    <3>1. k - 1 \in Nat /\ k = (k - 1) + 1 /\ (k - 1) + 1 <= Len(dates) /\ k - 1 \in 0..n /\ k \in 0..n
      BY <1>2 DEF n
    <3> QED BY <3>1
  <2>2. w.entries \o Samples(dates, item, p + 1)
          = Append(w.entries \o Samples(dates, item, p), [at |-> dates[p + 1], item |-> item])
    BY <1>2, <2>1, SamplesAppend
  <2>3. w.agg + (p + 1) * item = (w.agg + p * item) + item
    BY <1>2
  <2>4. h[p + 1] = [entries |-> w.entries \o Samples(dates, item, p + 1), agg |-> w.agg + (p + 1) * item]
    BY <2>1
  <2>5. h[p] = [entries |-> w.entries \o Samples(dates, item, p), agg |-> w.agg + p * item]
    BY <2>1
  <2> HIDE DEF h
  <2>6. h[p].entries = w.entries \o Samples(dates, item, p) /\ h[p].agg = w.agg + p * item
    BY <2>5
  <2>7. Push(h[p], dates[p + 1], item) = [entries |-> Append(h[p].entries, [at |-> dates[p + 1], item |-> item]),
                                          agg |-> h[p].agg + item]
    BY DEF Push
  <2>8. Push(h[p], dates[p + 1], item) = h[p + 1]
    BY <2>2, <2>3, <2>4, <2>6, <2>7
  <2> QED BY <2>1, <2>8
<1>5. P(h)
  <2>1. \A k \in 0..n : h[k] = IF k = 0 THEN w ELSE Push(h[k - 1], dates[k], item)
    <3> HIDE DEF h
    <3> QED BY <1>3, <1>4
  <2>2. h = [k \in 0..n |-> h[k]]
    OBVIOUS
  <2> HIDE DEF h
  <2> QED BY <2>1, <2>2
<1>6. P(g0)
  <2> HIDE DEF P, h
  <2> QED BY <1>5
<1> HIDE DEF g0
<1>7. g0[0] = h[0] /\ \A k \in 1..n : g0[k - 1] = h[k - 1] => g0[k] = h[k]
  <2>1. \A k \in 0..n : g0[k] = IF k = 0 THEN w ELSE Push(g0[k - 1], dates[k], item)
    BY <1>6
  <2>2. 0 \in 0..n /\ \A k \in 1..n : k \in 0..n /\ k # 0
    BY <1>2
  <2> HIDE DEF h, P
  <2> QED BY <1>3, <1>4, <2>1, <2>2
<1>8. g0[n] = h[n]
  <2> HIDE DEF h, P
  <2> QED BY <1>2, <1>7, SameRecursion
<1>9. h[n] = [entries |-> w.entries \o Samples(dates, item, n), agg |-> w.agg + n * item]
  BY <1>2
<1> QED BY <1>1, <1>8, <1>9 DEF n

LEMMA PushedSum ==
  ASSUME NEW s \in Seq(Sample), NEW dates \in Seq(Int), NEW item \in Int
  PROVE  SeqSum(Items(s \o Samples(dates, item, Len(dates)))) = SeqSum(Items(s)) + Len(dates) * item
<1> DEFINE T(k) == s \o Samples(dates, item, k)
           G == {k \in Nat : k <= Len(dates) => SeqSum(Items(T(k))) = SeqSum(Items(s)) + k * item}
<1>1. Len(dates) \in Nat /\ SeqSum(Items(s)) \in Int
  BY ItemsType, LenProperties
<1>2. 0 \in G
  <2>1. Samples(dates, item, 0) = <<>>
    <3>1. 0 \in 0..Len(dates)
      BY <1>1
    <3>2. Len(Samples(dates, item, 0)) = 0 /\ Samples(dates, item, 0) \in Seq(Sample)
      BY <3>1, SamplesType
    <3> QED BY <3>2, EmptySeq
  <2>2. T(0) = s
    BY <2>1, ConcatEmptySeq
  <2>3. SeqSum(Items(s)) + 0 * item = SeqSum(Items(s))
    BY <1>1
  <2>4. SeqSum(Items(T(0))) = SeqSum(Items(s)) + 0 * item
    BY <2>2, <2>3
  <2> HIDE DEF T
  <2> QED BY <2>4
<1>3. ASSUME NEW k \in Nat, k \in G PROVE k + 1 \in G
  <2> SUFFICES ASSUME k + 1 <= Len(dates)
               PROVE  SeqSum(Items(T(k + 1))) = SeqSum(Items(s)) + (k + 1) * item
    OBVIOUS
  <2> DEFINE e == [at |-> dates[k + 1], item |-> item]
  <2>1. SeqSum(Items(T(k))) = SeqSum(Items(s)) + k * item
    BY <1>1, <1>3
  <2>2. k \in 0..Len(dates) /\ dates[k + 1] \in Int
    BY <1>1, LenProperties
  <2>3. e \in Sample /\ e.item = item
    BY <2>2 DEF Sample
  <2>4. T(k) \in Seq(Sample)
    BY <2>2, SamplesType, ConcatProperties
  <2>5. T(k + 1) = Append(T(k), e)
    BY SamplesAppend
  <2> HIDE DEF e, T
  <2>6. SeqSum(Items(T(k + 1))) = SeqSum(Items(T(k))) + item
    BY <2>3, <2>4, <2>5, ItemsAppend
  <2> QED BY <1>1, <2>1, <2>6
<1>4. Len(dates) \in G
  <2> HIDE DEF G
  <2> QED BY <1>1, <1>2, <1>3, NatSetInduction
<1> QED BY <1>4
(* The samples at the front that are too old.                               *)
OldFront(s, t, n) ==
    /\ \A k \in 1..n : TooOld(s[k], t)
    /\ n < Len(s) => ~ TooOld(s[n + 1], t)

LEMMA OldFrontExists ==
  ASSUME NEW s \in Seq(Sample), NEW t
  PROVE  \E n \in 0..Len(s) : OldFront(s, t, n)
<1> DEFINE B == {n \in 0..Len(s) : n < Len(s) => ~ TooOld(s[n + 1], t)}
<1>1. Len(s) \in Nat
  BY LenProperties
<1>2. B \in SUBSET Nat /\ Len(s) \in B
  BY <1>1
<1>3. PICK m \in B : \A k \in B : m <= k
  <2> HIDE DEF B
  <2> QED BY <1>2, LeastNat
<1>4. ASSUME NEW k \in 1..m PROVE TooOld(s[k], t)
  <2>1. k - 1 \in 0..Len(s) /\ k - 1 < Len(s) /\ ~ (m <= k - 1) /\ (k - 1) + 1 = k
    BY <1>1, <1>3
  <2>2. k - 1 \notin B
    BY <1>3, <2>1
  <2> QED BY <2>1, <2>2
<1>5. OldFront(s, t, m)
  BY <1>3, <1>4 DEF OldFront
<1> QED BY <1>3, <1>5

LEMMA CutIs ==
  ASSUME NEW s \in Seq(Sample), NEW n \in 0..Len(s)
  PROVE  /\ SubSeq(s, n + 1, Len(s)) \in Seq(Sample) /\ Len(SubSeq(s, n + 1, Len(s))) = Len(s) - n
         /\ \A k \in 1..(Len(s) - n) : SubSeq(s, n + 1, Len(s))[k] = s[k + n]
         /\ SeqSum(Items(s)) = SumOver(Items(s), 1..n) + SeqSum(Items(SubSeq(s, n + 1, Len(s))))
         /\ SumOver(Items(s), 1..n) \in Int
<1> DEFINE u == SubSeq(s, n + 1, Len(s))
           l == Len(s)
<1>1. l \in Nat /\ \A k \in 1..l : s[k] \in Sample
  BY LenProperties
<1>2. /\ u \in Seq(Sample) /\ Len(u) = l - n
      /\ \A k \in 1..(l - n) : u[k] = s[k + n]
  <2>1. \A k \in (n + 1)..l : s[k] \in Sample
    BY <1>1
  <2>2. /\ u \in Seq(Sample) /\ Len(u) = IF n + 1 <= l THEN l - (n + 1) + 1 ELSE 0
        /\ \A k \in 1..(l - (n + 1) + 1) : u[k] = s[(n + 1) + k - 1]
    BY <1>1, <2>1, SubSeqProperties
  <2> HIDE DEF u
  <2>3. Len(u) = l - n
    BY <1>1, <2>2
  <2>4. \A k \in 1..(l - n) : k \in 1..(l - (n + 1) + 1) /\ (n + 1) + k - 1 = k + n
    BY <1>1
  <2>5. ASSUME NEW k \in 1..(l - n) PROVE u[k] = s[k + n]
    BY <2>2, <2>4
  <2> QED BY <2>2, <2>3, <2>5
<1> HIDE DEF u
<1>3. /\ Items(s) \in Seq(Int) /\ Len(Items(s)) = l /\ \A k \in 1..l : Items(s)[k] = s[k].item /\ s[k].item \in Int
      /\ Items(u) \in Seq(Int) /\ Len(Items(u)) = Len(u) /\ \A k \in 1..Len(u) : Items(u)[k] = u[k].item
  BY <1>2, ItemsType
<1>4. \A k \in 1..Len(Items(u)) : Items(u)[k] = Items(s)[k + n]
  <2> TAKE k \in 1..Len(Items(u))
  <2>1. k \in 1..(l - n) /\ k + n \in 1..l /\ k \in 1..Len(u)
    BY <1>1, <1>2, <1>3
  <2> QED BY <2>1, <1>2, <1>3
<1>5. SeqSum(Items(s)) = SumOver(Items(s), 1..n) + SeqSum(Items(u))
  <2>1. n \in 0..Len(Items(s)) /\ Len(Items(u)) = Len(Items(s)) - n
    BY <1>2, <1>3
  <2> QED BY <1>3, <1>4, <2>1, SeqSumCut
<1>6. SumOver(Items(s), 1..n) \in Int
  <2>1. IsFiniteSet(1..n) /\ \A k \in 1..n : Items(s)[k] \in Int
    <3>1. n \in Int /\ 1 \in Int /\ \A k \in 1..n : k \in 1..l
      BY <1>1
    <3> QED BY <1>3, <3>1, IntervalFinite
  <2> DEFINE A == 1..n
             f == Items(s)
  <2>2. IsFiniteSet(A) /\ \A k \in A : f[k] \in Int
    BY <2>1
  <2> HIDE DEF A, f
  <2>3. SumOver(f, A) \in Int
    BY <2>2, SumType
  <2> QED BY <2>3 DEF A, f
<1> QED BY <1>2, <1>5, <1>6 DEF u

LEMMA ExpireIs ==
  ASSUME NEW w \in Window, NEW t \in Int, w.agg = SeqSum(Items(w.entries))
  PROVE  \E n \in 0..Len(w.entries) :
            /\ OldFront(w.entries, t, n)
            /\ Expire(w, t) = [entries |-> SubSeq(w.entries, n + 1, Len(w.entries)),
                               agg |-> SeqSum(Items(SubSeq(w.entries, n + 1, Len(w.entries))))]
<1> DEFINE s == w.entries
           n == CHOOSE n \in 0..Len(s) : /\ \A i \in 1..n : TooOld(s[i], t)
                                         /\ n < Len(s) => ~ TooOld(s[n + 1], t)
           P(g) == g = [i \in 0..n |-> IF i = 0 THEN 0 ELSE g[i - 1] + s[i].item]
           g0 == CHOOSE g : P(g)
           h == [i \in 0..n |-> SumOver(Items(s), 1..i)]
<1>1. Expire(w, t) = [entries |-> SubSeq(s, n + 1, Len(s)), agg |-> w.agg - g0[n]]
  BY DEF Expire
<1>2. s \in Seq(Sample) /\ Len(s) \in Nat /\ w.agg \in Int
  BY LenProperties DEF Window
<1>3. n \in 0..Len(s) /\ OldFront(s, t, n)
  <2>1. \E m \in 0..Len(s) : /\ \A i \in 1..m : TooOld(s[i], t)
                             /\ m < Len(s) => ~ TooOld(s[m + 1], t)
    BY <1>2, OldFrontExists DEF OldFront
  <2> QED BY <2>1 DEF OldFront
<1> HIDE DEF n, s
<1>4. h[0] = 0
  <2>1. 0 \in 0..n /\ 1..0 = {}
    BY <1>2, <1>3
  <2> QED BY <2>1, SumRecursion, FS_EmptySet
<1>5. ASSUME NEW i \in 1..n PROVE h[i] = h[i - 1] + s[i].item
  <2> DEFINE A == 1..(i - 1)
             f == Items(s)
  <2>1. i \in 0..n /\ i - 1 \in 0..n /\ 1..i = A \cup {i} /\ i \notin A /\ \A k \in A \cup {i} : k \in 1..Len(s)
    BY <1>2, <1>3
  <2>2. IsFiniteSet(A)
    <3>1. i - 1 \in Int
      OBVIOUS
    <3> QED BY <3>1, IntervalFinite
  <2>3. (\A k \in A \cup {i} : f[k] \in Int) /\ f[i] = s[i].item
    BY <1>2, <2>1, ItemsType
  <2>4. h[i] = SumOver(f, A \cup {i}) /\ h[i - 1] = SumOver(f, A)
    BY <2>1
  <2> HIDE DEF A, f, h
  <2>5. SumOver(f, A \cup {i}) = f[i] + SumOver(f, A)
    BY <2>1, <2>2, <2>3, SumAdd
  <2>6. SumOver(f, A) \in Int /\ f[i] \in Int
    BY <2>2, <2>3, SumType
  <2> QED BY <2>3, <2>4, <2>5, <2>6
<1>6. P(h)
  <2>1. \A i \in 0..n : h[i] = IF i = 0 THEN 0 ELSE h[i - 1] + s[i].item
    <3> HIDE DEF h
    <3> QED BY <1>3, <1>4, <1>5
  <2>2. h = [i \in 0..n |-> h[i]]
    OBVIOUS
  <2> HIDE DEF h
  <2> QED BY <2>1, <2>2
<1>7. P(g0)
  <2> HIDE DEF P, h
  <2> QED BY <1>6
<1> HIDE DEF g0
<1>8. g0[0] = h[0] /\ \A i \in 1..n : g0[i - 1] = h[i - 1] => g0[i] = h[i]
  <2>1. \A i \in 0..n : g0[i] = IF i = 0 THEN 0 ELSE g0[i - 1] + s[i].item
    BY <1>7
  <2>2. 0 \in 0..n /\ \A i \in 1..n : i \in 0..n /\ i # 0
    BY <1>3
  <2> HIDE DEF h, P
  <2> QED BY <1>4, <1>5, <2>1, <2>2
<1>9. g0[n] = SumOver(Items(s), 1..n)
  <2>1. n \in Nat /\ n \in 0..n /\ h[n] = SumOver(Items(s), 1..n)
    BY <1>3
  <2> HIDE DEF h, P
  <2> QED BY <1>8, <2>1, SameRecursion
<1> DEFINE u == SubSeq(s, n + 1, Len(s))
<1>10. /\ w.agg = SumOver(Items(s), 1..n) + SeqSum(Items(u)) /\ SumOver(Items(s), 1..n) \in Int
       /\ SeqSum(Items(u)) \in Int
  <2>1. u \in Seq(Sample) /\ SeqSum(Items(s)) = SumOver(Items(s), 1..n) + SeqSum(Items(u))
        /\ SumOver(Items(s), 1..n) \in Int
    BY <1>2, <1>3, CutIs
  <2> HIDE DEF u
  <2>2. SeqSum(Items(u)) \in Int
    BY <2>1, ItemsType
  <2>3. w.agg = SeqSum(Items(s))
    BY DEF s
  <2> QED BY <2>1, <2>2, <2>3
<1> HIDE DEF u
<1>11. w.agg - g0[n] = SeqSum(Items(u))
  BY <1>9, <1>10
<1>12. Expire(w, t) = [entries |-> u, agg |-> SeqSum(Items(u))]
  BY <1>1, <1>11 DEF u
<1> QED BY <1>3, <1>12 DEF u, s
(* The history forgets what is too old, wherever it is; the window drops it *)
(* from the front.  In the order of dates that is the same.                 *)
LEMMA RecentIs ==
  ASSUME NEW s \in Seq(Sample), NEW n \in 0..Len(s), now \in Int, OldFront(s, now, n), Ordered(s)
  PROVE  Recent(s) = SubSeq(s, n + 1, Len(s))
<1> DEFINE P(g) == g = [k \in 0..Len(s) |-> IF k = 0 THEN <<>>
                                            ELSE IF TooOld(s[k], now) THEN g[k - 1] ELSE Append(g[k - 1], s[k])]
           g0 == CHOOSE g : P(g)
           h == [k \in 0..Len(s) |-> SubSeq(s, n + 1, k)]
           F(g, k) == IF TooOld(s[k], now) THEN g[k - 1] ELSE Append(g[k - 1], s[k])
<1>1. Recent(s) = g0[Len(s)]
  BY DEF Recent
<1>2. Len(s) \in Nat /\ \A k \in 1..Len(s) : s[k] \in Sample /\ s[k].at \in Int
  <2>1. Len(s) \in Nat /\ \A k \in 1..Len(s) : s[k] \in Sample
    BY LenProperties
  <2> QED BY <2>1 DEF Sample
<1>3. \A k \in 1..Len(s) : TooOld(s[k], now) <=> k <= n
  <2> TAKE k \in 1..Len(s)
  <2>1. CASE k <= n
    BY <2>1 DEF OldFront
  <2>2. CASE ~ (k <= n)
    <3>1. n < Len(s) /\ n + 1 \in 1..Len(s) /\ n + 1 <= k
      BY <1>2, <2>2
    <3>2. ~ TooOld(s[n + 1], now) /\ s[n + 1].at <= s[k].at
      BY <3>1 DEF OldFront, Ordered
    <3> QED BY <1>2, <2>2, <3>1, <3>2, RoutingAssumption, SMTT(30) DEF TooOld
  <2> QED BY <2>1, <2>2
<1>4. h[0] = <<>>
  <2>1. 0 \in 0..Len(s) /\ 0 < n + 1 /\ n + 1 \in Int
    BY <1>2
  <2> QED BY <2>1, SubSeqEmpty
<1>5. ASSUME NEW k \in 1..Len(s) PROVE h[k] = F(h, k)
  <2>1. k \in 0..Len(s) /\ k - 1 \in 0..Len(s) /\ k \in Int /\ k - 1 \in Int /\ n + 1 \in Int
    BY <1>2
  <2>2. h[k] = SubSeq(s, n + 1, k) /\ h[k - 1] = SubSeq(s, n + 1, k - 1)
    BY <2>1
  <2> HIDE DEF h
  <2>3. CASE k <= n
    <3>1. k < n + 1 /\ k - 1 < n + 1
      BY <2>3
    <3>2. SubSeq(s, n + 1, k) = <<>> /\ SubSeq(s, n + 1, k - 1) = <<>>
      BY <2>1, <3>1, SubSeqEmpty
    <3> QED BY <1>3, <2>2, <2>3, <3>2
  <2>4. CASE ~ (k <= n)
    <3>1. n + 1 \in 1..Len(s) /\ k \in (n + 1)..Len(s)
      BY <1>2, <2>4
    <3>2. SubSeq(s, n + 1, k) = SubSeq(s, n + 1, k - 1) \o <<s[k]>>
      BY <3>1, SubSeqRecursiveSecond
    <3>3. SubSeq(s, n + 1, k - 1) \in Seq(Sample)
      <4>1. \A i \in (n + 1)..(k - 1) : s[i] \in Sample
        BY <1>2, <3>1
      <4> QED BY <2>1, <4>1, SubSeqProperties
    <3>4. SubSeq(s, n + 1, k) = Append(SubSeq(s, n + 1, k - 1), s[k])
      BY <1>2, <3>2, <3>3, AppendIsConcat
    <3> QED BY <1>3, <2>2, <2>4, <3>4
  <2> QED BY <2>3, <2>4
<1>6. P(h)
  <2>1. \A k \in 0..Len(s) : h[k] = IF k = 0 THEN <<>> ELSE F(h, k)
    <3> HIDE DEF h, F
    <3> QED BY <1>2, <1>4, <1>5
  <2>2. h = [k \in 0..Len(s) |-> h[k]]
    OBVIOUS
  <2> HIDE DEF h
  <2> QED BY <2>1, <2>2
<1>7. P(g0)
  <2> HIDE DEF P, h
  <2> QED BY <1>6
<1> HIDE DEF g0
<1>8. g0[0] = h[0] /\ \A k \in 1..Len(s) : g0[k - 1] = h[k - 1] => g0[k] = h[k]
  <2>1. \A k \in 0..Len(s) : g0[k] = IF k = 0 THEN <<>> ELSE F(g0, k)
    BY <1>7
  <2>2. 0 \in 0..Len(s) /\ \A k \in 1..Len(s) : k \in 0..Len(s) /\ k # 0
    BY <1>2
  <2> HIDE DEF h, P
  <2> QED BY <1>4, <1>5, <2>1, <2>2
<1>9. g0[Len(s)] = h[Len(s)] /\ h[Len(s)] = SubSeq(s, n + 1, Len(s))
  <2>1. h[Len(s)] = SubSeq(s, n + 1, Len(s))
    BY <1>2
  <2> HIDE DEF h, P
  <2>2. g0[Len(s)] = h[Len(s)]
    BY <1>2, <1>8, SameRecursion
  <2> QED BY <2>1, <2>2
<1> QED BY <1>1, <1>9
(* Samples pushed in the order of their dates, none before those there are. *)
LEMMA PushedOrdered ==
  ASSUME NEW s \in Seq(Sample), NEW dates \in Seq(Int), NEW item \in Int, NEW t \in Int,
         Ordered(s), \A k \in 1..Len(s) : s[k].at <= t,
         \A j, k \in 1..Len(dates) : j <= k => dates[j] <= dates[k],
         \A j \in 1..Len(dates) : dates[j] <= t /\ \A k \in 1..Len(s) : s[k].at <= dates[j],
         NEW u, u = s \o [k \in DOMAIN dates |-> [at |-> dates[k], item |-> item]]
  PROVE  /\ u \in Seq(Sample) /\ u = s \o Samples(dates, item, Len(dates))
         /\ Ordered(u) /\ \A k \in 1..Len(u) : u[k].at <= t
<1> DEFINE a == Samples(dates, item, Len(dates))
           l == Len(s)
           m == Len(dates)
<1>1. /\ l \in Nat /\ m \in Nat /\ DOMAIN dates = 1..m /\ \A k \in 1..m : dates[k] \in Int
      /\ \A k \in 1..l : s[k] \in Sample
  BY LenProperties
<1>2. a = [k \in DOMAIN dates |-> [at |-> dates[k], item |-> item]]
  BY <1>1 DEF Samples
<1>3. a \in Seq(Sample) /\ Len(a) = m /\ \A k \in 1..m : a[k] = [at |-> dates[k], item |-> item]
  <2>1. m \in 0..Len(dates)
    BY <1>1
  <2> QED BY <2>1, SamplesType
<1> HIDE DEF a
<1>4. /\ u \in Seq(Sample) /\ Len(u) = l + Len(a)
      /\ \A k \in 1..(l + Len(a)) : u[k] = IF k <= l THEN s[k] ELSE a[k - l]
  BY <1>2, <1>3, ConcatProperties
<1>5. \A k \in 1..l : s[k].at \in Int /\ u[k] = s[k]
  BY <1>1, <1>3, <1>4 DEF Sample
<1>6. \A k \in 1..Len(u) : ~ (k <= l) => k - l \in 1..m /\ u[k].at = dates[k - l]
  <2> SUFFICES ASSUME NEW k \in 1..Len(u), ~ (k <= l) PROVE k - l \in 1..m /\ u[k].at = dates[k - l]
    OBVIOUS
  <2>1. k - l \in 1..m /\ k \in 1..(l + Len(a))
    BY <1>1, <1>3, <1>4
  <2> QED BY <1>3, <1>4, <2>1
<1>7. ASSUME NEW j \in 1..Len(u), NEW k \in 1..Len(u), j <= k PROVE u[j].at <= u[k].at
  <2>1. CASE k <= l
    BY <1>1, <1>5, <1>7, <2>1 DEF Ordered
  <2>2. CASE ~ (k <= l) /\ j <= l
    <3>1. j \in 1..l /\ k - l \in 1..m /\ u[k].at = dates[k - l]
      BY <1>1, <1>6, <2>2
    <3>2. s[j].at <= dates[k - l] /\ u[j] = s[j]
      BY <1>5, <3>1
    <3> QED BY <3>1, <3>2
  <2>3. CASE ~ (j <= l)
    <3>1. ~ (k <= l) /\ j - l <= k - l
      BY <1>1, <1>7, <2>3, <1>4
    <3> QED BY <1>6, <2>3, <3>1
  <2> QED BY <2>1, <2>2, <2>3
<1>8. ASSUME NEW k \in 1..Len(u) PROVE u[k].at <= t
  BY <1>1, <1>5, <1>6
<1>9. Ordered(u)
  BY <1>7 DEF Ordered
<1>10. u = s \o Samples(dates, item, Len(dates))
  BY <1>2 DEF a
<1> QED BY <1>4, <1>8, <1>9, <1>10

(* Every date is within the time the engine was idle.                       *)
LEMMA IdleSamplesAre ==
  ASSUME now \in Nat, NEW i \in Replica, last_busy_at[i] \in Int, last_busy_at[i] <= now
  PROVE  /\ IdleSamples(i) \in Seq(Int)
         /\ \A j, k \in 1..Len(IdleSamples(i)) : j <= k => IdleSamples(i)[j] <= IdleSamples(i)[k]
         /\ \A k \in 1..Len(IdleSamples(i)) : last_busy_at[i] <= IdleSamples(i)[k] /\ IdleSamples(i)[k] <= now
<1> DEFINE gap == now - last_busy_at[i]
           d == IF gap < Duration THEN gap ELSE Duration
           c == IdleTps * d
           s == [k \in 1..c |-> now - d + k * (d \div c)]
<1>1. CASE last_busy_at[i] = Never
  BY <1>1, EmptySeq DEF IdleSamples
<1>2. CASE last_busy_at[i] # Never
  <2>1. IdleSamples(i) = s
    BY <1>2 DEF IdleSamples
  <2>2. gap \in Nat /\ d \in Nat /\ d <= gap /\ IdleTps \in Nat
    BY RoutingAssumption
  <2> HIDE DEF d
  <2>3. c \in Nat
    BY <2>2
  <2>4. c > 0 => d \div c \in Nat /\ c * (d \div c) <= d
    <3> HIDE DEF c
    <3> QED BY <2>2, <2>3
  <2> HIDE DEF c
  <2>5. ASSUME NEW q \in Nat, c * q <= d, NEW j \in 1..c, NEW k \in 1..c, j <= k
        PROVE  j * q \in Nat /\ k * q \in Nat /\ j * q <= k * q /\ k * q <= d
    <3>1. j * q \in Nat /\ k * q \in Nat /\ c * q \in Nat
      BY <2>3
    <3>2. j * q <= k * q
      BY <2>3, <2>5
    <3>3. k * q <= c * q
      BY <2>3
    <3> QED BY <2>2, <2>5, <3>1, <3>2, <3>3
  <2>6. ASSUME NEW j \in 1..c, NEW k \in 1..c, j <= k
        PROVE  /\ s[j] \in Int /\ s[k] \in Int /\ s[j] <= s[k]
               /\ last_busy_at[i] <= s[k] /\ s[k] <= now
    <3>1. PICK q \in Nat : q = d \div c /\ c * q <= d
      BY <2>3, <2>4
    <3>2. j * q \in Nat /\ k * q \in Nat /\ j * q <= k * q /\ k * q <= d
      BY <2>5, <2>6, <3>1
    <3>3. s[j] = (now - d) + j * q /\ s[k] = (now - d) + k * q
      BY <3>1
    <3> HIDE DEF s
    <3> QED BY <2>2, <3>2, <3>3
  <2>7. s \in [1..c -> Int]
    <3>1. \A k \in 1..c : s[k] \in Int
      <4> HIDE DEF s
      <4> QED BY <2>3, <2>6
    <3> QED BY <3>1
  <2>8. s \in Seq(Int) /\ Len(s) = c
    <3> HIDE DEF s
    <3> QED BY <2>3, <2>7, IsASeq, LenProperties
  <2> HIDE DEF s
  <2>9. \A k \in 1..c : last_busy_at[i] <= s[k] /\ s[k] <= now
    BY <2>3, <2>6
  <2> QED BY <2>1, <2>6, <2>8, <2>9
<1> QED BY <1>1, <1>2

LEMMA CostType == ASSUME NEW tokens \in Int, req \in Nat PROVE request_cost(tokens) \in Int
<1>1. linear_time("A800", tokens) \in Int
  BY DEF linear_time
<1>2. attention_time("A800", req, tokens) \in Int
  BY DEF attention_time
<1>3. attn_quad_time("A800", tokens) \in Int
  BY DEF attn_quad_time
<1>4. prefill_time("A800", tokens, req) \in Int
  BY <1>1, <1>2, <1>3 DEF prefill_time, base_prefill_time
<1> QED BY <1>4 DEF request_cost
(* A replica that has no request, but for those its cycle has still to give *)
(* back, and one seen idle: it has none now, or had none by an observation  *)
(* the next decision goes by.                                               *)
Unused(i) == Underway(i) = <<>> /\ running[i] = <<>>

SeenIdle(i) == Unused(i) \/ (i \in DOMAIN observations /\ observations[i].bs = 0)

(* The window of one replica.  The samples of an idle time are dated after  *)
(* the engine's last step, so none of the replica's may be younger.         *)
WindowOf(i) ==
    /\ log[i] \in Seq(Sample)
    /\ window[i] = [entries |-> log[i], agg |-> SeqSum(Items(log[i]))]
    /\ Ordered(log[i]) /\ \A k \in 1..Len(log[i]) : log[i][k].at <= now
    /\ last_busy_at[i] \in Int /\ last_busy_at[i] <= now
    /\ policy = "preble-tps-q" /\ SeenIdle(i) => \A k \in 1..Len(log[i]) : log[i][k].at <= last_busy_at[i]

WindowType ==
    /\ now \in Nat
    /\ window \in [Replica -> Window] /\ log \in [Replica -> Seq(Sample)]
    /\ last_busy_at \in [Replica -> Int]
    /\ \A i \in DOMAIN observations : observations[i].hit \in 0..Blocks
    /\ pc = "extra" => DOMAIN observations = Replica

WindowInv == WindowType /\ \A i \in Replica : WindowOf(i)

(* A replica with a request underway is not idle.                           *)
LEMMA BusyIs ==
  ASSUME WaitInv, NEW i \in Replica
  PROVE  /\ lmetric[i].bs \in Nat
         /\ chosen = i => lmetric[i].bs # 0 /\ ~ Unused(i)
         /\ lmetric[i].bs = 0 => Unused(i)
<1>1. WaitType /\ Exact(i)
  BY DEF WaitInv
<1>2. PICK u \in Seq(0..Blocks), r \in Seq(Held), n \in Nat : u = Underway(i) /\ r = running[i] /\ n = leaving[i].bs
  BY <1>1, UnderwayType DEF WaitType
<1>3. lmetric[i].bs = Len(r) + Len(u) + n /\ Len(r) \in Nat /\ Len(u) \in Nat
  <2>1. Len(r) \in Nat /\ Len(u) \in Nat
    BY <1>2, LenProperties
  <2> QED BY <1>1, <1>2, <2>1, ExactOf
<1>4. ASSUME chosen = i PROVE u # <<>> /\ Len(u) # 0
  <2>1. waiting[i] \in Seq(0..Blocks) /\ pred_hit \in 0..Blocks
    BY <1>1 DEF WaitType
  <2>2. u = Append(waiting[i], pred_hit)
    BY <1>2, <1>4 DEF Underway
  <2>3. Len(u) # 0
    BY <2>1, <2>2, AppendProperties, LenProperties
  <2> QED BY <2>3
<1>5. Len(r) = 0 /\ Len(u) = 0 => u = <<>> /\ r = <<>>
  BY <1>2, EmptySeq
<1>6. lmetric[i].bs \in Nat /\ (lmetric[i].bs = 0 => Len(r) = 0 /\ Len(u) = 0) /\ (Len(u) # 0 => lmetric[i].bs # 0)
  BY <1>2, <1>3
<1>7. Unused(i) <=> u = <<>> /\ r = <<>>
  BY <1>2 DEF Unused
<1> QED BY <1>4, <1>5, <1>6, <1>7

LEMMA InitWindow == Init => WindowInv
<1> SUFFICES ASSUME Init PROVE WindowInv
  OBVIOUS
<1>1. <<>> \in Seq(Sample) /\ Len(<<>>) = 0 /\ SeqSum(Items(<<>>)) = 0
  <2>1. Items(<<>>) = <<>>
    BY DEF Items
  <2> QED BY <2>1, EmptySeq, SeqSumEmpty
<1>2. /\ now = 0 /\ DOMAIN observations = {} /\ pc = "idle"
      /\ window = [i \in Replica |-> [entries |-> <<>>, agg |-> 0]]
      /\ log = [i \in Replica |-> <<>>] /\ last_busy_at = [i \in Replica |-> -1]
  BY DEF Init, EmptyWindow, Never, NoObservations
<1>3. [entries |-> <<>>, agg |-> 0] \in Window
  BY <1>1 DEF Window
<1>4. WindowType
  BY <1>1, <1>2, <1>3 DEF WindowType
<1>5. ASSUME NEW i \in Replica PROVE WindowOf(i)
  <2>1. log[i] = <<>> /\ window[i] = [entries |-> <<>>, agg |-> 0] /\ last_busy_at[i] = -1
    BY <1>2
  <2>2. 1..0 = {}
    OBVIOUS
  <2> QED BY <1>1, <1>2, <2>1, <2>2 DEF WindowOf, Ordered
<1> QED BY <1>4, <1>5 DEF WindowInv

(* What a reader of a window finds in it.                                   *)
LEMMA WindowAtIs ==
  ASSUME WindowType, NEW i \in Replica, WindowOf(i), ReadsWindow(i)
  PROVE  /\ Recent(log[i]) \in Seq(Sample)
         /\ WindowAt(i) = [entries |-> Recent(log[i]), agg |-> SeqSum(Items(Recent(log[i])))]
         /\ \E n \in 0..Len(log[i]) : /\ Len(Recent(log[i])) = Len(log[i]) - n
                                      /\ \A k \in 1..Len(Recent(log[i])) : Recent(log[i])[k] = log[i][k + n]
<1>1. PICK s \in Seq(Sample), t \in Nat, w \in Window : s = log[i] /\ t = now /\ w = window[i]
  BY DEF WindowOf, WindowType
<1>2. w.entries = s /\ w.agg = SeqSum(Items(s)) /\ Ordered(s)
  BY <1>1 DEF WindowOf
<1>3. PICK n \in 0..Len(s) :
        /\ OldFront(s, t, n)
        /\ Expire(w, t) = [entries |-> SubSeq(s, n + 1, Len(s)), agg |-> SeqSum(Items(SubSeq(s, n + 1, Len(s))))]
  <2>1. t \in Int /\ w.agg = SeqSum(Items(w.entries))
    BY <1>2
  <2> QED BY <1>2, <2>1, ExpireIs
<1>4. Recent(log[i]) = SubSeq(s, n + 1, Len(s))
  <2>1. Recent(s) = SubSeq(s, n + 1, Len(s))
    BY <1>1, <1>2, <1>3, RecentIs
  <2> QED BY <1>1, <2>1
<1>5. /\ SubSeq(s, n + 1, Len(s)) \in Seq(Sample) /\ Len(SubSeq(s, n + 1, Len(s))) = Len(s) - n
      /\ \A k \in 1..(Len(s) - n) : SubSeq(s, n + 1, Len(s))[k] = s[k + n]
  BY CutIs
<1>6. WindowAt(i) = Expire(w, t)
  BY <1>1 DEF WindowAt
<1> QED BY <1>1, <1>3, <1>4, <1>5, <1>6

(* A record keeps a window right if its dates are not before any there is.  *)
LEMMA RecordKeeps ==
  ASSUME WindowType, NEW i \in Replica, \A j \in Replica : WindowOf(j), NEW dates \in Seq(Int), NEW item \in Int,
         \A j, k \in 1..Len(dates) : j <= k => dates[j] <= dates[k],
         \A j \in 1..Len(dates) : dates[j] <= now /\ \A k \in 1..Len(log[i]) : log[i][k].at <= dates[j],
         Record(i, dates, item)
  PROVE  /\ window' \in [Replica -> Window] /\ log' \in [Replica -> Seq(Sample)]
         /\ window'[i] = [entries |-> log'[i], agg |-> SeqSum(Items(log'[i]))]
         /\ Ordered(log'[i]) /\ \A k \in 1..Len(log'[i]) : log'[i][k].at <= now
         /\ \A j \in Replica \ {i} : window'[j] = window[j] /\ log'[j] = log[j]
<1>1. PICK s \in Seq(Sample), t \in Nat, w \in Window : s = log[i] /\ t = now /\ w = window[i]
  BY DEF WindowOf, WindowType
<1>2. w = [entries |-> s, agg |-> SeqSum(Items(s))] /\ Ordered(s) /\ \A k \in 1..Len(s) : s[k].at <= t
  BY <1>1 DEF WindowOf
<1>3. PICK u : u = s \o [k \in DOMAIN dates |-> [at |-> dates[k], item |-> item]]
  OBVIOUS
<1>4. /\ u \in Seq(Sample) /\ u = s \o Samples(dates, item, Len(dates))
      /\ Ordered(u) /\ \A k \in 1..Len(u) : u[k].at <= t
  <2>1. t \in Int /\ Ordered(s) /\ \A k \in 1..Len(s) : s[k].at <= t
    BY <1>2
  <2>2. \A j \in 1..Len(dates) : dates[j] <= t /\ \A k \in 1..Len(s) : s[k].at <= dates[j]
    BY <1>1
  <2>3. \A j, k \in 1..Len(dates) : j <= k => dates[j] <= dates[k]
    OBVIOUS
  <2> QED BY ONLY <1>3, <2>1, <2>2, <2>3, PushedOrdered, ZenonT(30)
<1>5. PushAll(w, dates, item) = [entries |-> u, agg |-> SeqSum(Items(u))]
  <2>1. PushAll(w, dates, item) = [entries |-> w.entries \o Samples(dates, item, Len(dates)),
                                   agg |-> w.agg + Len(dates) * item]
    BY PushAllIs
  <2>2. SeqSum(Items(s \o Samples(dates, item, Len(dates)))) = SeqSum(Items(s)) + Len(dates) * item
    BY PushedSum
  <2> QED BY <1>2, <1>4, <2>1, <2>2
<1>6. /\ window' = [window EXCEPT ![i] = [entries |-> u, agg |-> SeqSum(Items(u))]]
      /\ log' = [log EXCEPT ![i] = u]
  BY <1>1, <1>3, <1>5 DEF Record
<1>7. [entries |-> u, agg |-> SeqSum(Items(u))] \in Window
  BY <1>4, ItemsType DEF Window
<1>8. window \in [Replica -> Window] /\ log \in [Replica -> Seq(Sample)]
  BY DEF WindowType
<1>9. window'[i] = [entries |-> u, agg |-> SeqSum(Items(u))] /\ log'[i] = u
  BY <1>6, <1>8
<1> QED BY <1>1, <1>4, <1>6, <1>7, <1>8, <1>9
(* A window that is left alone stays right as time goes on, unless a        *)
(* replica is seen idle that was not.                                       *)
LEMMA WindowKept ==
  ASSUME NEW i, WindowOf(i), UNCHANGED policy, now \in Nat, now' \in Nat, now <= now',
         window'[i] = window[i], log'[i] = log[i], last_busy_at'[i] = last_busy_at[i],
         policy = "preble-tps-q" /\ SeenIdle(i)' => SeenIdle(i)
  PROVE  WindowOf(i)'
<1>1. \A k \in 1..Len(log[i]) : log[i][k].at \in Int
  <2>1. \A k \in 1..Len(log[i]) : log[i][k] \in Sample
    BY LenProperties DEF WindowOf
  <2> QED BY <2>1 DEF Sample
<1>2. PICK s, w, t, u : s = log[i] /\ w = window[i] /\ t = now' /\ u = last_busy_at[i]
  OBVIOUS
<1>3. (\A k \in 1..Len(s) : s[k].at <= t) /\ u <= t /\ u \in Int
  BY <1>1, <1>2 DEF WindowOf
<1>4. s \in Seq(Sample) /\ w = [entries |-> s, agg |-> SeqSum(Items(s))] /\ Ordered(s)
  BY <1>2 DEF WindowOf
<1>5. policy' = "preble-tps-q" /\ SeenIdle(i)' => \A k \in 1..Len(s) : s[k].at <= u
  BY <1>2 DEF WindowOf
<1> QED BY <1>2, <1>3, <1>4, <1>5 DEF WindowOf

LEMMA CaptureWindow == ASSUME WaitInv, WindowInv, NEW i \in Replica, Capture(i) PROVE WindowInv'
<1>1. /\ pc = "capture" /\ UNCHANGED <<policy, req, now, lmetric, last_busy_at, pc>>
      /\ observations' = [j \in DOMAIN observations \cup {i} |->
                              IF j = i THEN Observation(i) ELSE observations[j]]
      /\ window' = [window EXCEPT ![i] = WindowAt(i)]
      /\ log' = [log EXCEPT ![i] = IF ReadsWindow(i) THEN Recent(@) ELSE @]
  BY DEF Capture
<1>2. WindowType /\ WaitType /\ \A j \in Replica : WindowOf(j)
  BY DEF WindowInv, WaitInv
<1>3. observations'[i].hit = cached[i] /\ observations'[i].bs = lmetric[i].bs
  BY <1>1 DEF Observation
<1>4. DOMAIN observations' = DOMAIN observations \cup {i} /\ \A j \in DOMAIN observations \ {i} : observations'[j] = observations[j]
  BY <1>1
<1>5. \A j \in Replica : SeenIdle(j)' => SeenIdle(j)
  <2>1. \A j \in Replica : Unused(j)' <=> Unused(j)
    BY DEF Capture, engineVars, Unused, Underway
  <2>2. lmetric[i].bs = 0 => Unused(i)
    BY BusyIs
  <2> QED BY <1>3, <1>4, <2>1, <2>2 DEF SeenIdle
<1>6. /\ window \in [Replica -> Window] /\ log \in [Replica -> Seq(Sample)] /\ now \in Nat
      /\ \A j \in DOMAIN observations' : observations'[j].hit \in 0..Blocks'
  BY <1>1, <1>2, <1>3, <1>4 DEF WindowType, WaitType, Blocks
<1>7. CASE ~ ReadsWindow(i)
  <2>1. window' = window /\ log' = log
    BY <1>1, <1>6, <1>7 DEF WindowAt
  <2>2. \A j \in Replica : WindowOf(j)'
    BY <1>1, <1>2, <1>5, <1>6, <2>1, WindowKept
  <2>3. WindowType'
    BY <1>1, <1>2, <1>6, <2>1 DEF WindowType
  <2> QED BY <2>2, <2>3 DEF WindowInv
<1>8. CASE ReadsWindow(i)
  <2>1. PICK u : u = Recent(log[i])
    OBVIOUS
  <2>2. PICK n \in 0..Len(log[i]) :
          Len(u) = Len(log[i]) - n /\ \A k \in 1..Len(u) : u[k] = log[i][k + n]
    BY <1>2, <1>8, <2>1, WindowAtIs
  <2>3. u \in Seq(Sample) /\ WindowAt(i) = [entries |-> u, agg |-> SeqSum(Items(u))]
    BY <1>2, <1>8, <2>1, WindowAtIs
  <2>4. WindowAt(i) \in Window
    BY <2>3, ItemsType DEF Window
  <2>5. /\ window' \in [Replica -> Window] /\ log' \in [Replica -> Seq(Sample)]
        /\ window'[i] = [entries |-> u, agg |-> SeqSum(Items(u))] /\ log'[i] = u
        /\ \A j \in Replica \ {i} : window'[j] = window[j] /\ log'[j] = log[j]
    BY <1>1, <1>6, <1>8, <2>1, <2>3, <2>4
  <2>6. WindowType'
    BY <1>1, <1>2, <1>6, <2>5 DEF WindowType
  <2>7. ASSUME NEW j \in Replica \ {i} PROVE WindowOf(j)'
    BY <1>1, <1>2, <1>5, <1>6, <2>5, WindowKept
  <2>8. WindowOf(i)'
    <3>1. PICK s \in Seq(Sample), t \in Nat, b \in Int : s = log[i] /\ t = now /\ b = last_busy_at[i]
      BY <1>2 DEF WindowOf, WindowType
    <3>2. /\ Ordered(s) /\ (\A k \in 1..Len(s) : s[k].at <= t) /\ b <= t
          /\ policy = "preble-tps-q" /\ SeenIdle(i) => \A k \in 1..Len(s) : s[k].at <= b
      BY <1>2, <3>1 DEF WindowOf
    <3>3. Len(s) \in Nat /\ Len(u) = Len(s) - n /\ \A k \in 1..Len(u) : k + n \in 1..Len(s) /\ u[k] = s[k + n]
      BY <2>2, <3>1, LenProperties
    <3>4. Ordered(u)
      <4> SUFFICES ASSUME NEW j \in 1..Len(u), NEW k \in 1..Len(u), j <= k PROVE u[j].at <= u[k].at
        BY DEF Ordered
      <4>1. j + n \in 1..Len(s) /\ k + n \in 1..Len(s) /\ j + n <= k + n
        BY <3>3
      <4> QED BY <3>2, <3>3, <4>1 DEF Ordered
    <3>5. \A k \in 1..Len(u) : u[k].at <= t
      BY <3>2, <3>3
    <3>6. policy = "preble-tps-q" /\ SeenIdle(i)' => \A k \in 1..Len(u) : u[k].at <= b
      BY <1>5, <3>2, <3>3
    <3> QED BY <1>1, <2>3, <2>5, <3>1, <3>2, <3>4, <3>5, <3>6 DEF WindowOf
  <2> QED BY <2>6, <2>7, <2>8 DEF WindowInv
<1> QED BY <1>7, <1>8

LEMMA DecideWindow == ASSUME WaitInv, WindowInv, Decide PROVE WindowInv'
<1>1. /\ pc' = "extra" /\ pc = "capture" /\ DOMAIN observations = Replica
      /\ UNCHANGED <<policy, req, now, window, last_busy_at, log, observations, waiting, running>>
  BY DEF Decide, windowVars, engineVars
<1>2. PICK c \in Replica : chosen' = c
  BY DEF Decide
<1>3. \A j \in Replica : Unused(j)' => Unused(j)
  <2>1. chosen = Nobody /\ waiting[c] \in Seq(0..Blocks) /\ Nobody \notin Replica
    BY <1>1, RoutingAssumption DEF WaitInv, WaitType, Replica, Nobody
  <2>2. Underway(c)' # <<>>
    <3>1. Underway(c)' = Append(waiting[c], pred_hit')
      BY <1>1, <1>2 DEF Underway
    <3>2. Append(waiting[c], pred_hit') # <<>>
      BY <2>1, SMTT(30)
    <3> QED BY <3>1, <3>2
  <2>3. \A j \in Replica \ {c} : Underway(j)' = Underway(j)
    BY <1>1, <1>2, <2>1 DEF Underway
  <2> QED BY <1>1, <2>2, <2>3 DEF Unused
<1>4. \A j \in Replica : SeenIdle(j)' => SeenIdle(j)
  BY <1>1, <1>3 DEF SeenIdle
<1>5. WindowType /\ \A j \in Replica : WindowOf(j)
  BY DEF WindowInv
<1>6. \A j \in Replica : WindowOf(j)'
  BY <1>1, <1>4, <1>5, WindowKept DEF WindowType
<1>7. WindowType'
  BY <1>1, <1>5 DEF WindowType, Blocks
<1> QED BY <1>6, <1>7 DEF WindowInv

LEMMA FinishWindow == ASSUME WaitInv, WindowInv, Finish PROVE WindowInv'
<1>1. /\ pc = "extra" /\ pc' = "idle" /\ observations' = NoObservations /\ AfterExtra(chosen)
      /\ chosen' = Nobody /\ waiting' = [waiting EXCEPT ![chosen] = Append(@, pred_hit)]
      /\ UNCHANGED <<policy, req, now, lmetric, last_busy_at, running>>
  BY DEF Finish
<1>2. WindowType /\ WaitType /\ \A j \in Replica : WindowOf(j)
  BY DEF WindowInv, WaitInv
<1>3. PICK c \in Replica : c = chosen /\ c \in DOMAIN observations /\ observations[c].hit \in 0..Blocks /\ lmetric[c].bs \in Nat \ {0}
  BY <1>1, <1>2, BusyIs DEF WaitType, WindowType
<1>4. DOMAIN observations' = {}
  BY <1>1 DEF NoObservations
<1>15. \A j \in Replica : Unused(j)' <=> Unused(j)
  <2>1. \A j \in Replica : j # Nobody
    BY RoutingAssumption DEF Replica, Nobody
  <2>2. DOMAIN waiting = Replica
    BY <1>2 DEF WaitType
  <2>3. \A j \in Replica : Underway(j)' = Underway(j)
    <3> TAKE j \in Replica
    <3>1. Underway(j)' = waiting'[j]
      BY <1>1, <2>1 DEF Underway
    <3>2. waiting'[j] = IF chosen = j THEN Append(waiting[j], pred_hit) ELSE waiting[j]
      BY <1>1, <1>3, <2>2
    <3> QED BY <3>1, <3>2 DEF Underway
  <2> QED BY <1>1, <2>3 DEF Unused
<1>5. \A j \in Replica : SeenIdle(j)' => SeenIdle(j)
  BY <1>4, <1>15 DEF SeenIdle
<1>6. ~ SeenIdle(c)'
  BY <1>3, <1>4, <1>15, BusyIs DEF SeenIdle
<1>7. ASSUME window' \in [Replica -> Window], log' \in [Replica -> Seq(Sample)],
             \A j \in Replica : WindowOf(j)'
      PROVE  WindowInv'
  <2>1. WindowType'
    BY <1>1, <1>2, <1>4, <1>7 DEF WindowType
  <2> QED BY <1>7, <2>1 DEF WindowInv
<1>8. CASE UNCHANGED <<window, log>>
  <2>1. window' \in [Replica -> Window] /\ log' \in [Replica -> Seq(Sample)] /\ now \in Nat
    BY <1>2, <1>8 DEF WindowType
  <2>2. ASSUME NEW j \in Replica PROVE WindowOf(j)'
    <3>1. WindowOf(j) /\ (SeenIdle(j)' => SeenIdle(j))
      BY <1>2, <1>5
    <3>2. now' \in Nat /\ now <= now' /\ window'[j] = window[j] /\ log'[j] = log[j] /\ last_busy_at'[j] = last_busy_at[j]
      BY <1>1, <1>8, <2>1
    <3> QED BY <1>1, <2>1, <3>1, <3>2, WindowKept
  <2> QED BY <1>7, <2>1, <2>2
<1>9. ASSUME NEW dates \in Seq(Int), NEW item \in Int, Record(c, dates, item),
             \A j, k \in 1..Len(dates) : j <= k => dates[j] <= dates[k],
             \A j \in 1..Len(dates) : dates[j] <= now /\ \A k \in 1..Len(log[c]) : log[c][k].at <= dates[j]
      PROVE  WindowInv'
  <2>1. /\ window' \in [Replica -> Window] /\ log' \in [Replica -> Seq(Sample)]
        /\ window'[c] = [entries |-> log'[c], agg |-> SeqSum(Items(log'[c]))]
        /\ Ordered(log'[c]) /\ \A k \in 1..Len(log'[c]) : log'[c][k].at <= now
        /\ \A j \in Replica \ {c} : window'[j] = window[j] /\ log'[j] = log[j]
    BY <1>2, <1>9, RecordKeeps
  <2>2. WindowOf(c)'
    <3>1. last_busy_at'[c] \in Int /\ last_busy_at'[c] <= now
      BY <1>1, <1>2 DEF WindowOf
    <3>2. log'[c] \in Seq(Sample)
      BY <2>1
    <3> QED BY <1>1, <1>6, <2>1, <3>1, <3>2 DEF WindowOf
  <2>3. \A j \in Replica \ {c} : WindowOf(j)'
    BY <1>1, <1>2, <1>5, <2>1, WindowKept DEF WindowType
  <2>4. \A j \in Replica : WindowOf(j)'
    BY <2>2, <2>3
  <2> QED BY <1>7, <2>1, <2>4
<1>10. ASSUME NEW item \in Int, Record(c, <<now>>, item) PROVE WindowInv'
  <2>1. PICK t \in Nat : t = now
    BY <1>2 DEF WindowType
  <2>2. <<t>> \in Seq(Int) /\ Len(<<t>>) = 1 /\ <<t>>[1] = t
    OBVIOUS
  <2>3. \A k \in 1..Len(log[c]) : log[c][k].at <= t
    BY <1>2, <2>1 DEF WindowOf
  <2>4. \A j \in 1..Len(<<t>>) : j = 1
    BY <2>2
  <2>5. \A j \in 1..Len(<<t>>) : <<t>>[j] = t /\ t <= t
    BY <2>2, <2>4
  <2>6. Record(c, <<t>>, item)
    BY <1>10, <2>1
  <2>7. /\ \A j, k \in 1..Len(<<t>>) : j <= k => <<t>>[j] <= <<t>>[k]
        /\ \A j \in 1..Len(<<t>>) : <<t>>[j] <= now /\ \A k \in 1..Len(log[c]) : log[c][k].at <= <<t>>[j]
    BY <2>1, <2>3, <2>5
  <2> QED BY <1>9, <2>2, <2>6, <2>7
<1>11. CASE policy = "preble-q"
  <2>1. Record(c, <<now>>, request_cost(Monus(req, observations[c].hit * BlockSize)))
    BY <1>1, <1>3, <1>11 DEF AfterExtra
  <2>2. PICK x \in 0..Blocks : x = observations[c].hit
    BY <1>3
  <2>3. Monus(req, x * BlockSize) \in Int /\ req \in Nat
    BY <1>2, BlocksFit DEF WaitType
  <2>4. request_cost(Monus(req, x * BlockSize)) \in Int
    BY <2>3, CostType
  <2> QED BY <1>10, <2>1, <2>2, <2>4
<1>12. CASE policy = "preble-bs-q"
  BY <1>1, <1>3, <1>10, <1>12 DEF AfterExtra
<1>13. CASE policy = "preble-tps-q" /\ Compensates(observations[c])
  <2>1. Record(c, IdleSamples(c), 1)
    BY <1>1, <1>3, <1>13 DEF AfterExtra
  <2>2. SeenIdle(c)
    BY <1>3, <1>13 DEF SeenIdle, Compensates
  <2>3. \A k \in 1..Len(log[c]) : log[c][k].at <= last_busy_at[c]
    BY <1>2, <1>13, <2>2 DEF WindowOf
  <2>4. now \in Nat /\ last_busy_at[c] \in Int /\ last_busy_at[c] <= now
    BY <1>2 DEF WindowType, WindowOf
  <2>5. /\ IdleSamples(c) \in Seq(Int)
        /\ \A j, k \in 1..Len(IdleSamples(c)) : j <= k => IdleSamples(c)[j] <= IdleSamples(c)[k]
        /\ \A k \in 1..Len(IdleSamples(c)) : last_busy_at[c] <= IdleSamples(c)[k] /\ IdleSamples(c)[k] <= now
    BY <2>4, IdleSamplesAre
  <2>6. PICK dates \in Seq(Int) : dates = IdleSamples(c)
    BY <2>5
  <2>7. \A j \in 1..Len(dates) : dates[j] \in Int
    BY LenProperties
  <2>8. \A k \in 1..Len(log[c]) : log[c][k].at \in Int
    <3>1. \A k \in 1..Len(log[c]) : log[c][k] \in Sample
      BY <1>2, LenProperties, ZenonT(30) DEF WindowOf
    <3> QED BY <3>1 DEF Sample
  <2>9. \A j \in 1..Len(dates) : dates[j] <= now /\ \A k \in 1..Len(log[c]) : log[c][k].at <= dates[j]
    BY <2>3, <2>4, <2>5, <2>6, <2>7, <2>8, SMTT(30)
  <2> QED BY <1>9, <2>1, <2>5, <2>6, <2>9
<1>14. CASE /\ policy # "preble-q" /\ policy # "preble-bs-q"
            /\ ~ (policy = "preble-tps-q" /\ Compensates(observations[c]))
  BY <1>1, <1>3, <1>8, <1>14 DEF AfterExtra
<1> QED BY <1>11, <1>12, <1>13, <1>14
(* A step pushes the batch that ran, and is the engine's last so far.       *)
LEMMA StepWindow ==
  ASSUME WaitInv, WindowInv, NEW i \in Replica, NEW a, NEW b, NEW n, NEW depth, Step(i, a, b, n, depth)
  PROVE  WindowInv'
<1> DEFINE samples == CASE policy = "preble-bs-q" ->
                               Record(i, <<now>>, lmetric[i].bs) /\ UNCHANGED last_busy_at
                         [] policy = "preble-tps-q" ->
                               Record(i, <<now>>, 1) /\ last_busy_at' = [last_busy_at EXCEPT ![i] = now]
                         [] OTHER -> UNCHANGED <<window, log, last_busy_at>>
<1>1. /\ samples
      /\ UNCHANGED <<policy, req, now, observations, pc>>
  BY DEF Step, decisionVars
<1>2. \A j \in Replica \ {i} : Unused(j)' <=> Unused(j)
  <2>1. chosen' = chosen /\ pred_hit' = pred_hit
    BY DEF Step, decisionVars
  <2>2. \A j \in Replica \ {i} : waiting'[j] = waiting[j] /\ running'[j] = running[j]
    BY DEF Step, WaitInv, WaitType
  <2> QED BY <2>1, <2>2 DEF Unused, Underway
<1>3. WindowType /\ WaitType /\ \A j \in Replica : WindowOf(j)
  BY DEF WindowInv, WaitInv
<1>4. \A j \in Replica \ {i} : SeenIdle(j)' => SeenIdle(j)
  BY <1>1, <1>2 DEF SeenIdle
<1>5. ASSUME window' \in [Replica -> Window], log' \in [Replica -> Seq(Sample)],
             last_busy_at' \in [Replica -> Int], \A j \in Replica : WindowOf(j)'
      PROVE  WindowInv'
  <2>1. WindowType'
    BY <1>1, <1>3, <1>5 DEF WindowType, Blocks
  <2> QED BY <1>5, <2>1 DEF WindowInv
<1>6. CASE policy # "preble-bs-q" /\ policy # "preble-tps-q"
  <2>1. UNCHANGED <<window, log, last_busy_at>>
    BY <1>1, <1>6
  <2>2. \A j \in Replica : WindowOf(j)'
    BY <1>1, <1>3, <1>6, <2>1, WindowKept DEF WindowType
  <2> QED BY <1>3, <1>5, <2>1, <2>2 DEF WindowType
<1>7. ASSUME NEW item \in Int, Record(i, <<now>>, item), last_busy_at' \in [Replica -> Int],
             policy = "preble-tps-q" => last_busy_at'[i] = now,
             \A j \in Replica : last_busy_at'[j] = last_busy_at[j] \/ (j = i /\ last_busy_at'[j] = now)
      PROVE  WindowInv'
  <2>1. PICK t \in Nat : t = now
    BY <1>3 DEF WindowType
  <2>2. <<t>> \in Seq(Int) /\ \A j \in 1..Len(<<t>>) : <<t>>[j] = t
    <3>1. <<t>> \in Seq(Int) /\ Len(<<t>>) = 1 /\ <<t>>[1] = t
      OBVIOUS
    <3> QED BY <3>1
  <2>3. \A k \in 1..Len(log[i]) : log[i][k].at <= t
    BY <1>3, <2>1 DEF WindowOf
  <2>4. Record(i, <<t>>, item)
    BY <1>7, <2>1
  <2>5. /\ \A j, k \in 1..Len(<<t>>) : j <= k => <<t>>[j] <= <<t>>[k]
        /\ \A j \in 1..Len(<<t>>) : <<t>>[j] <= now /\ \A k \in 1..Len(log[i]) : log[i][k].at <= <<t>>[j]
    BY <2>1, <2>2, <2>3
  <2>6. /\ window' \in [Replica -> Window] /\ log' \in [Replica -> Seq(Sample)]
        /\ window'[i] = [entries |-> log'[i], agg |-> SeqSum(Items(log'[i]))]
        /\ Ordered(log'[i]) /\ \A k \in 1..Len(log'[i]) : log'[i][k].at <= now
        /\ \A j \in Replica \ {i} : window'[j] = window[j] /\ log'[j] = log[j]
    BY <1>3, <2>2, <2>4, <2>5, RecordKeeps
  <2>7. WindowOf(i)'
    <3>1. log'[i] \in Seq(Sample)
      BY <2>6
    <3>2. last_busy_at'[i] \in Int /\ last_busy_at'[i] <= now
      <4>1. last_busy_at'[i] \in Int /\ (last_busy_at'[i] = last_busy_at[i] \/ last_busy_at'[i] = now)
        BY <1>7
      <4>2. last_busy_at[i] <= now /\ now \in Int
        <5>1. WindowOf(i)
          BY <1>3
        <5>2. last_busy_at[i] <= now
          BY <5>1 DEF WindowOf
        <5> QED BY <2>1, <5>2
      <4> QED BY <4>1, <4>2
    <3> QED BY <1>1, <1>7, <2>6, <3>1, <3>2 DEF WindowOf
  <2>8. ASSUME NEW j \in Replica \ {i} PROVE WindowOf(j)'
    BY <1>1, <1>3, <1>4, <1>7, <2>6, WindowKept DEF WindowType
  <2> QED BY <1>5, <1>7, <2>6, <2>7, <2>8
<1>8. CASE policy = "preble-bs-q"
  <2>1. Record(i, <<now>>, lmetric[i].bs) /\ UNCHANGED last_busy_at
    BY <1>1, <1>8
  <2>2. lmetric[i].bs \in Int
    BY <1>3 DEF WaitType, LMetric
  <2> QED BY <1>3, <1>7, <1>8, <2>1, <2>2 DEF WindowType
<1>9. CASE policy = "preble-tps-q"
  <2>1. Record(i, <<now>>, 1) /\ last_busy_at' = [last_busy_at EXCEPT ![i] = now]
    BY <1>1, <1>9
  <2>2. /\ last_busy_at' \in [Replica -> Int] /\ last_busy_at'[i] = now
        /\ \A j \in Replica \ {i} : last_busy_at'[j] = last_busy_at[j]
    BY <1>3, <2>1 DEF WindowType
  <2> QED BY <1>7, <2>1, <2>2
<1> QED BY <1>6, <1>8, <1>9

LEMMA NextWindow == WaitInv /\ WindowInv /\ [Next]_vars => WindowInv'
<1> SUFFICES ASSUME WaitInv, WindowInv, [Next]_vars PROVE WindowInv'
  OBVIOUS
<1>1. WindowType /\ \A i \in Replica : WindowOf(i)
  BY DEF WindowInv
<1>2. ASSUME UNCHANGED <<policy, req, waiting, running, chosen, pred_hit, observations, window, log, last_busy_at>>,
             now' \in Nat, now <= now', pc' = "extra" => pc = "extra"
      PROVE  WindowInv'
  <2>1. WindowType'
    BY <1>1, <1>2 DEF WindowType, Blocks
  <2>2. ASSUME NEW i \in Replica PROVE WindowOf(i)'
    <3>1. SeenIdle(i)' => SeenIdle(i)
      BY <1>2 DEF SeenIdle, Unused, Underway
    <3> QED BY <1>1, <1>2, <3>1, WindowKept DEF WindowType
  <2> QED BY <2>1, <2>2 DEF WindowInv
<1>3. CASE Start \/ UNCHANGED vars
  <2>1. now' = now /\ now \in Nat
    BY <1>1, <1>3 DEF Start, vars, WindowType
  <2>2. UNCHANGED <<policy, req, waiting, running, chosen, pred_hit, observations, window, log, last_busy_at>>
    BY <1>3 DEF Start, vars, windowVars, engineVars, decisionVars
  <2>3. pc' = "extra" => pc = "extra"
    BY <1>3 DEF Start, vars, decisionVars
  <2> QED BY <1>2, <2>1, <2>2, <2>3
<1>4. CASE Tick
  <2>1. now' = now + 1 /\ now \in Nat
    BY <1>1, <1>4 DEF Tick, WindowType
  <2> QED BY <1>2, <1>4, <2>1 DEF Tick, windowVars, engineVars, decisionVars
<1>5. CASE Decide
  BY <1>5, DecideWindow
<1>6. CASE Finish
  BY <1>6, FinishWindow
<1>7. ASSUME NEW i \in Replica, Capture(i) PROVE WindowInv'
  BY <1>7, CaptureWindow
<1>8. ASSUME NEW i \in Replica, NEW depth, StepOf(i, depth) PROVE WindowInv'
  BY <1>8, StepWindow DEF StepOf
<1>9. ASSUME NEW i \in Replica, Drop(i) PROVE WindowInv'
  <2>1. now' = now /\ now \in Nat
    BY <1>1, <1>9 DEF Drop, WindowType
  <2>2. UNCHANGED <<policy, req, waiting, running, chosen, pred_hit, observations, window, log, last_busy_at, pc>>
    BY <1>9 DEF Drop, windowVars, decisionVars
  <2> QED BY <1>2, <2>1, <2>2
<1> QED BY <1>3, <1>4, <1>5, <1>6, <1>7, <1>8, <1>9 DEF Next

(***************************************************************************)
(* A window holds exactly the samples that were not too old when it was    *)
(* last read, and its aggregate is their sum, for any number of replicas,  *)
(* any window and any rate of idle steps.  It may drop samples from the    *)
(* front only because dates never go back: those of an idle time are       *)
(* pushed late, but a replica that was seen idle has no sample after its   *)
(* engine's last step, even if a step came between observation and push.   *)
(***************************************************************************)
THEOREM WindowsExact == Spec => []WindowExact
<1>1. Init => IInv /\ WaitInv /\ WindowInv
  BY InitIInv, InitWait, InitWindow
<1>2. IInv /\ WaitInv /\ WindowInv /\ [Next]_vars => IInv' /\ WaitInv' /\ WindowInv'
  BY NextIInv, NextWait, NextWindow
<1>3. WindowInv => WindowExact
  <2> SUFFICES ASSUME WindowInv, NEW i \in Replica
               PROVE  /\ window[i].entries = log[i]
                      /\ window[i].agg = SumFunction(Items(window[i].entries))
    BY DEF WindowExact
  <2>1. log[i] \in Seq(Sample) /\ window[i] = [entries |-> log[i], agg |-> SeqSum(Items(log[i]))]
    BY DEF WindowInv, WindowOf
  <2> QED BY <2>1, ItemsType
<1> QED BY <1>1, <1>2, <1>3, PTL DEF Spec

--------------------------------------------------------------------------------
(***************************************************************************)
(* What a burst of requests does to the replicas.  Before any engine has   *)
(* made a step the counters and windows of a replica are those of the      *)
(* requests given to it, so the score of each policy rises with that       *)
(* number, the replica chosen has been given no more than any other, and   *)
(* no two differ by more than one.  First the selectors: whoever they      *)
(* pick has the lowest (the highest) score.                                *)
(***************************************************************************)

(* What the selectors pick, of observations of which one has the least of   *)
(* something: the score tells no more and no less than that.                *)
Indexed(T) == T # {} /\ \A o \in T : o.idx \in Replica

(* Counts that are not negative have a least one.                           *)
LEMMA LeastExists ==
  ASSUME NEW T, T # {}, NEW a, \A o \in T : a[o] \in Nat
  PROVE  \E m \in T : \A q \in T : a[m] <= a[q]
<1> DEFINE B == {a[o] : o \in T}
<1>1. B \in SUBSET Nat /\ B # {}
  OBVIOUS
<1> HIDE DEF B
<1>2. PICK k \in B : \A l \in B : k <= l
  BY <1>1, LeastNat
<1> USE DEF B
<1>3. PICK m \in T : k = a[m]
  OBVIOUS
<1> QED BY <1>2, <1>3

(* A tie goes to the lowest index, or the highest: there is one.            *)
LEMMA LowestOf ==
  ASSUME NEW S \in SUBSET Replica, S # {}
  PROVE  Min(S) \in S /\ Max(S) \in S
<1>1. N \in Nat /\ Replica \subseteq Nat /\ \A x \in Replica : N - x \in Nat
  BY RoutingAssumption DEF Replica
<1>2. Min(S) \in S
  <2>1. \E m \in S : \A k \in S : m <= k
    BY <1>1, LeastNat
  <2> QED BY <2>1 DEF Min
<1>3. Max(S) \in S
  <2> DEFINE a == [x \in S |-> N - x]
  <2>1. \A x \in S : a[x] \in Nat
    BY <1>1
  <2> HIDE DEF a
  <2>2. PICK m \in S : \A k \in S : a[m] <= a[k]
    BY <2>1, LeastExists
  <2>3. \A k \in S : m >= k
    BY <1>1, <2>2 DEF a
  <2> QED BY <2>3 DEF Max
<1> QED BY <1>2, <1>3

LEMMA MinPicks ==
  ASSUME NEW T, Indexed(T), NEW a, \A o \in T : a[o] \in Nat, NEW score,
         \A p, q \in T : Less(score[q], score[p]) <=> a[q] < a[p],
         NEW c \in SelectMin(T, score)
  PROVE  \E o \in T : c = o.idx /\ \A q \in T : a[o] <= a[q]
<1> DEFINE L == {p \in T : \A q \in T : ~ Less(score[q], score[p])}
           S == {o.idx : o \in L}
<1>1. \A o \in T : o \in L <=> \A q \in T : a[o] <= a[q]
  <2> TAKE o \in T
  <2>1. \A q \in T : ~ Less(score[q], score[o]) <=> a[o] <= a[q]
    OBVIOUS
  <2> QED BY <2>1
<1>2. L # {}
  BY <1>1, LeastExists DEF Indexed
<1>3. S \in SUBSET Replica /\ S # {}
  BY <1>2 DEF Indexed
<1>4. c = Min(S)
  BY DEF SelectMin
<1>5. c \in S
  <2> HIDE DEF S
  <2> QED BY <1>3, <1>4, LowestOf
<1>6. PICK o \in L : c = o.idx
  BY <1>5
<1> QED BY <1>1, <1>6

LEMMA MaxPicks ==
  ASSUME NEW T, Indexed(T), NEW a, \A o \in T : a[o] \in Nat, NEW score,
         \A p, q \in T : Less(score[p], score[q]) <=> a[q] < a[p],
         NEW c \in SelectMax(T, score)
  PROVE  \E o \in T : c = o.idx /\ \A q \in T : a[o] <= a[q]
<1> DEFINE L == {p \in T : \A q \in T : ~ Less(score[p], score[q])}
           S == {o.idx : o \in L}
<1>1. \A o \in T : o \in L <=> \A q \in T : a[o] <= a[q]
  <2> TAKE o \in T
  <2>1. \A q \in T : ~ Less(score[o], score[q]) <=> a[o] <= a[q]
    OBVIOUS
  <2> QED BY <2>1
<1>2. L # {}
  BY <1>1, LeastExists DEF Indexed
<1>3. S \in SUBSET Replica /\ S # {}
  BY <1>2 DEF Indexed
<1>4. c = Max(S)
  BY DEF SelectMax
<1>5. c \in S
  <2> HIDE DEF S
  <2> QED BY <1>3, <1>4, LowestOf
<1>6. PICK o \in L : c = o.idx
  BY <1>5
<1> QED BY <1>1, <1>6

(* Scores of one, two and three parts.                                      *)
LEMMA LessOne == ASSUME NEW x \in Int, NEW y \in Int PROVE Less(<<x>>, <<y>>) <=> x < y
<1> DEFINE s == <<x>>
           t == <<y>>
<1>1. DOMAIN s = {1} /\ s[1] = x /\ t[1] = y /\ 1..(1 - 1) = {}
  OBVIOUS
<1> HIDE DEF s, t
<1>2. Less(s, t) <=> x < y
  BY <1>1 DEF Less
<1> QED BY <1>2 DEF s, t

LEMMA LessTwo ==
  ASSUME NEW x, NEW u \in Int, NEW v \in Int, x \in Int
  PROVE  Less(<<x, u>>, <<x, v>>) <=> u < v
<1> DEFINE s == <<x, u>>
           t == <<x, v>>
<1>1. DOMAIN s = {1, 2} /\ s[1] = x /\ s[2] = u /\ t[1] = x /\ t[2] = v
  OBVIOUS
<1>2. 1..(2 - 1) = {1} /\ ~ (x < x)
  OBVIOUS
<1> HIDE DEF s, t
<1>3. Less(s, t) <=> u < v
  BY <1>1, <1>2 DEF Less
<1> QED BY <1>3 DEF s, t

(* A score that is a strictly monotone function of a number.                *)
Rising(F) == \A m, n \in Nat : F[m] \in Int /\ (m < n => F[m] < F[n])
Falling(F) == \A m, n \in Nat : F[m] \in Int /\ (m < n => F[n] < F[m])

LEMMA RisingPicks ==
  ASSUME NEW T, Indexed(T), NEW a, \A o \in T : a[o] \in Nat, NEW F, Rising(F),
         NEW score, \A o \in T : score[o] = <<F[a[o]]>>, NEW c \in SelectMin(T, score)
  PROVE  \E o \in T : c = o.idx /\ \A q \in T : a[o] <= a[q]
<1>1. ASSUME NEW p \in T, NEW q \in T PROVE Less(score[q], score[p]) <=> a[q] < a[p]
  <2>1. Less(score[q], score[p]) <=> F[a[q]] < F[a[p]]
    BY LessOne DEF Rising
  <2>2. F[a[q]] < F[a[p]] <=> a[q] < a[p]
    <3>1. a[q] < a[p] \/ a[q] = a[p] \/ a[p] < a[q]
      OBVIOUS
    <3> QED BY <3>1 DEF Rising
  <2> QED BY <2>1, <2>2
<1> QED BY <1>1, MinPicks

LEMMA FallingPicks ==
  ASSUME NEW T, Indexed(T), NEW a, \A o \in T : a[o] \in Nat, NEW F, Falling(F),
         NEW score, \A o \in T : score[o] = <<F[a[o]]>>, NEW c \in SelectMax(T, score)
  PROVE  \E o \in T : c = o.idx /\ \A q \in T : a[o] <= a[q]
<1>1. ASSUME NEW p \in T, NEW q \in T PROVE Less(score[p], score[q]) <=> a[q] < a[p]
  <2>1. Less(score[p], score[q]) <=> F[a[p]] < F[a[q]]
    BY LessOne DEF Falling
  <2>2. F[a[p]] < F[a[q]] <=> a[q] < a[p]
    <3>1. a[q] < a[p] \/ a[q] = a[p] \/ a[p] < a[q]
      OBVIOUS
    <3> QED BY <3>1 DEF Falling
  <2> QED BY <2>1, <2>2
<1> QED BY <1>1, MaxPicks

(* Cutting to whole numbers keeps the order, and a whole difference.        *)
LEMMA DivRises ==
  ASSUME NEW m \in Int, NEW n \in Int, NEW q \in Nat \ {0}
  PROVE  /\ m \div q \in Int
         /\ m <= n => m \div q <= n \div q
         /\ m + q <= n => m \div q < n \div q
<1>1. \A x \in Int : x \div q \in Int /\ q * (x \div q) <= x /\ x < q * (x \div q) + q
  OBVIOUS
<1> DEFINE i == m \div q
           j == n \div q
<1>2. i \in Int /\ j \in Int /\ q * i <= m /\ m < q * i + q /\ q * j <= n /\ n < q * j + q
  BY <1>1
<1> HIDE DEF i, j
<1>3. ASSUME j < i PROVE q * j + q <= q * i
  <2>1. j + 1 <= i
    BY <1>2, <1>3
  <2>2. q * (j + 1) <= q * i
    BY <1>2, <2>1
  <2> QED BY <1>2, <2>2
<1>4. ASSUME j <= i PROVE q * j <= q * i
  BY <1>2, <1>4
<1>5. q * i \in Int /\ q * j \in Int
  BY <1>2
<1>6. m <= n => i <= j
  BY <1>2, <1>3, <1>5
<1>7. m + q <= n => i < j
  BY <1>2, <1>4, <1>5
<1> QED BY <1>2, <1>6, <1>7 DEF i, j

--------------------------------------------------------------------------------
(***************************************************************************)
(* Observations that differ in the number of requests given only, and the  *)
(* policies that score them by counters: the one picked was given least.   *)
(***************************************************************************)

(* Observations of replicas that differ in nothing but the number a of      *)
(* requests each was given, all of length r and with h blocks cached.       *)
Work(r, h) == Monus(r, h * BlockSize)

Alike(T, a, r, h) ==
    /\ Indexed(T) /\ r \in Nat \ {0} /\ h \in Nat
    /\ \A o \in T : /\ a[o] \in Nat
                    /\ o.bs = a[o] /\ o.waiting = a[o] /\ o.all = a[o] * r
                    /\ o.queued = a[o] * Work(r, h) /\ o.hit = h

(* Replica c was given no more requests than any other.                     *)
Least(T, a, c) == \E o \in T : c = o.idx /\ \A q \in T : a[o] <= a[q]

LEMMA TimesRises ==
  ASSUME NEW w \in Nat
  PROVE  \A m, n \in Nat : /\ m * w \in Nat /\ (m <= n => m * w <= n * w)
                           /\ (m < n => m * w + w <= n * w)
<1> TAKE m, n \in Nat
<1>1. m * w \in Nat /\ n * w \in Nat /\ (m + 1) * w = m * w + w
  OBVIOUS
<1>2. m <= n => m * w <= n * w
  OBVIOUS
<1>3. m < n => (m + 1) * w <= n * w
  <2> SUFFICES ASSUME m < n PROVE (m + 1) * w <= n * w
    OBVIOUS
  <2>1. m + 1 \in Nat /\ m + 1 <= n
    OBVIOUS
  <2> DEFINE k == m + 1
  <2> HIDE DEF k
  <2>2. k * w <= n * w
    BY <2>1 DEF k
  <2> QED BY <2>2 DEF k
<1> QED BY <1>1, <1>2, <1>3

LEMMA WorkType == ASSUME NEW r \in Nat, NEW h \in Nat PROVE Work(r, h) \in Nat
<1>1. h * BlockSize \in Int
  BY RoutingAssumption
<1> DEFINE m == h * BlockSize
<1> HIDE DEF m
<1>2. Monus(r, m) \in Nat
  BY <1>1 DEF Monus, m
<1> QED BY <1>2 DEF Work, m

(* What the vocabulary says of such observations.                           *)
LEMMA AlikeIs ==
  ASSUME NEW T, NEW a, NEW r, NEW h, Alike(T, a, r, h), NEW o \in T
  PROVE  /\ new_tokens(r, o) = Work(r, h) /\ queued_tokens(o) = a[o] * Work(r, h)
         /\ prefill_tokens(r, o) = a[o] * Work(r, h) + Work(r, h)
         /\ decode_blocks(o) = (a[o] * r) \div BlockSize
<1> DEFINE w == Work(r, h)
<1>1. w \in Nat
  BY WorkType DEF Alike
<1>2. new_tokens(r, o) = w
  BY DEF new_tokens, Work, Alike
<1>3. o.queued = a[o] * w /\ a[o] \in Nat
  BY DEF Alike
<1> HIDE DEF w
<1>4. a[o] * w \in Nat
  BY <1>1, <1>3
<1>5. queued_tokens(o) = a[o] * w
  BY <1>3, <1>4 DEF queued_tokens
<1>6. prefill_tokens(r, o) = a[o] * w + w
  BY <1>2, <1>5 DEF prefill_tokens
<1>7. decode_blocks(o) = (a[o] * r) \div BlockSize
  BY DEF decode_blocks, Alike
<1> QED BY <1>2, <1>5, <1>6, <1>7 DEF w

LEMMA PickLeastWaitToken ==
  ASSUME NEW T, NEW a, NEW r, NEW h, Alike(T, a, r, h), Work(r, h) > 0, NEW c \in JLeastWaitTokenQ(T, r)
  PROVE  Least(T, a, c)
<1> DEFINE w == Work(r, h)
           F == [n \in Nat |-> n * w + w]
           score == [o \in T |-> <<prefill_tokens(r, o)>>]
<1>1. w \in Nat
  BY WorkType DEF Alike
<1> HIDE DEF w
<1>2. Rising(F)
  BY <1>1, TimesRises DEF Rising, w
<1>3. \A o \in T : score[o] = <<F[a[o]]>>
  BY AlikeIs DEF Alike, w
<1>4. Indexed(T) /\ \A o \in T : a[o] \in Nat
  BY DEF Alike
<1>5. c \in SelectMin(T, score)
  BY DEF JLeastWaitTokenQ
<1> HIDE DEF F, score
<1> QED BY <1>2, <1>3, <1>4, <1>5, RisingPicks DEF Least

LEMMA PickLmetric ==
  ASSUME NEW T, NEW a, NEW r, NEW h, Alike(T, a, r, h), Work(r, h) > 0, NEW c \in LmetricQ(T, r)
  PROVE  Least(T, a, c)
<1> DEFINE w == Work(r, h)
           F == [n \in Nat |-> (n * w + w) * (n + 1)]
           score == [o \in T |-> <<prefill_tokens(r, o) * (o.bs + 1)>>]
<1>1. w \in Nat /\ w > 0
  BY WorkType DEF Alike
<1> HIDE DEF w
<1>2. Rising(F)
  <2>1. ASSUME NEW m \in Nat, NEW n \in Nat PROVE F[m] \in Int /\ (m < n => F[m] < F[n])
    <3> DEFINE x == m * w + w
               y == n * w + w
    <3>1. x \in Nat /\ y \in Nat /\ (m < n => x < y)
      BY <1>1, TimesRises
    <3> HIDE DEF x, y
    <3>2. F[m] = x * (m + 1) /\ F[n] = y * (n + 1)
      BY DEF x, y
    <3> HIDE DEF F
    <3>3. x * (m + 1) \in Nat /\ y * (m + 1) \in Nat /\ y * (n + 1) \in Nat
      BY <3>1
    <3>4. m < n => x * (m + 1) < y * (m + 1) /\ y * (m + 1) <= y * (n + 1)
      <4> SUFFICES ASSUME m < n PROVE x * (m + 1) < y * (m + 1) /\ y * (m + 1) <= y * (n + 1)
        OBVIOUS
      <4>1. x + 1 <= y /\ m + 1 <= n + 1 /\ m + 1 \in Nat /\ n + 1 \in Nat
        BY <3>1
      <4> DEFINE p == m + 1
                 q == n + 1
      <4>2. p \in Nat \ {0} /\ q \in Nat /\ p <= q
        OBVIOUS
      <4> HIDE DEF p, q
      <4>3. x * p + p <= y * p
        BY <3>1, <4>2, TimesRises
      <4>4. y * p <= y * q
        BY <3>1, <4>2
      <4>5. x * p \in Nat /\ y * p \in Nat
        BY <3>1, <4>2
      <4> QED BY <4>2, <4>3, <4>4, <4>5 DEF p, q
    <3> QED BY <3>2, <3>3, <3>4
  <2> HIDE DEF F
  <2> QED BY <2>1 DEF Rising
<1>3. \A o \in T : score[o] = <<F[a[o]]>>
  BY AlikeIs DEF Alike, w
<1>4. Indexed(T) /\ \A o \in T : a[o] \in Nat
  BY DEF Alike
<1>5. c \in SelectMin(T, score)
  BY DEF LmetricQ
<1> HIDE DEF F, score
<1> QED BY <1>2, <1>3, <1>4, <1>5, RisingPicks DEF Least

(* The policies that go by one count.                                       *)
LEMMA PickByCount ==
  ASSUME NEW T, NEW a, NEW r, NEW h, Alike(T, a, r, h),
         NEW c \in UNION {JShortestWeightQ(T), LeastActiveQ(T), LeastBsQ(T), LeastTokenLoadQ(T), LeastWaitingQ(T)}
  PROVE  Least(T, a, c)
<1> DEFINE w == Work(r, h)
<1>1. w \in Nat /\ r \in Nat \ {0} /\ Indexed(T) /\ \A o \in T : a[o] \in Nat
  BY WorkType DEF Alike
<1> HIDE DEF w
<1>2. CASE c \in JShortestWeightQ(T)
  <2> DEFINE F == [n \in Nat |-> 5 * n]
             score == [o \in T |-> <<4 * o.waiting + o.bs>>]
  <2>1. Rising(F)
    BY DEF Rising
  <2>2. \A o \in T : score[o] = <<F[a[o]]>>
    <3> TAKE o \in T
    <3>1. 4 * o.waiting + o.bs = 5 * a[o]
      BY <1>1 DEF Alike
    <3> QED BY <1>1, <3>1
  <2>3. c \in SelectMin(T, score)
    BY <1>2 DEF JShortestWeightQ
  <2> HIDE DEF F, score
  <2> QED BY <1>1, <2>1, <2>2, <2>3, RisingPicks DEF Least
<1>3. CASE c \in LeastActiveQ(T)
  <2> DEFINE F == [n \in Nat |-> n * r]
             score == [o \in T |-> <<o.all>>]
  <2>1. Rising(F)
    BY <1>1, TimesRises DEF Rising
  <2>2. \A o \in T : score[o] = <<F[a[o]]>>
    BY <1>1 DEF Alike
  <2>3. c \in SelectMin(T, score)
    BY <1>3 DEF LeastActiveQ
  <2> HIDE DEF F, score
  <2> QED BY <1>1, <2>1, <2>2, <2>3, RisingPicks DEF Least
<1>4. CASE c \in LeastBsQ(T) \/ c \in LeastWaitingQ(T)
  <2> DEFINE F == [n \in Nat |-> n]
             s1 == [o \in T |-> <<o.bs>>]
             s2 == [o \in T |-> <<o.waiting>>]
  <2>1. Rising(F)
    BY DEF Rising
  <2>2. \A o \in T : s1[o] = <<F[a[o]]>> /\ s2[o] = <<F[a[o]]>>
    BY <1>1 DEF Alike
  <2>3. c \in SelectMin(T, s1) \/ c \in SelectMin(T, s2)
    BY <1>4 DEF LeastBsQ, LeastWaitingQ
  <2> HIDE DEF F, s1, s2
  <2> QED BY <1>1, <2>1, <2>2, <2>3, RisingPicks DEF Least
<1>5. CASE c \in LeastTokenLoadQ(T)
  <2> DEFINE F == [n \in Nat |-> n * w + n * r]
             score == [o \in T |-> <<queued_tokens(o) + o.all>>]
  <2>1. Rising(F)
    BY <1>1, TimesRises DEF Rising
  <2>2. \A o \in T : score[o] = <<F[a[o]]>>
    BY <1>1, AlikeIs DEF Alike, w
  <2>3. c \in SelectMin(T, score)
    BY <1>5 DEF LeastTokenLoadQ
  <2> HIDE DEF F, score
  <2> QED BY <1>1, <2>1, <2>2, <2>3, RisingPicks DEF Least
<1> QED BY <1>2, <1>3, <1>4, <1>5

(* dynamo.rs: the thousandths of a block, and whole blocks.                 *)
LEMMA PickDynamo ==
  ASSUME NEW T, NEW a, NEW r, NEW h, Alike(T, a, r, h), BlockSize <= r, NEW c \in DynamoQ(T, r)
  PROVE  Least(T, a, c)
<1> DEFINE w == Work(r, h)
           b == BlockSize
           u == (1000 * w) \div b
           v == Monus((r + b - 1) \div b, h)
           F == [n \in Nat |-> u + 1000 * (v + ((n * r) \div b))]
           score == [o \in T |-> <<(1000 * new_tokens(r, o)) \div b + 1000 * (new_blocks(r, o) + decode_blocks(o))>>]
<1>1. w \in Nat /\ r \in Nat \ {0} /\ h \in Nat /\ b \in Nat \ {0} /\ Indexed(T) /\ \A o \in T : a[o] \in Nat
  BY WorkType, RoutingAssumption DEF Alike
<1>2. c \in SelectMin(T, score)
  BY DEF DynamoQ
<1>3. \A o \in T : score[o] = <<F[a[o]]>>
  <2> TAKE o \in T
  <2>1. new_tokens(r, o) = w /\ decode_blocks(o) = (a[o] * r) \div b
    BY AlikeIs
  <2>2. new_blocks(r, o) = v
    BY DEF new_blocks, Alike
  <2> HIDE DEF w, v
  <2> QED BY <1>1, <2>1, <2>2
<1> HIDE DEF w, score
<1>4. u \in Int /\ v \in Int
  <2>1. 1000 * w \in Int /\ r + b - 1 \in Int
    BY <1>1
  <2>2. u \in Int /\ (r + b - 1) \div b \in Int
    <3> HIDE DEF b
    <3> QED BY <1>1, <2>1, DivRises
  <2> QED BY <1>1, <2>2 DEF Monus
<1> HIDE DEF u, v
<1>5. Rising(F)
  <2>1. ASSUME NEW m \in Nat, NEW n \in Nat PROVE F[m] \in Int /\ (m < n => F[m] < F[n])
    <3> DEFINE x == m * r
               y == n * r
    <3>1. x \in Nat /\ y \in Nat /\ (m < n => x + b <= y)
      BY <1>1, TimesRises
    <3>2. F[m] = u + 1000 * (v + (x \div b)) /\ F[n] = u + 1000 * (v + (y \div b))
      OBVIOUS
    <3> HIDE DEF x, y, F, b
    <3>3. x \div b \in Int /\ y \div b \in Int /\ (m < n => x \div b < y \div b)
      BY <1>1, <3>1, DivRises
    <3> QED BY <1>4, <3>2, <3>3
  <2> HIDE DEF F
  <2> QED BY <2>1 DEF Rising
<1> HIDE DEF F
<1> QED BY <1>1, <1>2, <1>3, <1>5, RisingPicks DEF Least

LEMMA PickDynamoPo ==
  ASSUME NEW T, NEW a, NEW r, NEW h, Alike(T, a, r, h), Work(r, h) > 0, BlockSize <= 1000, NEW c \in DynamoPoQ(T, r)
  PROVE  Least(T, a, c)
<1> DEFINE w == Work(r, h)
           b == BlockSize
           P(n) == n * w + w
           F == [n \in Nat |-> (1000 * P(n)) \div b + 1000 * (P(n) \div b)]
           score == [o \in T |-> <<(1000 * prefill_tokens(r, o)) \div b + 1000 * (prefill_tokens(r, o) \div b)>>]
<1>1. w \in Nat \ {0} /\ b \in Nat \ {0} /\ b <= 1000 /\ Indexed(T) /\ \A o \in T : a[o] \in Nat
  <2>1. w \in Nat /\ w > 0
    BY WorkType DEF Alike
  <2>2. b \in Nat \ {0} /\ b <= 1000
    BY RoutingAssumption
  <2> QED BY <2>1, <2>2 DEF Alike
<1>2. c \in SelectMin(T, score)
  BY DEF DynamoPoQ
<1>3. \A o \in T : score[o] = <<F[a[o]]>>
  <2> TAKE o \in T
  <2>1. prefill_tokens(r, o) = P(a[o])
    BY AlikeIs
  <2> HIDE DEF P
  <2> QED BY <1>1, <2>1
<1> HIDE DEF w, score
<1>4. Rising(F)
  <2>1. ASSUME NEW m \in Nat, NEW n \in Nat PROVE F[m] \in Int /\ (m < n => F[m] < F[n])
    <3> DEFINE x == P(m)
               y == P(n)
    <3>1. x \in Nat /\ y \in Nat /\ (m < n => x + 1 <= y)
      BY <1>1, TimesRises
    <3>2. F[m] = (1000 * x) \div b + 1000 * (x \div b) /\ F[n] = (1000 * y) \div b + 1000 * (y \div b)
      OBVIOUS
    <3> HIDE DEF x, y, F, b
    <3>3. 1000 * x \in Int /\ 1000 * y \in Int /\ (m < n => 1000 * x + b <= 1000 * y /\ x <= y)
      BY <1>1, <3>1
    <3>4. /\ x \div b \in Int /\ y \div b \in Int /\ (m < n => x \div b <= y \div b)
          /\ (1000 * x) \div b \in Int /\ (1000 * y) \div b \in Int
          /\ (m < n => (1000 * x) \div b < (1000 * y) \div b)
      BY <1>1, <3>1, <3>3, DivRises
    <3> QED BY <3>2, <3>4
  <2> HIDE DEF F
  <2> QED BY <2>1 DEF Rising
<1> HIDE DEF F
<1> QED BY <1>1, <1>2, <1>3, <1>4, RisingPicks DEF Least

--------------------------------------------------------------------------------
(***************************************************************************)
(* most-hit-load-q, whose score stops rising at a threshold.               *)
(***************************************************************************)

(* Reducers over observations that are all the same in something, or in one *)
(* of two values.                                                           *)
LEMMA SpanSame ==
  ASSUME NEW T, T # {}, NEW f, NEW h \in Int, \A o \in T : f[o] = h
  PROVE  Lowest(T, f) = h /\ Highest(T, f) = h /\ Span(T, f) = 1
<1>1. {f[o] : o \in T} = {h}
  OBVIOUS
<1>2. Min({h}) = h /\ Max({h}) = h
  BY DEF Min, Max
<1>3. Lowest(T, f) = h /\ Highest(T, f) = h
  BY <1>1, <1>2 DEF Lowest, Highest
<1> QED BY <1>3 DEF Span

LEMMA SpanTwo ==
  ASSUME NEW T, NEW f, NEW x \in Int, NEW r \in Nat \ {0}, NEW m \in T, f[m] = x,
         \A o \in T : f[o] = x \/ f[o] = x + r
  PROVE  /\ Lowest(T, f) = x /\ Highest(T, f) \in Int
         /\ Highest(T, f) = x \/ Highest(T, f) = x + r
         /\ Span(T, f) \in Nat \ {0} /\ Span(T, f) <= r
<1> DEFINE V == {f[o] : o \in T}
<1>1. x \in V /\ \A v \in V : v = x \/ v = x + r
  OBVIOUS
<1>2. Lowest(T, f) = Min(V) /\ Highest(T, f) = Max(V)
  BY DEF Lowest, Highest
<1> HIDE DEF V
<1>3. Min(V) = x
  <2>1. \A v \in V : v \in Int /\ x <= v
    BY <1>1
  <2>2. \A m0 \in V : (\A v \in V : m0 <= v) => m0 = x
    BY <1>1, <2>1
  <2>3. Min(V) = CHOOSE v \in V : \A u \in V : v <= u
    BY DEF Min
  <2> QED BY <1>1, <2>1, <2>2, <2>3
<1>4. Max(V) = x \/ Max(V) = x + r
  <2>1. \E v \in V : \A u \in V : v >= u
    <3>1. CASE x + r \in V
      BY <1>1, <3>1
    <3>2. CASE x + r \notin V
      BY <1>1, <3>2
    <3> QED BY <3>1, <3>2
  <2>2. Max(V) \in V
    BY <2>1 DEF Max
  <2> QED BY <1>1, <2>2
<1> QED BY <1>2, <1>3, <1>4 DEF Span

(* What most-hit-load-q sees of a queue of n.                               *)
Capped(n) == IF n < QueueThreshold THEN n ELSE QueueThreshold

LEMMA CappedIs == \A n \in Nat : Capped(n) \in Nat /\ \A m \in Nat : m <= n => Capped(m) <= Capped(n)
BY RoutingAssumption DEF Capped

(* most_hit_load.rs: the replicas tell by the waiting requests only, and    *)
(* not beyond the threshold.                                                *)
LEMMA PickMostHitLoad ==
  ASSUME NEW T, NEW a, NEW r, NEW h, Alike(T, a, r, h), NEW c \in MostHitLoadQ(T)
  PROVE  \E o \in T : c = o.idx /\ \A q \in T : Capped(a[o]) <= Capped(a[q])
<1> DEFINE hit == [o \in T |-> o.hit]
           d == Span(T, hit)
           low == Lowest(T, hit)
           q == 2 * QueueThreshold
           S(o) == (1000 * (10 * q * (o.hit - low) + d * LoadTerm(o))) \div (d * q)
           score == [o \in T |-> <<S(o)>>]
           F == [n \in Nat |-> (1000 * (QueueThreshold - n)) \div q]
           b == [o \in T |-> Capped(a[o])]
<1>1. T # {} /\ Indexed(T) /\ h \in Nat /\ \A o \in T : a[o] \in Nat /\ o.hit = h /\ o.waiting = a[o]
  BY DEF Alike, Indexed
<1>2. QueueThreshold \in Nat /\ q \in Nat \ {0} /\ q <= 1000
  BY RoutingAssumption
<1>3. c \in SelectMax(T, score)
  BY DEF MostHitLoadQ
<1>4. low = h /\ d = 1
  <2>1. \A o \in T : hit[o] = h
    BY <1>1
  <2> HIDE DEF hit
  <2> QED BY <1>1, <2>1, SpanSame
<1>5. \A o \in T : b[o] \in Nat
  BY <1>1, CappedIs
<1>6. \A o \in T : LoadTerm(o) = QueueThreshold - b[o]
  BY <1>1 DEF LoadTerm, Capped
<1>7. \A o \in T : score[o] = <<F[b[o]]>>
  <2> TAKE o \in T
  <2>1. S(o) = (1000 * (10 * q * (h - h) + 1 * (QueueThreshold - b[o]))) \div (1 * q)
    BY <1>1, <1>4, <1>6
  <2> DEFINE k == b[o]
  <2>2. k \in Nat
    BY <1>5
  <2> HIDE DEF q, S, b
  <2>3. 10 * q * (h - h) + 1 * (QueueThreshold - k) = QueueThreshold - k /\ 1 * q = q
    BY <1>1, <1>2, <2>2
  <2>4. S(o) = (1000 * (QueueThreshold - k)) \div q
    BY <2>1, <2>3 DEF k
  <2> QED BY <2>2, <2>4 DEF k
<1>8. Falling(F)
  <2>1. ASSUME NEW m \in Nat, NEW n \in Nat PROVE F[m] \in Int /\ (m < n => F[n] < F[m])
    <3> DEFINE x == 1000 * (QueueThreshold - m)
               y == 1000 * (QueueThreshold - n)
    <3>1. x \in Int /\ y \in Int /\ (m < n => y + q <= x)
      BY <1>2
    <3>2. F[m] = x \div q /\ F[n] = y \div q
      OBVIOUS
    <3> HIDE DEF x, y, q, F
    <3> QED BY <1>2, <3>1, <3>2, DivRises
  <2> HIDE DEF F
  <2> QED BY <2>1 DEF Falling
<1> HIDE DEF score, F, b
<1>9. \E o \in T : c = o.idx /\ \A p \in T : b[o] <= b[p]
  BY <1>1, <1>3, <1>5, <1>7, <1>8, FallingPicks
<1> QED BY <1>9 DEF b

(* most_hit_load_active.rs: the tokens in addition, relative to the span of *)
(* them, which is one prompt as long as the load is even.                   *)
LEMMA PickMostHitLoadActive ==
  ASSUME NEW T, NEW a, NEW r, NEW h, Alike(T, a, r, h), \A p, q \in T : a[p] <= a[q] + 1,
         NEW c \in MostHitLoadActiveQ(T)
  PROVE  Least(T, a, c)
<1> DEFINE hit == [o \in T |-> o.hit]
           all == [o \in T |-> o.all]
           d == Span(T, hit)
           e == Span(T, all)
           low == Lowest(T, hit)
           H == Highest(T, all)
           q == 2 * QueueThreshold
           S(o) == (1000 * (10 * q * e * (o.hit - low) + d * e * LoadTerm(o) + q * d * (H - o.all))) \div (d * e * q)
           score == [o \in T |-> <<S(o)>>]
           G(n) == e * (QueueThreshold - Capped(n)) + q * (H - n * r)
           F == [n \in Nat |-> (1000 * G(n)) \div (e * q)]
<1>1. /\ T # {} /\ Indexed(T) /\ h \in Nat /\ r \in Nat \ {0}
      /\ \A o \in T : a[o] \in Nat /\ o.hit = h /\ o.waiting = a[o] /\ o.all = a[o] * r
  BY DEF Alike, Indexed
<1>2. QueueThreshold \in Nat /\ q \in Nat \ {0} /\ q <= 1000
  BY RoutingAssumption
<1>3. c \in SelectMax(T, score)
  BY DEF MostHitLoadActiveQ
<1>4. low = h /\ d = 1
  <2>1. \A o \in T : hit[o] = h
    BY <1>1
  <2> HIDE DEF hit
  <2> QED BY <1>1, <2>1, SpanSame
<1>0. \A o, p \in T : a[o] <= a[p] + 1
  OBVIOUS
<1> HIDE DEF score, F
<1>5. H \in Int /\ e \in Nat \ {0} /\ e <= r
  <2>1. PICK m \in T : \A o \in T : a[m] <= a[o]
    BY <1>1, LeastExists
  <2> DEFINE x == a[m] * r
  <2>2. x \in Int /\ all[m] = x
    BY <1>1
  <2>3. \A o \in T : all[o] = x \/ all[o] = x + r
    <3> TAKE o \in T
    <3>1. a[o] = a[m] \/ a[o] = a[m] + 1
      <4>1. a[o] <= a[m] + 1 /\ a[m] <= a[o] /\ a[o] \in Nat /\ a[m] \in Nat
        BY <1>0, <1>1, <2>1, Zenon
      <4> QED BY <4>1
    <3>2. (a[m] + 1) * r = a[m] * r + r
      BY <1>1
    <3> QED BY <1>1, <3>1, <3>2
  <2> HIDE DEF x, all
  <2>4. /\ Highest(T, all) \in Int /\ Span(T, all) \in Nat \ {0} /\ Span(T, all) <= r
    <3>1. m \in T /\ r \in Nat \ {0}
      BY <1>1, <2>1
    <3> QED BY ONLY <2>2, <2>3, <3>1, SpanTwo
  <2> QED BY <2>4
<1>6. \A o \in T : LoadTerm(o) = QueueThreshold - Capped(a[o]) /\ Capped(a[o]) \in Nat
  BY <1>1, CappedIs DEF LoadTerm, Capped
<1> USE DEF score, F
<1> HIDE DEF hit, all, d, e, low, H, q
<1>7. \A o \in T : score[o] = <<F[a[o]]>>
  <2> TAKE o \in T
  <2> DEFINE k == QueueThreshold - Capped(a[o])
             l == H - a[o] * r
  <2>1. S(o) = (1000 * (10 * q * e * (h - h) + 1 * e * k + q * 1 * l)) \div (1 * e * q)
    BY <1>1, <1>4, <1>6
  <2>2. k \in Int /\ l \in Int
    BY <1>1, <1>2, <1>5, <1>6
  <2>3. G(a[o]) = e * k + q * l
    OBVIOUS
  <2> HIDE DEF k, l, S, G
  <2>4. 10 * q * e * (h - h) + 1 * e * k + q * 1 * l = e * k + q * l /\ 1 * e * q = e * q
    BY <1>1, <1>2, <1>5, <2>2
  <2>5. S(o) = (1000 * G(a[o])) \div (e * q)
    BY <2>1, <2>3, <2>4
  <2> QED BY <1>1, <2>5
<1>8. Falling(F)
  <2>1. ASSUME NEW m \in Nat, NEW n \in Nat PROVE F[m] \in Int /\ (m < n => F[n] < F[m])
    <3> DEFINE x == 1000 * G(m)
               y == 1000 * G(n)
               z == e * q
               i == Capped(m)
               j == Capped(n)
               u == m * r
               v == n * r
    <3>1. i \in Nat /\ j \in Nat /\ (m < n => i <= j)
      BY CappedIs
    <3>2. u \in Nat /\ v \in Nat /\ (m < n => u + r <= v)
      BY <1>1, TimesRises
    <3>3. z \in Nat \ {0}
      BY <1>2, <1>5
    <3>4. F[m] = x \div z /\ F[n] = y \div z
      OBVIOUS
    <3>5. G(m) = e * (QueueThreshold - i) + q * (H - u) /\ G(n) = e * (QueueThreshold - j) + q * (H - v)
      OBVIOUS
    <3> HIDE DEF F, G, i, j, u, v
    <3>6. /\ e * (QueueThreshold - i) \in Int /\ e * (QueueThreshold - j) \in Int
          /\ q * (H - u) \in Int /\ q * (H - v) \in Int /\ q * r \in Nat
      BY <1>1, <1>2, <1>5, <3>1, <3>2
    <3>7. m < n => e * (QueueThreshold - j) <= e * (QueueThreshold - i)
      <4> SUFFICES ASSUME i <= j PROVE e * (QueueThreshold - j) <= e * (QueueThreshold - i)
        BY <3>1
      <4>1. e * i <= e * j /\ e * i \in Int /\ e * j \in Int
        BY <1>5, <3>1
      <4>2. /\ e * (QueueThreshold - j) = e * QueueThreshold - e * j
            /\ e * (QueueThreshold - i) = e * QueueThreshold - e * i
            /\ e * QueueThreshold \in Int
        BY <1>2, <1>5, <3>1
      <4> QED BY <4>1, <4>2
    <3>8. m < n => q * (H - v) + q * r <= q * (H - u)
      <4> SUFFICES ASSUME u + r <= v PROVE q * (H - v) + q * r <= q * (H - u)
        BY <3>2
      <4>1. q * (u + r) <= q * v /\ q * (u + r) = q * u + q * r /\ q * u \in Int /\ q * v \in Int
        BY <1>1, <1>2, <3>2
      <4>2. q * (H - v) = q * H - q * v /\ q * (H - u) = q * H - q * u /\ q * H \in Int
        BY <1>2, <1>5, <3>2
      <4> QED BY <3>6, <4>1, <4>2
    <3>9. z <= q * r
      BY <1>1, <1>2, <1>5
    <3>10. G(m) \in Int /\ G(n) \in Int /\ (m < n => G(n) + z <= G(m))
      <4> HIDE DEF z
      <4> QED BY <3>3, <3>5, <3>6, <3>7, <3>8, <3>9
    <3>11. x \in Int /\ y \in Int /\ (m < n => y + z <= x)
      <4> HIDE DEF z
      <4> QED BY <3>3, <3>10
    <3> HIDE DEF x, y, z
    <3> QED BY <3>3, <3>4, <3>11, DivRises
  <2> HIDE DEF F
  <2> QED BY <2>1 DEF Falling
<1> HIDE DEF score, F
<1> QED BY <1>1, <1>3, <1>7, <1>8, FallingPicks DEF Least

--------------------------------------------------------------------------------
(***************************************************************************)
(* aibrix-q, which considers the replicas near the mean load.              *)
(***************************************************************************)

(* A sum is at least as many times its least term as it has terms.          *)
LEMMA SumAtLeast ==
  ASSUME NEW S, IsFiniteSet(S), NEW f, NEW c \in Nat, \A x \in S : f[x] \in Nat /\ c <= f[x]
  PROVE  SumOver(f, S) \in Nat /\ Cardinality(S) * c <= SumOver(f, S)
<1> DEFINE G == {T \in SUBSET S : Cardinality(T) * c <= SumOver(f, T)}
<1>1. {} \in G
  <2>1. SumOver(f, {}) = 0 /\ Cardinality({}) = 0
    BY FS_EmptySet, SumRecursion
  <2> QED BY <2>1
<1>2. ASSUME NEW T \in SUBSET S, NEW x \in S \ T, T \in G PROVE T \cup {x} \in G
  <2>1. IsFiniteSet(T) /\ Cardinality(T) \in Nat /\ Cardinality(T \cup {x}) = Cardinality(T) + 1
    BY FS_Subset, FS_CardinalityType, FS_AddElement
  <2>2. SumOver(f, T \cup {x}) = f[x] + SumOver(f, T) /\ SumOver(f, T) \in Nat
    <3>1. \A y \in T \cup {x} : f[y] \in Int
      OBVIOUS
    <3> QED BY <2>1, <3>1, SumAdd, SumType
  <2>3. (Cardinality(T) + 1) * c = Cardinality(T) * c + c /\ Cardinality(T) * c \in Nat
    BY <2>1
  <2>4. Cardinality(T) * c <= SumOver(f, T) /\ f[x] \in Nat /\ c <= f[x]
    BY <1>2
  <2> HIDE DEF G
  <2>5. Cardinality(T \cup {x}) * c <= SumOver(f, T \cup {x})
    BY <2>1, <2>2, <2>3, <2>4
  <2> QED BY <2>5 DEF G
<1>3. S \in G
  <2> HIDE DEF G
  <2> QED BY <1>1, <1>2, SubsetInduction
<1> QED BY <1>3, SumType

(* aibrix.rs: a replica with the smallest batch is never above the mean, so *)
(* it is among those of which the smallest batch decides.                   *)
LEMMA NearIs ==
  ASSUME NEW T, IsFiniteSet(T), NEW f, NEW x \in Nat, \A o \in T : f[o] \in Nat /\ x <= f[o]
  PROVE  AtMostMeanPlusStd(x, T, f)
<1>1. /\ Cardinality(T) \in Nat /\ SumOver(f, T) \in Nat
      /\ Cardinality(T) * x <= SumOver(f, T)
  BY FS_CardinalityType, SumAtLeast
<1>2. Cardinality(T) * x - SumOver(f, T) <= 0
  <2> DEFINE k == Cardinality(T) * x
  <2>1. k \in Nat
    BY <1>1
  <2> HIDE DEF k
  <2>2. k - SumOver(f, T) <= 0
    BY <1>1, <2>1 DEF k
  <2> QED BY <2>2 DEF k
<1>3. Cardinality(T) * x - MapThenSumSet(LAMBDA o : f[o], T) <= 0
  BY <1>2 DEF SumOver
<1> QED BY <1>3 DEF AtMostMeanPlusStd

LEMMA PickAibrix ==
  ASSUME NEW T, NEW a, NEW r, NEW h, Alike(T, a, r, h), IsFiniteSet(T), NEW c \in AibrixQ(T)
  PROVE  Least(T, a, c)
<1> DEFINE bs == [o \in T |-> o.bs]
           lo == Lowest(T, bs)
           gap == Highest(T, bs) - lo
           score == [o \in T |-> <<- o.hit, o.bs>>]
           low == {o \in T : o.bs = lo /\ gap > ImbalanceCount}
           Near(t) == {o \in t : AtMostMeanPlusStd(o.bs, T, bs)}
           Inner(t) == FilterThen(Near(t), SelectMin(Near(t), score), SelectMax(t, score))
<1>1. T # {} /\ Indexed(T) /\ h \in Nat /\ \A o \in T : a[o] \in Nat /\ o.hit = h /\ o.bs = a[o] /\ o.idx \in Replica
  BY DEF Alike, Indexed
<1>2. c \in FilterThen(low, Inner(low), Inner(T))
  BY DEF AibrixQ
<1>3. PICK m \in T : \A o \in T : a[m] <= a[o]
  BY <1>1, LeastExists
<1>4. lo = a[m]
  <2> DEFINE V == {bs[o] : o \in T}
  <2>1. a[m] \in V /\ \A v \in V : v \in Nat /\ a[m] <= v
    BY <1>1, <1>3
  <2> HIDE DEF V
  <2>2. \A u \in V : (\A v \in V : u <= v) => u = a[m]
    BY <2>1
  <2>3. Min(V) = CHOOSE v \in V : \A u \in V : v <= u
    BY DEF Min
  <2>4. Min(V) = a[m]
    BY <2>1, <2>2, <2>3
  <2> QED BY <2>4 DEF Lowest, V
<1>5. AtMostMeanPlusStd(a[m], T, bs)
  <2>1. \A o \in T : bs[o] \in Nat /\ a[m] <= bs[o]
    BY <1>1, <1>3
  <2>2. a[m] \in Nat
    BY <1>1, <1>3
  <2> HIDE DEF bs
  <2> QED BY <2>1, <2>2, NearIs
<1> HIDE DEF bs, lo, gap
<1>6. ASSUME NEW t \in SUBSET T, m \in t, c \in Inner(t) PROVE Least(T, a, c)
  <2>1. m \in Near(t)
    BY <1>1, <1>3, <1>5, <1>6
  <2>2. c \in SelectMin(Near(t), score)
    BY <1>6, <2>1 DEF FilterThen
  <2>3. Near(t) \in SUBSET T /\ Indexed(Near(t))
    BY <1>1, <2>1 DEF Indexed
  <2>4. \A p, q \in T : Less(score[q], score[p]) <=> a[q] < a[p]
    <3>1. ASSUME NEW p \in T, NEW q \in T PROVE Less(score[q], score[p]) <=> a[q] < a[p]
      <4>1. score[q] = <<- h, a[q]>> /\ score[p] = <<- h, a[p]>> /\ - h \in Int
        BY <1>1
      <4>2. a[p] \in Int /\ a[q] \in Int
        BY <1>1
      <4> HIDE DEF score
      <4> QED BY <4>1, <4>2, LessTwo
    <3> QED BY <3>1
  <2> DEFINE U == Near(t)
  <2> HIDE DEF score, Near
  <2>5. \A p, q \in U : Less(score[q], score[p]) <=> a[q] < a[p]
    BY <2>3, <2>4
  <2>6. \A o \in U : a[o] \in Nat
    BY <1>1, <2>3
  <2>7. c \in SelectMin(U, score) /\ Indexed(U)
    BY <2>2, <2>3
  <2>8. m \in U /\ U \subseteq T
    BY <2>1, <2>3
  <2> HIDE DEF U
  <2>9. PICK o \in U : c = o.idx /\ \A q \in U : a[o] <= a[q]
    BY <2>5, <2>6, <2>7, MinPicks
  <2>10. o \in T /\ a[o] <= a[m] /\ a[m] \in Nat /\ a[o] \in Nat
    BY <1>1, <2>8, <2>9
  <2>11. \A q \in T : a[o] <= a[q]
    <3> TAKE q \in T
    <3>1. a[m] <= a[q] /\ a[q] \in Nat
      BY <1>1, <1>3
    <3> QED BY <2>10, <3>1
  <2> QED BY <2>9, <2>10, <2>11 DEF Least
<1>7. CASE low # {}
  <2>1. c \in Inner(low)
    BY <1>2, <1>7 DEF FilterThen
  <2>2. m \in low
    BY <1>1, <1>3, <1>4, <1>7
  <2> HIDE DEF Inner
  <2> QED BY <1>6, <2>1, <2>2
<1>8. CASE low = {}
  <2>1. c \in Inner(T)
    BY <1>2, <1>8 DEF FilterThen
  <2> HIDE DEF Inner
  <2> QED BY <1>3, <1>6, <2>1
<1> QED BY <1>7, <1>8

--------------------------------------------------------------------------------
(***************************************************************************)
(* The policies that go by what a window holds, the one that goes round,   *)
(* and the one with a bound.                                               *)
(***************************************************************************)

(* preble/mod.rs: all replicas are KV-aware or none is, and in both cases   *)
(* the load of the flavour tells them apart.                                *)
LEMMA KvAwareIs == ASSUME NEW T, NEW r PROVE KvAware(T, r) = T \/ KvAware(T, r) = {}
BY DEF KvAware

Tells(T, a, f) == \A p, q \in T : f[p] \in Int /\ (f[q] < f[p] <=> a[q] < a[p])

LEMMA PickTied ==
  ASSUME NEW T, Indexed(T), NEW a, \A o \in T : a[o] \in Nat, NEW h \in Int, NEW f, Tells(T, a, f),
         NEW score, \A o \in T : score[o] = <<h, - f[o]>>, NEW c \in SelectMax(T, score)
  PROVE  Least(T, a, c)
<1>1. ASSUME NEW p \in T, NEW q \in T PROVE Less(score[p], score[q]) <=> a[q] < a[p]
  <2> DEFINE x == f[p]
             y == f[q]
  <2>1. x \in Int /\ y \in Int /\ (y < x <=> a[q] < a[p])
    BY DEF Tells
  <2>2. score[p] = <<h, - x>> /\ score[q] = <<h, - y>>
    OBVIOUS
  <2> HIDE DEF x, y
  <2>3. - x \in Int /\ - y \in Int /\ (- x < - y <=> y < x)
    BY <2>1
  <2>4. Less(<<h, - x>>, <<h, - y>>) <=> - x < - y
    BY <2>3, LessTwo
  <2> QED BY <2>1, <2>2, <2>3, <2>4
<1> QED BY <1>1, MaxPicks DEF Least

LEMMA PickByLoad ==
  ASSUME NEW T, Indexed(T), NEW a, \A o \in T : a[o] \in Nat, NEW f, Tells(T, a, f),
         NEW score, \A o \in T : score[o] = <<f[o]>>, NEW c \in SelectMin(T, score)
  PROVE  Least(T, a, c)
<1>1. ASSUME NEW p \in T, NEW q \in T PROVE Less(score[q], score[p]) <=> a[q] < a[p]
  <2>1. f[p] \in Int /\ f[q] \in Int /\ (f[q] < f[p] <=> a[q] < a[p])
    BY DEF Tells
  <2>2. Less(<<f[q]>>, <<f[p]>>) <=> f[q] < f[p]
    BY <2>1, LessOne
  <2> QED BY <2>1, <2>2
<1> QED BY <1>1, MinPicks DEF Least

LEMMA PickPreble ==
  ASSUME NEW T, NEW a, NEW r, NEW h, Alike(T, a, r, h), NEW K \in Nat, K >= 1000,
         \A o \in T : o.load = a[o] /\ o.cost = (a[o] * K) \div 1000, NEW c \in PrebleQ(T, r)
  PROVE  Least(T, a, c)
<1>1. Indexed(T) /\ h \in Int /\ \A o \in T : a[o] \in Nat /\ o.hit = h
  BY DEF Alike
<1> DEFINE f == [o \in T |-> o.load]
           g == [o \in T |-> o.cost]
<1>2. Tells(T, a, f)
  BY <1>1 DEF Tells
<1>3. Tells(T, a, g)
  <2>1. ASSUME NEW p \in T, NEW q \in T PROVE g[p] \in Int /\ (g[q] < g[p] <=> a[q] < a[p])
    <3> DEFINE x == a[p] * K
               y == a[q] * K
    <3>1. /\ x \in Nat /\ y \in Nat /\ a[p] \in Nat /\ a[q] \in Nat
          /\ (a[q] < a[p] => y + K <= x) /\ (a[p] <= a[q] => x <= y)
      BY <1>1, TimesRises
    <3>2. g[p] = x \div 1000 /\ g[q] = y \div 1000
      OBVIOUS
    <3> HIDE DEF x, y, g
    <3>3. /\ x \div 1000 \in Int /\ y \div 1000 \in Int
          /\ (y + 1000 <= x => y \div 1000 < x \div 1000) /\ (x <= y => x \div 1000 <= y \div 1000)
      BY <3>1, DivRises
    <3> QED BY <3>1, <3>2, <3>3
  <2> HIDE DEF g
  <2> QED BY <2>1 DEF Tells
<1> DEFINE s1 == [o \in T |-> <<o.hit, - o.load>>]
           s2 == [o \in T |-> <<o.cost>>]
<1>4. c \in SelectMax(T, s1) \/ c \in SelectMin(T, s2)
  BY KvAwareIs DEF PrebleQ, FilterThen
<1>5. \A o \in T : s1[o] = <<h, - f[o]>> /\ s2[o] = <<g[o]>>
  BY <1>1
<1> HIDE DEF f, g, s1, s2
<1>6. CASE c \in SelectMax(T, s1)
  BY <1>1, <1>2, <1>5, <1>6, PickTied
<1>7. CASE c \in SelectMin(T, s2)
  BY <1>1, <1>3, <1>5, <1>7, PickByLoad
<1> QED BY <1>4, <1>6, <1>7

LEMMA PickPrebleBs ==
  ASSUME NEW T, NEW a, NEW r, NEW h, Alike(T, a, r, h),
         \A o \in T : o.bs_sum \in Int /\ 2 * o.bs_sum = a[o] * (a[o] + 1), NEW c \in PrebleBsQ(T, r)
  PROVE  Least(T, a, c)
<1>1. Indexed(T) /\ h \in Int /\ \A o \in T : a[o] \in Nat /\ o.hit = h
  BY DEF Alike
<1> DEFINE f == [o \in T |-> o.bs_sum]
<1>2. Tells(T, a, f)
  <2>1. ASSUME NEW m \in Nat, NEW n \in Nat
        PROVE  m * (m + 1) \in Nat /\ n * (n + 1) \in Nat /\ (m <= n => m * (m + 1) <= n * (n + 1))
               /\ (m < n => m * (m + 1) < n * (n + 1))
    <3>1. m * (m + 1) \in Nat /\ n * (n + 1) \in Nat /\ m * (n + 1) \in Nat
      OBVIOUS
    <3>2. m <= n => m * (m + 1) <= m * (n + 1) /\ m * (n + 1) <= n * (n + 1)
      OBVIOUS
    <3>3. m < n => m * (n + 1) + (n + 1) <= n * (n + 1)
      <4>1. n + 1 \in Nat
        OBVIOUS
      <4> DEFINE k == n + 1
      <4> HIDE DEF k
      <4>2. m < n => m * k + k <= n * k
        BY <4>1, TimesRises DEF k
      <4> QED BY <4>2 DEF k
    <3> QED BY <3>1, <3>2, <3>3
  <2>2. ASSUME NEW p \in T, NEW q \in T PROVE f[p] \in Int /\ (f[q] < f[p] <=> a[q] < a[p])
    <3> DEFINE x == a[p] * (a[p] + 1)
               y == a[q] * (a[q] + 1)
    <3>1. /\ x \in Nat /\ y \in Nat /\ a[p] \in Nat /\ a[q] \in Nat
          /\ (a[q] < a[p] => y < x) /\ (a[p] <= a[q] => x <= y)
      BY <1>1, <2>1
    <3>2. f[p] \in Int /\ f[q] \in Int /\ 2 * f[p] = x /\ 2 * f[q] = y
      OBVIOUS
    <3> HIDE DEF x, y, f
    <3> QED BY <3>1, <3>2
  <2> HIDE DEF f
  <2> QED BY <2>2 DEF Tells
<1> DEFINE s1 == [o \in T |-> <<o.hit, - o.bs_sum>>]
           s2 == [o \in T |-> <<o.bs_sum>>]
<1>3. c \in SelectMax(T, s1) \/ c \in SelectMin(T, s2)
  BY KvAwareIs DEF PrebleBsQ, FilterThen
<1>4. \A o \in T : s1[o] = <<h, - f[o]>> /\ s2[o] = <<f[o]>>
  BY <1>1
<1> HIDE DEF f, s1, s2
<1>5. CASE c \in SelectMax(T, s1)
  BY <1>1, <1>2, <1>4, <1>5, PickTied
<1>6. CASE c \in SelectMin(T, s2)
  BY <1>1, <1>2, <1>4, <1>6, PickByLoad
<1> QED BY <1>3, <1>5, <1>6

(* preble-tps-q: idle replicas first, then by the batch.                    *)
LEMMA PickPrebleTps ==
  ASSUME NEW T, NEW a, NEW r, NEW h, Alike(T, a, r, h),
         \A o \in T : o.tps = (IF a[o] = 0 THEN Infinity ELSE 0), NEW c \in PrebleTpsQ(T, r)
  PROVE  Least(T, a, c)
<1>1. Indexed(T) /\ h \in Int /\ \A o \in T : a[o] \in Nat /\ o.hit = h /\ o.bs = a[o]
  BY DEF Alike
<1> DEFINE t(n) == IF n = 0 THEN Infinity ELSE 0
           s1 == [o \in T |-> <<h, t(a[o]), - a[o]>>]
           s2 == [o \in T |-> <<t(a[o]), - a[o]>>]
<1>2. ASSUME NEW p \in T, NEW q \in T
      PROVE  /\ Less(s1[p], s1[q]) <=> a[q] < a[p]
             /\ Less(s2[p], s2[q]) <=> a[q] < a[p]
  <2> DEFINE x == a[p]
             y == a[q]
             u == t(x)
             v == t(y)
             A == <<h, u, - x>>
             B == <<h, v, - y>>
             C == <<u, - x>>
             D == <<v, - y>>
  <2>1. x \in Nat /\ y \in Nat /\ u \in Int /\ v \in Int
    BY <1>1 DEF Infinity
  <2>2. (u < v \/ (u = v /\ - x < - y)) <=> y < x
    BY <2>1 DEF Infinity
  <2>3. s1[p] = A /\ s1[q] = B /\ s2[p] = C /\ s2[q] = D
    OBVIOUS
  <2>4. /\ DOMAIN A = {1, 2, 3} /\ A[1] = h /\ A[2] = u /\ A[3] = - x /\ B[1] = h /\ B[2] = v /\ B[3] = - y
        /\ DOMAIN C = {1, 2} /\ C[1] = u /\ C[2] = - x /\ D[1] = v /\ D[2] = - y
    OBVIOUS
  <2> HIDE DEF s1, s2, u, v, x, y, A, B, C, D
  <2>5. 1..(1 - 1) = {} /\ 1..(2 - 1) = {1} /\ 1..(3 - 1) = {1, 2} /\ ~ (h < h)
    BY <1>1
  <2>6. Less(A, B) <=> u < v \/ (u = v /\ - x < - y)
    BY <2>4, <2>5 DEF Less
  <2>7. Less(C, D) <=> u < v \/ (u = v /\ - x < - y)
    BY <2>4, <2>5 DEF Less
  <2> QED BY <2>2, <2>3, <2>6, <2>7 DEF x, y
<1>3. c \in SelectMax(T, [o \in T |-> <<o.hit, o.tps, - o.bs>>]) \/ c \in SelectMax(T, [o \in T |-> <<o.tps, - o.bs>>])
  BY KvAwareIs DEF PrebleTpsQ, FilterThen
<1>4. [o \in T |-> <<o.hit, o.tps, - o.bs>>] = s1 /\ [o \in T |-> <<o.tps, - o.bs>>] = s2
  BY <1>1
<1>5. c \in SelectMax(T, s1) \/ c \in SelectMax(T, s2)
  BY <1>3, <1>4
<1> HIDE DEF s1, s2
<1> QED BY <1>1, <1>2, <1>5, MaxPicks DEF Least

(* simple.rs: round robin.                                                  *)
LEMMA PickRoundRobin ==
  ASSUME NEW T, Indexed(T), NEW n, NEW o \in T, o.idx = n, NEW c \in RoundRobinQ(T, n)
  PROVE  c = n
<1> DEFINE score == [p \in T |-> <<IF p.idx = n THEN 0 ELSE 1>>]
           a == [p \in T |-> IF p.idx = n THEN 0 ELSE 1]
<1>1. \A p, q \in T : Less(score[q], score[p]) <=> a[q] < a[p]
  <2>1. ASSUME NEW p \in T, NEW q \in T PROVE Less(score[q], score[p]) <=> a[q] < a[p]
    <3>1. score[p] = <<a[p]>> /\ score[q] = <<a[q]>> /\ a[p] \in Int /\ a[q] \in Int
      OBVIOUS
    <3> HIDE DEF score, a
    <3> QED BY <3>1, LessOne
  <2> QED BY <2>1
<1>2. \A p \in T : a[p] \in Nat /\ (a[p] <= 0 <=> p.idx = n)
  OBVIOUS
<1>3. c \in SelectMin(T, score)
  BY DEF RoundRobinQ
<1>4. a[o] = 0
  OBVIOUS
<1> HIDE DEF score, a
<1>5. PICK m \in T : c = m.idx /\ \A q \in T : a[m] <= a[q]
  BY <1>1, <1>2, <1>3, MinPicks
<1> QED BY <1>2, <1>4, <1>5

(* simple.rs: a replica below the bound, or the one with the least to do.   *)
LEMMA PickBounded ==
  ASSUME NEW T, NEW a, NEW r, NEW h, Alike(T, a, r, h), NEW c \in JBoundMostHitQ2(T, r)
  PROVE  \E o \in T : c = o.idx /\ (o.queued < PrefillBound \/ \A q \in T : o.queued <= q.queued)
<1> DEFINE w == Work(r, h)
           free == {o \in T : queued_tokens(o) < PrefillBound}
           s1 == [o \in free |-> <<o.hit>>]
           s2 == [o \in T |-> <<prefill_tokens(r, o)>>]
           b == [o \in T |-> o.queued]
<1>1. w \in Nat /\ h \in Nat /\ Indexed(T) /\ \A o \in T : o.hit = h
  BY WorkType DEF Alike
<1>2. \A o \in T : o.queued \in Nat /\ queued_tokens(o) = o.queued /\ prefill_tokens(r, o) = o.queued + w
  <2> TAKE o \in T
  <2>1. /\ queued_tokens(o) = a[o] * w /\ prefill_tokens(r, o) = a[o] * w + w
        /\ o.queued = a[o] * w /\ a[o] \in Nat
    BY AlikeIs DEF Alike
  <2> HIDE DEF w
  <2>2. a[o] * w \in Nat
    BY <1>1, <2>1
  <2> QED BY <2>1, <2>2
<1>3. CASE free # {}
  <2>1. c \in SelectMax(free, s1)
    BY <1>3 DEF JBoundMostHitQ2, FilterThen
  <2> DEFINE z == [o \in free |-> 0]
  <2>2. \A p, q \in free : (Less(s1[p], s1[q]) <=> z[q] < z[p]) /\ z[p] \in Nat
    <3>1. ASSUME NEW p \in free, NEW q \in free PROVE (Less(s1[p], s1[q]) <=> z[q] < z[p]) /\ z[p] \in Nat
      <4>1. s1[p] = <<h>> /\ s1[q] = <<h>> /\ z[p] = 0 /\ z[q] = 0
        BY <1>1
      <4> HIDE DEF s1, z
      <4> QED BY <1>1, <4>1, LessOne
    <3> QED BY <3>1
  <2>3. Indexed(free)
    BY <1>1, <1>3 DEF Indexed
  <2> HIDE DEF s1, z, free
  <2>4. PICK o \in free : c = o.idx
    BY <2>1, <2>2, <2>3, MaxPicks
  <2> QED BY <1>2, <2>4 DEF free
<1>4. CASE free = {}
  <2>1. c \in SelectMin(T, s2)
    BY <1>4 DEF JBoundMostHitQ2, FilterThen, JLeastWaitTokenQ
  <2>2. \A p, q \in T : (Less(s2[q], s2[p]) <=> b[q] < b[p]) /\ b[p] \in Nat
    <3>1. ASSUME NEW p \in T, NEW q \in T PROVE (Less(s2[q], s2[p]) <=> b[q] < b[p]) /\ b[p] \in Nat
      <4>1. /\ s2[p] = <<b[p] + w>> /\ s2[q] = <<b[q] + w>>
            /\ b[p] \in Nat /\ b[q] \in Nat
        BY <1>2
      <4> HIDE DEF s2, b, w
      <4>2. Less(<<b[q] + w>>, <<b[p] + w>>) <=> b[q] + w < b[p] + w
        BY <1>1, <4>1, LessOne
      <4> QED BY <1>1, <4>1, <4>2
    <3> QED BY <3>1
  <2> HIDE DEF s2, b
  <2>3. PICK o \in T : c = o.idx /\ \A q \in T : b[o] <= b[q]
    BY <1>1, <2>1, <2>2, MinPicks
  <2> QED BY <2>3 DEF b
<1> QED BY <1>3, <1>4

--------------------------------------------------------------------------------
(***************************************************************************)
(* All of the policies that spread.                                        *)
(***************************************************************************)

(* What a policy of Preble's finds in a window when all that is in it are   *)
(* the requests given to the replica.                                       *)
LoadsAre(p, T, a) ==
    /\ p = "preble-q" => \E K \in Nat : K >= 1000 /\ \A o \in T : o.load = a[o] /\ o.cost = (a[o] * K) \div 1000
    /\ p = "preble-bs-q" => \A o \in T : o.bs_sum \in Int /\ 2 * o.bs_sum = a[o] * (a[o] + 1)
    /\ p = "preble-tps-q" => \A o \in T : o.tps = (IF a[o] = 0 THEN Infinity ELSE 0)

LEMMA MayChooseLeast ==
  ASSUME NEW p \in PolicyNames \ {"random-q", "bailian-impl-q", "most-hit-q", "bounded-most-hit-q",
                                  "round-robin-q", "most-hit-load-q"},
         NEW T, NEW a, NEW r, NEW h, Alike(T, a, r, h), IsFiniteSet(T), \A o, q \in T : a[o] <= a[q] + 1,
         LoadsAre(p, T, a), p \in ByTokens => Work(r, h) > 0,
         p = "dynamo-q" => BlockSize <= r, p = "dynamo-po-q" => BlockSize <= 1000,
         NEW n, NEW c \in MayChoose(p, T, r, n)
  PROVE  Least(T, a, c)
<1>1. CASE p = "least-wait-token-q"
  <2>1. c \in JLeastWaitTokenQ(T, r)
    BY <1>1 DEF MayChoose
  <2> QED BY <1>1, <2>1, PickLeastWaitToken DEF ByTokens
<1>2. CASE p \in {"shortest-weight-q", "least-active-q", "least-bs-q", "least-token-load-q", "least-waiting-q"}
  <2>1. \/ c \in JShortestWeightQ(T) \/ c \in LeastActiveQ(T) \/ c \in LeastBsQ(T)
        \/ c \in LeastTokenLoadQ(T) \/ c \in LeastWaitingQ(T)
    BY <1>2 DEF MayChoose
  <2> QED BY <2>1, PickByCount
<1>3. CASE p = "lmetric-q"
  <2>1. c \in LmetricQ(T, r)
    BY <1>3 DEF MayChoose
  <2> QED BY <1>3, <2>1, PickLmetric DEF ByTokens
<1>4. CASE p = "aibrix-q"
  <2>1. c \in AibrixQ(T)
    BY <1>4 DEF MayChoose
  <2> QED BY <2>1, PickAibrix
<1>5. CASE p = "dynamo-q"
  <2>1. c \in DynamoQ(T, r)
    BY <1>5 DEF MayChoose
  <2> QED BY <1>5, <2>1, PickDynamo
<1>6. CASE p = "dynamo-po-q"
  <2>1. c \in DynamoPoQ(T, r)
    BY <1>6 DEF MayChoose
  <2> QED BY <1>6, <2>1, PickDynamoPo DEF ByTokens
<1>7. CASE p = "most-hit-load-active-q"
  <2>1. c \in MostHitLoadActiveQ(T)
    BY <1>7 DEF MayChoose
  <2> QED BY <2>1, PickMostHitLoadActive
<1>8. CASE p = "preble-q"
  <2>1. c \in PrebleQ(T, r)
    BY <1>8 DEF MayChoose
  <2>2. PICK K \in Nat : K >= 1000 /\ \A o \in T : o.load = a[o] /\ o.cost = (a[o] * K) \div 1000
    BY <1>8 DEF LoadsAre
  <2> QED BY <2>1, <2>2, PickPreble
<1>9. CASE p = "preble-bs-q"
  <2>1. c \in PrebleBsQ(T, r)
    BY <1>9 DEF MayChoose
  <2> QED BY <1>9, <2>1, PickPrebleBs DEF LoadsAre
<1>10. CASE p = "preble-tps-q"
  <2>1. c \in PrebleTpsQ(T, r)
    BY <1>10 DEF MayChoose
  <2> QED BY <1>10, <2>1, PickPrebleTps DEF LoadsAre
<1> QED BY <1>1, <1>2, <1>3, <1>4, <1>5, <1>6, <1>7, <1>8, <1>9, <1>10 DEF PolicyNames, PreblePolicies

-----------------------------------------------------------------------------
(* A sample of Preble's costs more than a thousandth of a second.           *)
LEMMA CostBound == ASSUME NEW tokens \in Nat, req \in Nat PROVE request_cost(tokens) \in Int /\ request_cost(tokens) >= 1000
<1> DEFINE l == linear_time("A800", tokens)
           t == attention_time("A800", req, tokens)
           q == attn_quad_time("A800", tokens)
           sum == l + t + q
<1>1. l \in Int /\ l >= -118000000
  <2>1. CASE tokens >= 384 \/ tokens < 192
    BY <2>1 DEF linear_time
  <2>2. CASE tokens >= 192 /\ tokens < 384
    <3>1. l = 1250000 * tokens - 118000000 - 2560 * tokens * tokens
      BY <2>2 DEF linear_time
    <3>2. 1250000 * tokens - 2560 * tokens * tokens = tokens * (1250000 - 2560 * tokens)
      OBVIOUS
    <3>3. 1250000 - 2560 * tokens \in Nat
      BY <2>2
    <3>4. tokens * (1250000 - 2560 * tokens) \in Nat
      <4> DEFINE k == 1250000 - 2560 * tokens
      <4>1. k \in Nat
        BY <3>3
      <4> HIDE DEF k
      <4> QED BY <4>1 DEF k
    <3>5. 1250000 * tokens \in Int /\ 2560 * tokens * tokens \in Int
      OBVIOUS
    <3> DEFINE x == 1250000 * tokens
               y == 2560 * tokens * tokens
    <3>6. x \in Int /\ y \in Int /\ x - y >= 0 /\ l = x - 118000000 - y
      BY <3>1, <3>2, <3>4, <3>5
    <3> HIDE DEF x, y, l
    <3> QED BY <3>6
  <2> QED BY <2>1, <2>2
<1>2. t \in Int /\ t >= 0
  BY DEF attention_time
<1>3. q \in Int /\ q >= 0
  <2>1. CASE tokens < 4096
    BY <2>1 DEF attn_quad_time
  <2>2. CASE tokens >= 4096
    <3> DEFINE x == (tokens * tokens) \div 25
    <3>1. tokens * tokens \in Nat
      OBVIOUS
    <3>2. x \in Nat
      BY <3>1
    <3>3. q = 3860 * tokens - 7370000 + 54 * x
      BY <2>2 DEF attn_quad_time
    <3> HIDE DEF x, q
    <3> QED BY <2>2, <3>2, <3>3
  <2> QED BY <2>1, <2>2
<1>4. prefill_time("A800", tokens, req) = sum + sum \div 9
  BY DEF prefill_time, base_prefill_time
<1> HIDE DEF l, t, q
<1>5. sum \in Int /\ sum >= -118000000
  BY <1>1, <1>2, <1>3
<1> HIDE DEF sum
<1> DEFINE z == prefill_time("A800", tokens, req)
<1>6. z \in Int /\ z >= -132000000
  BY <1>4, <1>5
<1>7. request_cost(tokens) = (IF tokens > 0 THEN z \div 1000 ELSE 0) + 45 * 150000
  BY DEF request_cost
<1> HIDE DEF z
<1>8. z \div 1000 \in Int /\ z \div 1000 >= -132000
  BY <1>6
<1> QED BY <1>7, <1>8

--------------------------------------------------------------------------------
(***************************************************************************)
(* The inductive invariant: how far the counters, the windows and the      *)
(* observations are those of the requests given.                           *)
(***************************************************************************)

(* The requests given to a replica of which its window has a sample: all    *)
(* but the one the extra step is due for.                                   *)
Recorded(i) == admitted[i] - (IF chosen = i THEN 1 ELSE 0)

(* An observation with the window as it is, nothing in it too old.          *)
Seen(i) ==
    [idx |-> i, bs |-> lmetric[i].bs, waiting |-> lmetric[i].waiting,
     queued |-> lmetric[i].queued, all |-> lmetric[i].all, hit |-> cached[i], epoch |-> epoch[i],
     load |-> Len(window[i].entries), cost |-> window[i].agg \div 1000,
     bs_sum |-> window[i].agg, tps |-> IF ReadsWindow(i) THEN Len(window[i].entries) ELSE Infinity]

(* No engine has made a step, and no sample can be too old.                 *)
BurstNow == steps = 0 /\ now <= Duration

(* The tokens a replica has to compute for a prompt.                        *)
WorkAt(i) == Work(req, cached[i])

(* Before any engine has made a step, the counters of a replica are those   *)
(* of the requests it was given, and its window has a sample of each.       *)
OnlyAdmitted(i) ==
    /\ lmetric[i].bs = admitted[i] /\ lmetric[i].waiting = admitted[i]
    /\ lmetric[i].queued = admitted[i] * WorkAt(i) /\ lmetric[i].all = admitted[i] * req
    /\ last_busy_at[i] = Never
    /\ \A k \in 1..Len(window[i].entries) : window[i].entries[k].at >= 0
    /\ policy = "preble-q" => /\ Len(window[i].entries) = Recorded(i)
                              /\ window[i].agg = Recorded(i) * request_cost(WorkAt(i))
    /\ policy = "preble-bs-q" => 2 * window[i].agg = Recorded(i) * (Recorded(i) + 1)
    /\ policy = "preble-tps-q" => window[i].entries = <<>>

(* What is observed is as it was when it was observed.                      *)
StillSeen(i) == observations[i].hit = cached[i] /\ (pc = "capture" => observations[i] = Seen(i))

SameCached == \A i, j \in Replica : cached[i] = cached[j]

Even == SameCached /\ Spreads(policy) /\ policy # "round-robin-q" =>
            \A i, j \in Replica : admitted[i] <= admitted[j] + 1

Bounded == SameCached /\ policy = "bounded-most-hit-q" =>
               \A i, j \in Replica : \/ lmetric[i].queued < PrefillBound + req
                                     \/ lmetric[i].queued <= lmetric[j].queued + req

(* Round robin gives each replica one more before any gets another.         *)
Rounds ==
    policy = "round-robin-q" =>
        /\ chosen \in {Nobody, next}
        /\ \E k \in Nat : \A i \in Replica : admitted[i] = IF i < next \/ i = chosen THEN k + 1 ELSE k

BurstType ==
    /\ policy \in PolicyNames /\ req \in Nat \ {0} /\ steps \in Nat /\ next \in Replica
    /\ admitted \in [Replica -> Nat]
    /\ pc \in {"idle", "capture", "extra"} /\ (pc = "idle" => DOMAIN observations = {})
    /\ \A i \in Replica : leaving[i].bs # 0 => steps # 0

BurstInv ==
    /\ BurstType /\ Rounds
    /\ BurstNow => /\ \A i \in Replica : OnlyAdmitted(i)
                   /\ \A i \in DOMAIN observations : StillSeen(i)
                   /\ Even /\ Bounded

(* No request has been given, and no window has a sample.                   *)
LEMMA InitBurst == Init => BurstInv
<1> SUFFICES ASSUME Init PROVE BurstInv
  OBVIOUS
<1>1. /\ policy \in PolicyNames /\ req \in Nat \ {0} /\ steps = 0 /\ next = 0 /\ pc = "idle" /\ chosen = Nobody
      /\ admitted = [i \in Replica |-> 0] /\ DOMAIN observations = {} /\ 0 \in Replica /\ Replica \subseteq Nat
  BY RoutingAssumption DEF Init, NoObservations, Replica
<1>2. BurstType
  <2>1. \A i \in Replica : leaving[i].bs = 0
    BY DEF Init, NothingLeaves
  <2> QED BY <1>1, <2>1 DEF BurstType
<1>3. Rounds
  <2>1. \A i \in Replica : admitted[i] = 0 /\ ~ (i < next) /\ i # chosen
    BY <1>1 DEF Nobody
  <2> QED BY <1>1, <2>1 DEF Rounds
<1>4. ASSUME NEW i \in Replica PROVE OnlyAdmitted(i)
  <2>1. /\ lmetric[i] = [bs |-> 0, waiting |-> 0, queued |-> 0, all |-> 0] /\ admitted[i] = 0
        /\ window[i] = [entries |-> <<>>, agg |-> 0] /\ last_busy_at[i] = Never
    BY DEF Init, EmptyWindow
  <2>2. WorkAt(i) \in Nat /\ request_cost(WorkAt(i)) \in Int
    <3>1. cached[i] \in Nat
      BY <1>1, RoutingAssumption DEF Init, Blocks
    <3>2. WorkAt(i) \in Nat
      BY <1>1, <3>1, WorkType DEF WorkAt
    <3> QED BY <1>1, <3>2, CostBound
  <2>3. Recorded(i) = 0
    BY <1>1, <2>1 DEF Recorded, Nobody
  <2>4. Len(<<>>) = 0 /\ 1..0 = {}
    OBVIOUS
  <2>5. 0 * WorkAt(i) = 0 /\ 0 * req = 0 /\ 0 * request_cost(WorkAt(i)) = 0
    BY <1>1, <2>2
  <2> QED BY <2>1, <2>3, <2>4, <2>5 DEF OnlyAdmitted
<1>5. Even
  BY <1>1 DEF Even
<1>6. Bounded
  <2>1. \A i \in Replica : lmetric[i].queued = 0
    BY DEF Init
  <2> QED BY <1>1, <2>1 DEF Bounded
<1> QED BY <1>1, <1>2, <1>3, <1>4, <1>5, <1>6 DEF BurstInv

(* No sample is too old in a burst.                                         *)
LEMMA WindowInBurst ==
  ASSUME WindowInv, BurstNow, NEW i \in Replica, OnlyAdmitted(i)
  PROVE  WindowAt(i) = window[i] /\ Observation(i) = Seen(i)
<1>1. PICK s \in Seq(Sample), t \in Nat, w \in Window : s = log[i] /\ t = now /\ w = window[i]
  BY DEF WindowInv, WindowOf, WindowType
<1>2. w = [entries |-> s, agg |-> SeqSum(Items(s))]
  BY <1>1 DEF WindowInv, WindowOf
<1>3. w.entries = s /\ w.agg = SeqSum(Items(w.entries)) /\ \A k \in 1..Len(s) : s[k].at >= 0 /\ s[k].at \in Int
  <2>1. \A k \in 1..Len(s) : s[k].at >= 0
    BY <1>1, <1>2 DEF OnlyAdmitted
  <2>2. \A k \in 1..Len(s) : s[k].at \in Int
    BY ItemsType
  <2> QED BY <1>2, <2>1, <2>2
<1>4. PICK n \in 0..Len(s) :
        /\ OldFront(s, t, n)
        /\ Expire(w, t) = [entries |-> SubSeq(s, n + 1, Len(s)), agg |-> SeqSum(Items(SubSeq(s, n + 1, Len(s))))]
  <2>1. t \in Int
    OBVIOUS
  <2> QED BY <1>3, <2>1, ExpireIs
<1>5. n = 0
  <2> SUFFICES ASSUME n # 0 PROVE FALSE
    OBVIOUS
  <2>1. 1 \in 1..n /\ 1 \in 1..Len(s)
    BY LenProperties
  <2>2. TooOld(s[1], t) /\ s[1].at >= 0 /\ s[1].at \in Int
    BY <1>3, <1>4, <2>1 DEF OldFront
  <2> QED BY <1>1, <2>2, RoutingAssumption DEF TooOld, BurstNow
<1>6. SubSeq(s, 0 + 1, Len(s)) = s
  <2> DEFINE u == SubSeq(s, 0 + 1, Len(s))
  <2>1. /\ u \in Seq(Sample) /\ Len(u) = Len(s) - 0 /\ Len(s) \in Nat
        /\ \A k \in 1..(Len(s) - 0) : u[k] = s[k + 0]
    <3>1. 0 \in 0..Len(s) /\ Len(s) \in Nat
      BY LenProperties
    <3> QED BY <3>1, CutIs
  <2> HIDE DEF u
  <2>2. Len(u) = Len(s) /\ \A k \in 1..Len(u) : u[k] = s[k]
    BY <2>1
  <2>3. u = s
    BY <2>1, <2>2, SeqEqual
  <2> QED BY <2>3 DEF u
<1>7. WindowAt(i) = window[i]
  BY <1>1, <1>2, <1>4, <1>5, <1>6 DEF WindowAt
<1>8. tps_count(i) = IF ReadsWindow(i) THEN Len(window[i].entries) ELSE Infinity
  BY <1>7 DEF tps_count
<1> QED BY <1>7, <1>8 DEF Observation, Seen

(* What has not changed is still so.                                        *)
LEMMA AdmittedKept ==
  ASSUME NEW i \in Replica, OnlyAdmitted(i), window'[i] = window[i],
         UNCHANGED <<policy, req, lmetric, last_busy_at, cached, chosen, admitted>>
  PROVE  OnlyAdmitted(i)'
<1>1. WorkAt(i)' = WorkAt(i) /\ Recorded(i)' = Recorded(i)
  BY DEF WorkAt, Work, Recorded
<1>2. request_cost(WorkAt(i))' = request_cost(WorkAt(i))
  BY <1>1 DEF request_cost
<1> QED BY <1>1, <1>2 DEF OnlyAdmitted

LEMMA SeenKept ==
  ASSUME NEW i \in Replica, window'[i] = window[i], UNCHANGED <<policy, lmetric, cached, epoch>>
  PROVE  Seen(i)' = Seen(i)
<1>1. ReadsWindow(i)' <=> ReadsWindow(i)
  BY DEF ReadsWindow
<1> QED BY <1>1 DEF Seen

LEMMA EvenKept ==
  ASSUME Even, Bounded, UNCHANGED <<policy, req, lmetric, cached, admitted>>
  PROVE  Even' /\ Bounded'
<1>1. SameCached' <=> SameCached
  BY DEF SameCached
<1>2. Spreads(policy)' <=> Spreads(policy)
  BY DEF Spreads
<1> QED BY <1>1, <1>2 DEF Even, Bounded

LEMMA RoundsKept == ASSUME Rounds, UNCHANGED <<policy, next, chosen, admitted>> PROVE Rounds'
BY DEF Rounds

(* An observation, under the lock.                                          *)
LEMMA CaptureBurst ==
  ASSUME IInv, WindowInv, BurstInv, NEW i \in Replica, Capture(i)
  PROVE  BurstInv'
<1>1. /\ pc = "capture" /\ pc' = pc /\ DOMAIN observations' = DOMAIN observations \cup {i}
      /\ observations'[i] = Observation(i) /\ \A j \in DOMAIN observations : j # i => observations'[j] = observations[j]
      /\ i \notin DOMAIN observations
      /\ window' = [window EXCEPT ![i] = WindowAt(i)]
      /\ UNCHANGED <<policy, req, now, lmetric, cached, epoch, last_busy_at, leaving, steps, chosen, next, admitted>>
  BY DEF Capture, indexVars, engineVars
<1>2. BurstType'
  BY <1>1 DEF BurstInv, BurstType
<1>3. Rounds'
  BY <1>1, RoundsKept DEF BurstInv
<1>4. ASSUME BurstNow' PROVE /\ \A j \in Replica : OnlyAdmitted(j)'
                             /\ \A j \in DOMAIN observations' : StillSeen(j)'
                             /\ Even' /\ Bounded'
  <2>1. BurstNow
    BY <1>1, <1>4 DEF BurstNow
  <2>2. WindowAt(i) = window[i] /\ Observation(i) = Seen(i)
    BY <2>1, WindowInBurst DEF BurstInv
  <2>3. \A j \in Replica : window'[j] = window[j]
    <3>1. DOMAIN window = Replica
      BY DEF WindowInv, WindowType
    <3> QED BY <1>1, <2>2, <3>1
  <2>4. \A j \in Replica : OnlyAdmitted(j)'
    BY <1>1, <2>1, <2>3, AdmittedKept DEF BurstInv
  <2>5. \A j \in Replica : Seen(j)' = Seen(j)
    BY <1>1, <2>3, SeenKept
  <2>6. ASSUME NEW j \in DOMAIN observations' PROVE StillSeen(j)'
    <3>1. CASE j = i
      <4>1. observations'[i] = Seen(i) /\ Seen(i)' = Seen(i)
        BY <1>1, <2>2, <2>5
      <4>2. Seen(i).hit = cached[i]
        BY DEF Seen
      <4>3. StillSeen(i)'
        BY <1>1, <4>1, <4>2 DEF StillSeen
      <4> QED BY <3>1, <4>3
    <3>2. CASE j # i
      <4>1. j \in DOMAIN observations /\ observations'[j] = observations[j]
        BY <1>1, <2>6, <3>2
      <4>2. StillSeen(j) /\ j \in Replica
        BY <2>1, <4>1 DEF BurstInv, IInv
      <4>3. Seen(j)' = Seen(j)
        BY <2>5, <4>2
      <4> QED BY <1>1, <4>1, <4>2, <4>3 DEF StillSeen
    <3> QED BY <3>1, <3>2
  <2>7. Even' /\ Bounded'
    BY <1>1, <2>1, EvenKept DEF BurstInv
  <2> QED BY <2>4, <2>6, <2>7
<1> QED BY <1>2, <1>3, <1>4 DEF BurstInv

--------------------------------------------------------------------------------
(***************************************************************************)
(* What a decision in a burst goes by.                                     *)
(***************************************************************************)

(* A burst up to now, with every replica observed and the same cached in    *)
(* all of them: the observations differ in the requests given only.         *)
Observed == Range(observations)
Given == [o \in Observed |-> admitted[o.idx]]

LEMMA ObservedAlike ==
  ASSUME WaitInv, WindowInv, BurstInv, BurstNow, pc = "capture", DOMAIN observations = Replica, SameCached
  PROVE  /\ IsFiniteSet(Observed) /\ Alike(Observed, Given, req, cached[0]) /\ LoadsAre(policy, Observed, Given)
         /\ \A i \in Replica : /\ observations[i] \in Observed /\ observations[i].idx = i
                                /\ Given[observations[i]] = admitted[i]
                                /\ observations[i].queued = lmetric[i].queued
         /\ \A o \in Observed : \E i \in Replica : o = observations[i]
<1>1. 0 \in Replica /\ Replica \subseteq Nat /\ IsFiniteSet(Replica)
  BY RoutingAssumption, FS_Interval DEF Replica
<1>2. PICK T, a, h : T = Observed /\ a = Given /\ h = cached[0]
  OBVIOUS
<1>3. /\ \A i \in Replica : observations[i] \in T /\ observations[i] = Seen(i) /\ OnlyAdmitted(i)
      /\ \A o \in T : \E i \in Replica : o = observations[i]
  BY <1>2 DEF Observed, Range, BurstInv, StillSeen
<1>4. /\ admitted \in [Replica -> Nat] /\ req \in Nat \ {0} /\ policy \in PolicyNames
      /\ \A i \in Replica : cached[i] = h /\ cached[i] \in Nat
  <2>1. \A i \in Replica : cached[i] = h
    BY <1>1, <1>2 DEF SameCached
  <2>2. \A i \in Replica : cached[i] \in Nat
    BY DEF WaitInv, WaitType
  <2> QED BY <2>1, <2>2 DEF BurstInv, BurstType
<1>5. ASSUME NEW i \in Replica
      PROVE  /\ observations[i].idx = i /\ a[observations[i]] = admitted[i] /\ admitted[i] \in Nat
             /\ observations[i].queued = lmetric[i].queued
             /\ observations[i].bs = admitted[i] /\ observations[i].waiting = admitted[i]
             /\ observations[i].all = admitted[i] * req /\ observations[i].queued = admitted[i] * Work(req, h)
             /\ observations[i].hit = h
  <2>1. /\ observations[i].idx = i /\ observations[i].bs = lmetric[i].bs /\ observations[i].waiting = lmetric[i].waiting
        /\ observations[i].all = lmetric[i].all /\ observations[i].queued = lmetric[i].queued
        /\ observations[i].hit = cached[i]
    BY <1>3 DEF Seen
  <2>2. OnlyAdmitted(i) /\ WorkAt(i) = Work(req, h)
    BY <1>3, <1>4 DEF WorkAt
  <2>3. a[observations[i]] = admitted[i]
    BY <1>2, <1>3, <2>1 DEF Given
  <2> QED BY <1>4, <2>1, <2>2, <2>3 DEF OnlyAdmitted
<1>6. IsFiniteSet(T)
  <2> DEFINE f == [i \in Replica |-> observations[i]]
  <2>1. f \in Surjection(Replica, T)
    BY <1>3 DEF Surjection
  <2> QED BY <1>1, <2>1, FS_Surjection
<1>7. Alike(T, a, req, h)
  <2>1. Indexed(T)
    BY <1>1, <1>3, <1>5 DEF Indexed
  <2>2. h \in Nat
    BY <1>1, <1>4
  <2>3. ASSUME NEW o \in T PROVE /\ a[o] \in Nat
                                 /\ o.bs = a[o] /\ o.waiting = a[o] /\ o.all = a[o] * req
                                 /\ o.queued = a[o] * Work(req, h) /\ o.hit = h
    <3>1. PICK i \in Replica : o = observations[i]
      BY <1>3
    <3> QED BY <1>5, <3>1
  <2> QED BY <1>4, <2>1, <2>2, <2>3 DEF Alike
<1>8. \A i \in Replica : Recorded(i) = admitted[i]
  <2>1. \A i \in Replica : chosen # i
    BY <1>1 DEF WaitInv, WaitType, Nobody
  <2> QED BY <1>4, <2>1 DEF Recorded
<1>9. ASSUME policy = "preble-q"
      PROVE  \E K \in Nat : K >= 1000 /\ \A o \in T : o.load = a[o] /\ o.cost = (a[o] * K) \div 1000
  <2> DEFINE K == request_cost(Work(req, h))
  <2>1. K \in Nat /\ K >= 1000
    <3>1. Work(req, h) \in Nat
      BY <1>1, <1>4, WorkType
    <3> QED BY <1>4, <3>1, CostBound
  <2>2. ASSUME NEW o \in T PROVE o.load = a[o] /\ o.cost = (a[o] * K) \div 1000
    <3>1. PICK i \in Replica : o = observations[i]
      BY <1>3
    <3>2. o.load = Len(window[i].entries) /\ o.cost = window[i].agg \div 1000
      BY <1>3, <3>1 DEF Seen
    <3>3. Len(window[i].entries) = admitted[i] /\ window[i].agg = admitted[i] * request_cost(WorkAt(i))
      BY <1>3, <1>8, <1>9 DEF OnlyAdmitted
    <3>4. WorkAt(i) = Work(req, h)
      BY <1>4 DEF WorkAt
    <3> QED BY <1>5, <3>1, <3>2, <3>3, <3>4
  <2> HIDE DEF K
  <2> QED BY <2>1, <2>2
<1>10. ASSUME policy = "preble-bs-q"
       PROVE  \A o \in T : o.bs_sum \in Int /\ 2 * o.bs_sum = a[o] * (a[o] + 1)
  <2>1. ASSUME NEW o \in T PROVE o.bs_sum \in Int /\ 2 * o.bs_sum = a[o] * (a[o] + 1)
    <3>1. PICK i \in Replica : o = observations[i]
      BY <1>3
    <3>2. o.bs_sum = window[i].agg
      BY <1>3, <3>1 DEF Seen
    <3>3. 2 * window[i].agg = admitted[i] * (admitted[i] + 1)
      BY <1>3, <1>8, <1>10 DEF OnlyAdmitted
    <3>4. window[i].agg \in Int
      BY DEF WindowInv, WindowType, Window
    <3> QED BY <1>5, <3>1, <3>2, <3>3, <3>4
  <2> QED BY <2>1
<1>11. ASSUME policy = "preble-tps-q"
       PROVE  \A o \in T : o.tps = (IF a[o] = 0 THEN Infinity ELSE 0)
  <2>1. ASSUME NEW o \in T PROVE o.tps = (IF a[o] = 0 THEN Infinity ELSE 0)
    <3>1. PICK i \in Replica : o = observations[i]
      BY <1>3
    <3>2. o.tps = IF ReadsWindow(i) THEN Len(window[i].entries) ELSE Infinity
      BY <1>3, <3>1 DEF Seen
    <3>3. window[i].entries = <<>> /\ lmetric[i].bs = admitted[i]
      BY <1>3, <1>11 DEF OnlyAdmitted
    <3>4. ReadsWindow(i) <=> admitted[i] > 0
      BY <1>11, <3>3 DEF ReadsWindow, PreblePolicies
    <3>5. Len(<<>>) = 0
      OBVIOUS
    <3> QED BY <1>5, <3>1, <3>2, <3>3, <3>4, <3>5
  <2> QED BY <2>1
<1>12. LoadsAre(policy, T, a)
  BY <1>9, <1>10, <1>11 DEF LoadsAre
<1> QED BY <1>2, <1>3, <1>5, <1>6, <1>7, <1>12

--------------------------------------------------------------------------------
(***************************************************************************)
(* A decision in a burst.                                                  *)
(***************************************************************************)

(* A decision, as one of the replicas the policy may choose.                *)
Takes(c) ==
    /\ pc = "capture" /\ pc' = "extra" /\ DOMAIN observations = Replica
    /\ c \in Replica /\ c \in MayChoose(policy, Observed, req, next) /\ chosen' = c
    /\ lmetric'[c].bs = lmetric[c].bs + 1 /\ lmetric'[c].waiting = lmetric[c].waiting + 1
    /\ lmetric'[c].queued = lmetric[c].queued + WorkAt(c) /\ lmetric'[c].all = lmetric[c].all + req
    /\ \A i \in Replica \ {c} : lmetric'[i] = lmetric[i]
    /\ admitted' = [admitted EXCEPT ![c] = @ + 1]
    /\ UNCHANGED <<policy, req, now, cached, epoch, window, last_busy_at, steps, observations, next>>

LEMMA DecideIs == ASSUME IInv, WaitInv, Decide PROVE \E c : Takes(c)
<1>1. PICK c \in MayChoose(policy, Range(observations), req, next) \cap Replica :
        /\ chosen' = c
        /\ pred_hit' = HitsAtApply(observations[c])
        /\ lmetric' = [lmetric EXCEPT ![c] =
              [bs |-> @.bs + 1, waiting |-> @.waiting + 1,
               queued |-> @.queued + Monus(req, HitsAtApply(observations[c]) * BlockSize), all |-> @.all + req]]
        /\ admitted' = [admitted EXCEPT ![c] = @ + 1]
  BY DEF Decide
<1>2. pred_hit' = cached[chosen']
  BY DecideCurrent
<1>3. Monus(req, HitsAtApply(observations[c]) * BlockSize) = WorkAt(c)
  BY <1>1, <1>2 DEF WorkAt, Work
<1>4. DOMAIN lmetric = Replica
  BY DEF WaitInv, WaitType
<1>5. /\ lmetric'[c] = [bs |-> lmetric[c].bs + 1, waiting |-> lmetric[c].waiting + 1,
                        queued |-> lmetric[c].queued + WorkAt(c), all |-> lmetric[c].all + req]
      /\ \A i \in Replica \ {c} : lmetric'[i] = lmetric[i]
  BY <1>1, <1>3, <1>4
<1>6. /\ pc = "capture" /\ pc' = "extra" /\ DOMAIN observations = Replica
      /\ UNCHANGED <<policy, req, now, cached, epoch, window, last_busy_at, steps, observations, next>>
  BY DEF Decide, indexVars, windowVars, engineVars
<1>7. Takes(c)
  BY <1>1, <1>5, <1>6 DEF Takes, Observed
<1> QED BY <1>7

(* A decision adds to what is waiting, so what spreads after it did before. *)
LEMMA SpreadsBefore ==
  ASSUME BurstInv, BurstNow, NEW c, Takes(c), Spreads(policy)'
  PROVE  Spreads(policy)
<1>1. /\ c \in Replica /\ policy' = policy /\ req' = req /\ cached' = cached
      /\ \A i \in Replica \ {c} : lmetric'[i] = lmetric[i]
      /\ lmetric'[c].waiting = lmetric[c].waiting + 1
  BY DEF Takes
<1>2. \A i \in Replica : lmetric[i].waiting \in Nat
  BY DEF BurstInv, BurstType, OnlyAdmitted
<1>3. /\ policy \notin {"random-q", "bailian-impl-q", "most-hit-q", "bounded-most-hit-q"}
      /\ policy \in ByTokens => \A i \in Replica : cached[i] * BlockSize < req
      /\ policy = "dynamo-po-q" => BlockSize <= 1000
      /\ policy = "dynamo-q" => BlockSize <= req
      /\ policy = "most-hit-load-q" => \A i \in Replica : lmetric'[i].waiting <= QueueThreshold
  BY <1>1 DEF Spreads
<1>4. policy = "most-hit-load-q" => \A i \in Replica : lmetric[i].waiting <= QueueThreshold
  <2> SUFFICES ASSUME policy = "most-hit-load-q", NEW i \in Replica PROVE lmetric[i].waiting <= QueueThreshold
    OBVIOUS
  <2>1. lmetric'[i].waiting <= QueueThreshold
    BY <1>3
  <2>2. CASE i = c
    BY <1>1, <1>2, <2>1, <2>2, RoutingAssumption
  <2>3. CASE i # c
    BY <1>1, <2>1, <2>3
  <2> QED BY <2>2, <2>3
<1> QED BY <1>3, <1>4 DEF Spreads

(* The replica chosen in a burst has been given no more than any other.     *)
LEMMA ChosenLeast ==
  ASSUME WaitInv, WindowInv, BurstInv, BurstNow, SameCached, NEW c, Takes(c), Spreads(policy)',
         policy # "round-robin-q"
  PROVE  \A i \in Replica : admitted[c] <= admitted[i]
<1>1. /\ IsFiniteSet(Observed) /\ Alike(Observed, Given, req, cached[0]) /\ LoadsAre(policy, Observed, Given)
      /\ \A i \in Replica : /\ observations[i] \in Observed /\ observations[i].idx = i
                            /\ Given[observations[i]] = admitted[i]
      /\ \A o \in Observed : \E i \in Replica : o = observations[i]
  BY ObservedAlike DEF Takes
<1>2. /\ c \in Replica /\ c \in MayChoose(policy, Observed, req, next)
      /\ policy' = policy /\ req' = req /\ cached' = cached
      /\ \A i \in Replica \ {c} : lmetric'[i] = lmetric[i]
      /\ lmetric'[c].waiting = lmetric[c].waiting + 1
  BY DEF Takes
<1>3. /\ \A i \in Replica : admitted[i] \in Nat /\ lmetric[i].waiting = admitted[i]
      /\ policy \in PolicyNames /\ req \in Nat
  BY DEF BurstInv, BurstType, OnlyAdmitted
<1>4. /\ policy \notin {"random-q", "bailian-impl-q", "most-hit-q", "bounded-most-hit-q"}
      /\ policy \in ByTokens => \A i \in Replica : cached[i] * BlockSize < req
      /\ policy = "dynamo-po-q" => BlockSize <= 1000
      /\ policy = "dynamo-q" => BlockSize <= req
      /\ policy = "most-hit-load-q" => \A i \in Replica : lmetric'[i].waiting <= QueueThreshold
  BY <1>2 DEF Spreads
<1>5. Spreads(policy)
  BY SpreadsBefore
<1>6. CASE policy = "most-hit-load-q"
  <2>1. c \in MostHitLoadQ(Observed)
    BY <1>2, <1>6 DEF MayChoose
  <2>2. PICK o \in Observed : c = o.idx /\ \A q \in Observed : Capped(Given[o]) <= Capped(Given[q])
    BY <1>1, <2>1, PickMostHitLoad
  <2>3. PICK k \in Replica : o = observations[k]
    BY <1>1
  <2>4. k = c /\ Given[o] = admitted[c]
    BY <1>1, <2>2, <2>3
  <2>5. lmetric[c].waiting + 1 <= QueueThreshold
    BY <1>2, <1>4, <1>6
  <2>6. ASSUME NEW i \in Replica PROVE admitted[c] <= admitted[i]
    <3>1. Capped(admitted[c]) <= Capped(admitted[i])
      BY <1>1, <2>2, <2>4
    <3>2. admitted[c] \in Nat /\ admitted[i] \in Nat /\ admitted[c] < QueueThreshold /\ QueueThreshold \in Nat
      BY <1>2, <1>3, <2>5, RoutingAssumption
    <3>3. \A m, n \in Nat : m < QueueThreshold /\ Capped(m) <= Capped(n) => m <= n
      BY <3>2 DEF Capped
    <3> QED BY <3>1, <3>2, <3>3
  <2> QED BY <2>6
<1>7. CASE policy # "most-hit-load-q"
  <2>1. \A o, q \in Observed : Given[o] <= Given[q] + 1
    <3>1. \A i, j \in Replica : admitted[i] <= admitted[j] + 1
      BY <1>5 DEF BurstInv, Even
    <3> QED BY <1>1, <3>1
  <2>2. policy \in ByTokens => Work(req, cached[0]) > 0
    <3> SUFFICES ASSUME policy \in ByTokens PROVE Work(req, cached[0]) > 0
      OBVIOUS
    <3>1. 0 \in Replica
      BY RoutingAssumption DEF Replica
    <3>2. cached[0] * BlockSize < req /\ cached[0] \in Nat /\ cached[0] * BlockSize \in Nat
      <4>1. cached[0] \in Nat
        BY <3>1 DEF WaitInv, WaitType
      <4> QED BY <1>4, <3>1, <4>1, RoutingAssumption
    <3> DEFINE m == cached[0] * BlockSize
    <3>3. m < req /\ m \in Nat
      BY <3>2
    <3> HIDE DEF m
    <3>4. Monus(req, m) > 0
      BY <1>3, <3>3 DEF Monus
    <3> QED BY <3>4 DEF Work, m
  <2>3. policy \in PolicyNames \ {"random-q", "bailian-impl-q", "most-hit-q", "bounded-most-hit-q",
                                  "round-robin-q", "most-hit-load-q"}
    BY <1>3, <1>4, <1>7
  <2>4. Least(Observed, Given, c)
    BY <1>1, <1>2, <1>4, <2>1, <2>2, <2>3, MayChooseLeast
  <2>5. PICK o \in Observed : c = o.idx /\ \A q \in Observed : Given[o] <= Given[q]
    BY <2>4 DEF Least
  <2>6. PICK k \in Replica : o = observations[k]
    BY <1>1
  <2>7. Given[o] = admitted[c]
    BY <1>1, <2>5, <2>6
  <2> QED BY <1>1, <2>5, <2>7
<1> QED BY <1>6, <1>7

(* So no two differ by more than one.                                       *)
LEMMA DecideEven ==
  ASSUME WaitInv, WindowInv, BurstInv, BurstNow, NEW c, Takes(c)
  PROVE  Even'
<1> SUFFICES ASSUME SameCached', Spreads(policy)', policy' # "round-robin-q", NEW i \in Replica, NEW j \in Replica
             PROVE  admitted'[i] <= admitted'[j] + 1
  BY DEF Even
<1>1. SameCached /\ policy # "round-robin-q" /\ c \in Replica /\ admitted' = [admitted EXCEPT ![c] = @ + 1]
  BY DEF Takes, SameCached
<1>2. admitted \in [Replica -> Nat]
  BY DEF BurstInv, BurstType
<1>3. admitted'[c] = admitted[c] + 1 /\ \A k \in Replica : k # c => admitted'[k] = admitted[k]
  BY <1>1, <1>2
<1>4. \A k \in Replica : admitted[c] <= admitted[k]
  BY <1>1, ChosenLeast
<1>5. i # c => admitted[i] <= admitted[j] + 1
  <2>1. Spreads(policy)
    BY SpreadsBefore
  <2> QED BY <1>1, <2>1 DEF BurstInv, Even
<1>6. admitted[i] \in Nat /\ admitted[j] \in Nat /\ admitted[c] \in Nat
  BY <1>1, <1>2
<1>7. CASE i = c
  <2>1. admitted[c] <= admitted[j] /\ admitted'[i] = admitted[c] + 1
    BY <1>3, <1>4, <1>7
  <2>2. admitted'[j] = admitted[j] \/ admitted'[j] = admitted[c] + 1
    BY <1>3
  <2> QED BY <1>6, <2>1, <2>2
<1>8. CASE i # c
  <2>1. admitted'[i] = admitted[i]
    BY <1>3, <1>8
  <2>2. admitted'[j] = admitted[j] \/ (j = c /\ admitted'[j] = admitted[j] + 1)
    BY <1>3
  <2> QED BY <1>5, <1>6, <1>8, <2>1, <2>2
<1> QED BY <1>7, <1>8

(* The bounded policy chooses below its bound, or the least loaded.         *)
LEMMA DecideBounded ==
  ASSUME WaitInv, WindowInv, BurstInv, BurstNow, NEW c, Takes(c)
  PROVE  Bounded'
<1> SUFFICES ASSUME SameCached', policy' = "bounded-most-hit-q", NEW i \in Replica, NEW j \in Replica
             PROVE  \/ lmetric'[i].queued < PrefillBound + req'
                    \/ lmetric'[i].queued <= lmetric'[j].queued + req'
  BY DEF Bounded
<1>1. /\ SameCached /\ policy = "bounded-most-hit-q" /\ c \in Replica /\ req' = req
      /\ c \in MayChoose(policy, Observed, req, next)
      /\ lmetric'[c].queued = lmetric[c].queued + WorkAt(c)
      /\ \A k \in Replica : k # c => lmetric'[k].queued = lmetric[k].queued
  BY DEF Takes, SameCached
<1>2. /\ Alike(Observed, Given, req, cached[0])
      /\ \A k \in Replica : /\ observations[k] \in Observed /\ observations[k].idx = k
                            /\ observations[k].queued = lmetric[k].queued
      /\ \A o \in Observed : \E k \in Replica : o = observations[k]
  BY <1>1, ObservedAlike DEF Takes
<1>3. c \in JBoundMostHitQ2(Observed, req)
  BY <1>1 DEF MayChoose
<1>4. PICK o \in Observed : c = o.idx /\ (o.queued < PrefillBound \/ \A q \in Observed : o.queued <= q.queued)
  BY <1>2, <1>3, PickBounded
<1>5. lmetric[c].queued < PrefillBound \/ \A k \in Replica : lmetric[c].queued <= lmetric[k].queued
  <2>1. PICK k \in Replica : o = observations[k]
    BY <1>2
  <2> QED BY <1>2, <1>4, <2>1
<1>6. /\ \A k \in Replica : lmetric[k].queued \in Int
      /\ req \in Nat /\ WorkAt(c) \in Nat /\ WorkAt(c) <= req
  <2>1. req \in Nat /\ cached[c] \in Nat /\ cached[c] * BlockSize \in Nat
    <3>1. req \in Nat /\ cached[c] \in Nat
      BY <1>1 DEF WaitInv, WaitType
    <3> QED BY <3>1, RoutingAssumption
  <2> DEFINE m == cached[c] * BlockSize
  <2>2. m \in Nat
    BY <2>1
  <2> HIDE DEF m
  <2>3. Monus(req, m) \in Nat /\ Monus(req, m) <= req
    BY <2>1, <2>2 DEF Monus
  <2>4. \A k \in Replica : lmetric[k].queued \in Int
    BY DEF WaitInv, WaitType, LMetric
  <2> QED BY <2>1, <2>3, <2>4 DEF WorkAt, Work, m
<1>7. PrefillBound \in Nat
  BY RoutingAssumption
<1>8. \/ lmetric[i].queued < PrefillBound + req
      \/ lmetric[i].queued <= lmetric[j].queued + req
  BY <1>1 DEF BurstInv, Bounded
<1>9. CASE i = c /\ j = c
  BY <1>1, <1>6, <1>9
<1>10. CASE i = c /\ j # c
  BY <1>1, <1>5, <1>6, <1>7, <1>10
<1>11. CASE i # c /\ j = c
  BY <1>1, <1>6, <1>8, <1>11
<1>12. CASE i # c /\ j # c
  BY <1>1, <1>6, <1>8, <1>12
<1> QED BY <1>9, <1>10, <1>11, <1>12

(* The replica whose turn it is takes the request.                          *)
LEMMA DecideRounds ==
  ASSUME WaitInv, IInv, BurstInv, NEW c, Takes(c)
  PROVE  Rounds'
<1> SUFFICES ASSUME policy' = "round-robin-q"
             PROVE  /\ chosen' \in {Nobody, next'}
                    /\ \E k \in Nat : \A i \in Replica : admitted'[i] = IF i < next' \/ i = chosen' THEN k + 1 ELSE k
  BY DEF Rounds
<1>1. /\ policy = "round-robin-q" /\ next' = next /\ next \in Replica /\ chosen' = c /\ chosen = Nobody
      /\ c \in Replica /\ c \in RoundRobinQ(Observed, next) /\ admitted' = [admitted EXCEPT ![c] = @ + 1]
      /\ admitted \in [Replica -> Nat] /\ Replica \subseteq Nat
  <2>1. policy = "round-robin-q" /\ c \in MayChoose(policy, Observed, req, next)
    BY DEF Takes
  <2>2. c \in RoundRobinQ(Observed, next)
    BY <2>1 DEF MayChoose
  <2>3. chosen = Nobody
    BY DEF Takes, WaitInv, WaitType
  <2> QED BY <2>1, <2>2, <2>3 DEF Takes, BurstInv, BurstType, Replica
<1>2. c = next
  <2>1. DOMAIN observations = Replica /\ \A i \in Replica : observations[i].idx = i
    BY DEF Takes, IInv, Vouched
  <2>2. /\ \A i \in Replica : observations[i] \in Observed
        /\ \A o \in Observed : \E i \in Replica : o = observations[i]
    BY <2>1 DEF Observed, Range
  <2>3. Indexed(Observed)
    BY <1>1, <2>1, <2>2 DEF Indexed
  <2>4. observations[next] \in Observed /\ observations[next].idx = next
    BY <1>1, <2>1, <2>2
  <2> QED BY <1>1, <2>3, <2>4, PickRoundRobin
<1>3. PICK k \in Nat : \A i \in Replica : admitted[i] = IF i < next \/ i = chosen THEN k + 1 ELSE k
  BY <1>1 DEF BurstInv, Rounds
<1>4. \A i \in Replica : admitted'[i] = IF i < next \/ i = c THEN k + 1 ELSE k
  BY <1>1, <1>2, <1>3 DEF Nobody
<1> QED BY <1>1, <1>2, <1>4

--------------------------------------------------------------------------------
(***************************************************************************)
(* Each action preserves the invariant.                                    *)
(***************************************************************************)

(* A decision counts one more request in.                                   *)
LEMMA DecideBurst ==
  ASSUME IInv, WaitInv, WindowInv, BurstInv, Decide
  PROVE  BurstInv'
<1>1. PICK c : Takes(c)
  BY DecideIs
<1>2. /\ pc' = "extra" /\ chosen' = c /\ c \in Replica /\ admitted \in [Replica -> Nat]
      /\ admitted' = [admitted EXCEPT ![c] = @ + 1] /\ chosen = Nobody /\ req \in Nat \ {0}
      /\ DOMAIN observations = Replica /\ \A i \in Replica : i # Nobody
      /\ UNCHANGED <<policy, req, now, cached, epoch, window, last_busy_at, steps, observations, next>>
  BY <1>1 DEF Takes, WaitInv, WaitType, BurstInv, BurstType, Replica, Nobody
<1>3. BurstType'
  <2>1. leaving' = leaving
    BY DEF Decide, engineVars
  <2> QED BY <1>2, <2>1 DEF BurstInv, BurstType
<1>4. Rounds'
  BY <1>1, DecideRounds
<1>5. ASSUME BurstNow' PROVE /\ \A i \in Replica : OnlyAdmitted(i)'
                             /\ \A i \in DOMAIN observations' : StillSeen(i)'
                             /\ Even' /\ Bounded'
  <2>1. BurstNow
    BY <1>2, <1>5 DEF BurstNow
  <2>2. \A i \in Replica : OnlyAdmitted(i)
    BY <2>1 DEF BurstInv
  <2>3. ASSUME NEW i \in Replica PROVE OnlyAdmitted(i)'
    <3> DEFINE w == WorkAt(i)
    <3>1. w \in Nat
      <4>1. cached[i] \in Nat
        BY DEF WaitInv, WaitType
      <4> QED BY <1>2, <4>1, WorkType DEF WorkAt
    <3>2. WorkAt(i)' = w /\ request_cost(WorkAt(i))' = request_cost(w)
      BY <1>2 DEF WorkAt, Work, request_cost
    <3>3. Recorded(i)' = Recorded(i)
      BY <1>2 DEF Recorded
    <3>4. (admitted[i] + 1) * w = admitted[i] * w + w /\ (admitted[i] + 1) * req = admitted[i] * req + req
      BY <1>2, <3>1
    <3>5. /\ lmetric'[i].bs = admitted'[i] /\ lmetric'[i].waiting = admitted'[i]
          /\ lmetric'[i].queued = admitted'[i] * w /\ lmetric'[i].all = admitted'[i] * req
      <4>1. CASE i = c
        <5>1. /\ lmetric'[i].bs = lmetric[i].bs + 1 /\ lmetric'[i].waiting = lmetric[i].waiting + 1
              /\ lmetric'[i].queued = lmetric[i].queued + w /\ lmetric'[i].all = lmetric[i].all + req
              /\ admitted'[i] = admitted[i] + 1
          BY <1>1, <1>2, <4>1 DEF Takes
        <5> QED BY <2>2, <3>4, <5>1 DEF OnlyAdmitted
      <4>2. CASE i # c
        <5>1. lmetric'[i] = lmetric[i] /\ admitted'[i] = admitted[i]
          BY <1>1, <1>2, <4>2 DEF Takes
        <5> QED BY <2>2, <5>1 DEF OnlyAdmitted
      <4> QED BY <4>1, <4>2
    <3> HIDE DEF w
    <3>6. OnlyAdmitted(i) /\ w = WorkAt(i)
      BY <2>2 DEF w
    <3> QED BY <1>2, <3>2, <3>3, <3>5, <3>6 DEF OnlyAdmitted
  <2>4. ASSUME NEW i \in DOMAIN observations' PROVE StillSeen(i)'
    <3>1. observations[i].hit = cached[i]
      BY <1>2, <2>1, <2>4 DEF BurstInv, StillSeen
    <3> QED BY <1>2, <3>1 DEF StillSeen
  <2>5. Even' /\ Bounded'
    BY <1>1, <2>1, DecideEven, DecideBounded
  <2> QED BY <2>3, <2>4, <2>5
<1> QED BY <1>3, <1>4, <1>5 DEF BurstInv

(* What a record leaves in a window.                                        *)
LEMMA RecordIs ==
  ASSUME WindowType, NEW i \in Replica, NEW dates \in Seq(Int), NEW item \in Int, Record(i, dates, item),
         \A k \in 1..Len(dates) : dates[k] >= 0
  PROVE  /\ \A j \in Replica : j # i => window'[j] = window[j]
         /\ window'[i].agg = window[i].agg + Len(dates) * item
         /\ Len(window'[i].entries) = Len(window[i].entries) + Len(dates)
         /\ (\A k \in 1..Len(window[i].entries) : window[i].entries[k].at >= 0) =>
               \A k \in 1..Len(window'[i].entries) : window'[i].entries[k].at >= 0
         /\ Len(window[i].entries) \in Nat
<1>1. PICK w \in Window : w = window[i]
  BY DEF WindowType
<1>2. DOMAIN window = Replica
  BY DEF WindowType
<1>3. window'[i] = PushAll(w, dates, item) /\ \A j \in Replica : j # i => window'[j] = window[j]
  BY <1>1, <1>2 DEF Record
<1>4. PushAll(w, dates, item) = [entries |-> w.entries \o Samples(dates, item, Len(dates)),
                                 agg |-> w.agg + Len(dates) * item]
  BY PushAllIs
<1> DEFINE s == w.entries
           u == Samples(dates, item, Len(dates))
           l == Len(s)
           m == Len(dates)
<1>5. s \in Seq(Sample) /\ l \in Nat /\ m \in Nat
  BY LenProperties DEF Window
<1>6. /\ u \in Seq(Sample) /\ Len(u) = m
      /\ \A k \in 1..m : u[k] = [at |-> dates[k], item |-> item]
  <2>1. m \in 0..m
    BY <1>5
  <2> QED BY <2>1, SamplesType
<1> HIDE DEF s, u, m
<1>7. /\ Len(s \o u) = l + m
      /\ \A k \in 1..(l + m) : (s \o u)[k] = IF k <= l THEN s[k] ELSE u[k - l]
  BY <1>5, <1>6, ConcatProperties
<1>8. (\A k \in 1..l : s[k].at >= 0) => \A k \in 1..(l + m) : (s \o u)[k].at >= 0
  <2> SUFFICES ASSUME \A k \in 1..l : s[k].at >= 0, NEW k \in 1..(l + m) PROVE (s \o u)[k].at >= 0
    OBVIOUS
  <2>1. CASE k <= l
    <3>1. k \in 1..l
      BY <1>5, <2>1
    <3> QED BY <1>7, <2>1, <3>1
  <2>2. CASE ~ (k <= l)
    <3>1. k - l \in 1..m
      BY <1>5, <2>2
    <3>2. (s \o u)[k] = u[k - l] /\ u[k - l] = [at |-> dates[k - l], item |-> item] /\ dates[k - l] >= 0
      BY <1>6, <1>7, <2>2, <3>1 DEF m
    <3> QED BY <3>2
  <2> QED BY <2>1, <2>2
<1> QED BY <1>1, <1>3, <1>4, <1>5, <1>7, <1>8 DEF s, u, m

(* The extra step samples the request that was counted in, and gives the    *)
(* turn to the next replica.                                                *)
LEMMA FinishBurst ==
  ASSUME IInv, WaitInv, WindowInv, BurstInv, Finish
  PROVE  BurstInv'
<1>1. PICK c \in Replica : c = chosen
  BY DEF Finish, WaitInv, WaitType
<1>2. /\ pc = "extra" /\ pc' = "idle" /\ chosen' = Nobody /\ DOMAIN observations' = {} /\ c # Nobody
      /\ AfterExtra(c) /\ next' = IF policy = "round-robin-q" THEN (next + 1) % N ELSE next
      /\ UNCHANGED <<policy, req, now, lmetric, cached, epoch, last_busy_at, steps, admitted>>
      /\ admitted \in [Replica -> Nat] /\ req \in Nat \ {0} /\ next \in Replica
      /\ DOMAIN observations = Replica
  BY <1>1 DEF Finish, indexVars, NoObservations, BurstInv, BurstType, Replica, Nobody, WindowInv, WindowType
<1>3. (next + 1) % N = IF next + 1 = N THEN 0 ELSE next + 1
  <2>1. N \in Nat \ {0} /\ next \in Nat /\ next < N
    BY <1>2, RoutingAssumption DEF Replica
  <2>2. CASE next + 1 = N
    <3>1. N % N = 0
      BY <2>1
    <3> QED BY <2>2, <3>1
  <2>3. CASE next + 1 # N
    BY <2>1, <2>3
  <2> QED BY <2>2, <2>3
<1>4. next' \in Replica
  BY <1>2, <1>3, RoutingAssumption DEF Replica
<1>5. BurstType'
  <2>1. leaving' = leaving
    BY DEF Finish
  <2> QED BY <1>2, <1>4, <2>1 DEF BurstInv, BurstType
<1>6. Rounds'
  <2> SUFFICES ASSUME policy' = "round-robin-q"
               PROVE  \E k \in Nat : \A i \in Replica : admitted'[i] = IF i < next' \/ i = chosen' THEN k + 1 ELSE k
    BY <1>2 DEF Rounds
  <2>1. policy = "round-robin-q" /\ c = next /\ N \in Nat \ {0}
    BY <1>1, <1>2, RoutingAssumption DEF BurstInv, Rounds
  <2>2. PICK k \in Nat : \A i \in Replica : admitted[i] = IF i < next \/ i = c THEN k + 1 ELSE k
    BY <1>1, <2>1 DEF BurstInv, Rounds
  <2>3. CASE next + 1 = N
    <3>1. next' = 0
      BY <1>2, <1>3, <2>1, <2>3
    <3>2. \A i \in Replica : admitted'[i] = IF i < 0 \/ i = Nobody THEN (k + 1) + 1 ELSE k + 1
      BY <1>2, <2>1, <2>2, <2>3 DEF Replica, Nobody
    <3>3. k + 1 \in Nat
      OBVIOUS
    <3>4. \A i \in Replica : admitted'[i] = IF i < next' \/ i = chosen' THEN (k + 1) + 1 ELSE k + 1
      BY <1>2, <3>1, <3>2
    <3> QED BY <3>3, <3>4
  <2>4. CASE next + 1 # N
    <3>1. next' = next + 1
      BY <1>2, <1>3, <2>1, <2>4
    <3>2. \A i \in Replica : admitted'[i] = IF i < next + 1 \/ i = Nobody THEN k + 1 ELSE k
      BY <1>2, <2>1, <2>2 DEF Replica, Nobody
    <3>3. \A i \in Replica : admitted'[i] = IF i < next' \/ i = chosen' THEN k + 1 ELSE k
      BY <1>2, <3>1, <3>2
    <3> QED BY <3>3
  <2> QED BY <2>3, <2>4
<1>7. ASSUME BurstNow' PROVE /\ \A i \in Replica : OnlyAdmitted(i)'
                             /\ \A i \in DOMAIN observations' : StillSeen(i)'
                             /\ Even' /\ Bounded'
  <2>1. BurstNow /\ now \in Nat
    BY <1>2, <1>7 DEF BurstNow, WindowInv, WindowType
  <2>2. \A i \in Replica : OnlyAdmitted(i)
    BY <2>1 DEF BurstInv
  <2>3. \A i \in Replica : WorkAt(i)' = WorkAt(i) /\ request_cost(WorkAt(i))' = request_cost(WorkAt(i))
    BY <1>2 DEF WorkAt, Work, request_cost
  <2>4. /\ \A i \in Replica : Recorded(i)' = admitted[i]
        /\ \A i \in Replica : Recorded(i) = IF i = c THEN admitted[i] - 1 ELSE admitted[i]
    BY <1>1, <1>2 DEF Recorded, Replica, Nobody
  <2>5. /\ \A i \in Replica : i # c => window'[i] = window[i]
        /\ \A k \in 1..Len(window'[c].entries) : window'[c].entries[k].at >= 0
        /\ policy = "preble-q" => /\ Len(window'[c].entries) = admitted[c]
                                  /\ window'[c].agg = admitted[c] * request_cost(WorkAt(c))
        /\ policy = "preble-bs-q" => 2 * window'[c].agg = admitted[c] * (admitted[c] + 1)
        /\ policy = "preble-tps-q" => window'[c].entries = <<>>
    <3>1. PICK n, w, v, K :
            /\ n \in Nat /\ w \in Window /\ K \in Int
            /\ n = admitted[c] /\ w = window[c] /\ v = window'[c] /\ K = request_cost(WorkAt(c))
      <4>1. WorkAt(c) \in Nat /\ req \in Nat
        <5>1. cached[c] \in Nat /\ req \in Nat
          BY DEF WaitInv, WaitType
        <5> QED BY <5>1, WorkType DEF WorkAt
      <4>2. request_cost(WorkAt(c)) \in Int
        BY <1>2, <4>1, CostBound
      <4> QED BY <1>2, <4>2 DEF WindowInv, WindowType
    <3>2. /\ \A k \in 1..Len(w.entries) : w.entries[k].at >= 0
          /\ policy = "preble-q" => Len(w.entries) = n - 1 /\ w.agg = (n - 1) * K
          /\ policy = "preble-bs-q" => 2 * w.agg = (n - 1) * ((n - 1) + 1)
          /\ policy = "preble-tps-q" => w.entries = <<>>
          /\ last_busy_at[c] = Never /\ lmetric[c].bs = n
      <4>1. OnlyAdmitted(c) /\ Recorded(c) = n - 1
        BY <2>2, <2>4, <3>1
      <4> QED BY <3>1, <4>1 DEF OnlyAdmitted
    <3>3. <<now>> \in Seq(Int) /\ Len(<<now>>) = 1 /\ \A k \in 1..Len(<<now>>) : <<now>>[k] >= 0
      BY <2>1
    <3>4. w.agg \in Int /\ Len(w.entries) \in Nat /\ WindowType
      BY <3>1, LenProperties DEF Window, WindowInv
    <3>5. ASSUME NEW dates \in Seq(Int), NEW item \in Int, Record(c, dates, item),
                 \A k \in 1..Len(dates) : dates[k] >= 0
          PROVE  /\ \A j \in Replica : j # c => window'[j] = window[j]
                 /\ v.agg = w.agg + Len(dates) * item
                 /\ Len(v.entries) = Len(w.entries) + Len(dates)
                 /\ \A k \in 1..Len(v.entries) : v.entries[k].at >= 0
      <4>1. /\ \A j \in Replica : j # c => window'[j] = window[j]
            /\ window'[c].agg = window[c].agg + Len(dates) * item
            /\ Len(window'[c].entries) = Len(window[c].entries) + Len(dates)
            /\ (\A k \in 1..Len(window[c].entries) : window[c].entries[k].at >= 0) =>
                  \A k \in 1..Len(window'[c].entries) : window'[c].entries[k].at >= 0
        BY <3>4, <3>5, RecordIs
      <4> QED BY <3>1, <3>2, <4>1
    <3> SUFFICES /\ \A i \in Replica : i # c => window'[i] = window[i]
                 /\ \A k \in 1..Len(v.entries) : v.entries[k].at >= 0
                 /\ policy = "preble-q" => Len(v.entries) = n /\ v.agg = n * K
                 /\ policy = "preble-bs-q" => 2 * v.agg = n * (n + 1)
                 /\ policy = "preble-tps-q" => v.entries = <<>>
      BY <3>1
    <3>6. CASE policy = "preble-q"
      <4>1. Record(c, <<now>>, request_cost(Monus(req, observations[c].hit * BlockSize)))
        BY <1>2, <3>6 DEF AfterExtra
      <4>2. observations[c].hit = cached[c]
        BY <1>2, <2>1 DEF BurstInv, StillSeen
      <4>3. Record(c, <<now>>, K)
        BY <3>1, <4>1, <4>2 DEF WorkAt, Work
      <4>4. v.agg = w.agg + Len(<<now>>) * K /\ Len(v.entries) = Len(w.entries) + Len(<<now>>)
        BY <3>1, <3>3, <3>5, <4>3
      <4>5. v.agg = w.agg + K /\ Len(v.entries) = Len(w.entries) + 1
        BY <3>1, <3>3, <4>4
      <4>6. (n - 1) * K = n * K - K /\ n * K \in Int
        BY <3>1
      <4>7. w.agg = n * K - K /\ Len(w.entries) = n - 1
        BY <3>2, <3>6, <4>6
      <4>8. v.agg = n * K /\ Len(v.entries) = n
        <5> DEFINE p == n * K
        <5>1. p \in Int /\ w.agg = p - K /\ v.agg = w.agg + K
          BY <4>5, <4>6, <4>7
        <5> HIDE DEF p
        <5>2. v.agg = p
          BY <3>1, <5>1
        <5> QED BY <3>1, <4>5, <4>7, <5>2 DEF p
      <4> QED BY <3>1, <3>3, <3>5, <3>6, <4>3, <4>8
    <3>7. CASE policy = "preble-bs-q"
      <4>1. Record(c, <<now>>, n)
        BY <1>2, <3>2, <3>7 DEF AfterExtra
      <4>0. n \in Int
        BY <3>1
      <4>2. v.agg = w.agg + Len(<<now>>) * n
        BY <3>3, <3>5, <4>1, <4>0
      <4>3. v.agg = w.agg + n
        BY <3>1, <3>3, <4>2
      <4>4. (n - 1) * ((n - 1) + 1) = n * n - n /\ n * (n + 1) = n * n + n /\ n * n \in Nat
        BY <3>1
      <4>5. 2 * w.agg = n * n - n
        BY <3>2, <3>7, <4>4
      <4>6. 2 * v.agg = n * n + n
        <5>1. PICK x, y, p \in Int : x = w.agg /\ y = v.agg /\ p = n * n
          <6>1. v.agg \in Int /\ n * n \in Int
            BY <3>1, <3>4, <4>3
          <6> QED BY <3>4, <6>1
        <5>2. 2 * x = p - n /\ y = x + n
          BY <4>3, <4>5, <5>1
        <5>3. 2 * y = p + n
          BY <3>1, <5>2
        <5> QED BY <5>1, <5>3
      <4> QED BY <3>3, <3>5, <3>7, <4>1, <4>0, <4>4, <4>6
    <3>8. CASE policy = "preble-tps-q"
      <4>1. CASE UNCHANGED <<window, log>>
        <5>1. v = w
          BY <3>1, <4>1
        <5> QED BY <3>2, <3>8, <4>1, <5>1
      <4>2. CASE Record(c, IdleSamples(c), 1)
        <5>0. <<>> \in Seq(Int)
          OBVIOUS
        <5>1. PICK dates \in Seq(Int) : dates = <<>>
          BY <5>0
        <5>2. IdleSamples(c) = dates /\ Len(dates) = 0 /\ 1 \in Int
          BY <3>2, <5>1 DEF IdleSamples
        <5>3. Record(c, dates, 1) /\ \A k \in 1..Len(dates) : dates[k] >= 0
          BY <4>2, <5>2
        <5>4. /\ \A j \in Replica : j # c => window'[j] = window[j]
              /\ Len(v.entries) = Len(w.entries) + Len(dates)
              /\ \A k \in 1..Len(v.entries) : v.entries[k].at >= 0
          BY <3>5, <5>2, <5>3
        <5>5. Len(w.entries) = 0
          BY <3>2, <3>8
        <5>6. Len(v.entries) = 0
          BY <5>2, <5>4, <5>5
        <5>7. v.entries \in Seq(Sample)
          BY <3>1, FinishWindow DEF WindowInv, WindowType, Window
        <5>8. v.entries = <<>>
          BY <5>6, <5>7, EmptySeq
        <5> QED BY <3>8, <5>4, <5>8
      <4> QED BY <1>2, <3>8, <4>1, <4>2 DEF AfterExtra
    <3>9. CASE policy \notin {"preble-q", "preble-bs-q", "preble-tps-q"}
      <4>1. UNCHANGED window /\ v = w
        BY <1>2, <3>1, <3>9 DEF AfterExtra
      <4> QED BY <3>2, <3>9, <4>1
    <3> QED BY <3>6, <3>7, <3>8, <3>9
  <2>6. ASSUME NEW i \in Replica PROVE OnlyAdmitted(i)'
    <3>1. CASE i = c
      <4>1. OnlyAdmitted(c)
        BY <2>2
      <4>2. OnlyAdmitted(c)'
        BY <1>2, <2>3, <2>4, <2>5, <4>1 DEF OnlyAdmitted
      <4> QED BY <3>1, <4>2
    <3>2. CASE i # c
      <4>1. window'[i] = window[i] /\ Recorded(i)' = Recorded(i) /\ OnlyAdmitted(i)
        BY <2>2, <2>4, <2>5, <3>2
      <4> QED BY <1>2, <2>3, <4>1 DEF OnlyAdmitted
    <3> QED BY <3>1, <3>2
  <2>7. Even' /\ Bounded'
    BY <1>2, <2>1, EvenKept DEF BurstInv
  <2> QED BY <1>2, <2>6, <2>7
<1> QED BY <1>5, <1>6, <1>7 DEF BurstInv

(***************************************************************************)
(* A step that changes no counter, no window and nothing of the decision   *)
(* leaves a burst as it is, however late it becomes.                       *)
(***************************************************************************)
LEMMA BurstKept ==
  ASSUME IInv, WindowInv, BurstInv, BurstNow' => BurstNow, steps' = steps, leaving' = leaving,
         pc' = pc \/ (pc = "idle" /\ pc' = "capture"), window' = window,
         UNCHANGED <<policy, req, lmetric, cached, epoch, last_busy_at, observations, chosen, next, admitted>>
  PROVE  BurstInv'
<1>1. pc' = "idle" => pc = "idle"
  OBVIOUS
<1>2. BurstType'
  BY <1>1 DEF BurstInv, BurstType
<1>3. Rounds'
  BY RoundsKept DEF BurstInv
<1>4. ASSUME BurstNow' PROVE /\ \A i \in Replica : OnlyAdmitted(i)'
                             /\ \A i \in DOMAIN observations' : StillSeen(i)'
                             /\ Even' /\ Bounded'
  <2>1. BurstNow
    BY <1>4
  <2>2. ASSUME NEW i \in Replica PROVE OnlyAdmitted(i)'
    <3>1. OnlyAdmitted(i) /\ window'[i] = window[i]
      BY <2>1 DEF BurstInv
    <3> QED BY <3>1, AdmittedKept
  <2>3. ASSUME NEW i \in DOMAIN observations' PROVE StillSeen(i)'
    <3>1. i \in DOMAIN observations /\ i \in Replica
      BY <2>3 DEF IInv
    <3>2. pc # "idle"
      BY <3>1 DEF BurstInv, BurstType
    <3>3. pc' = pc
      BY <3>2
    <3>4. StillSeen(i)
      BY <2>1, <3>1 DEF BurstInv
    <3>5. Seen(i)' = Seen(i)
      BY <3>1, SeenKept
    <3> QED BY <3>3, <3>4, <3>5 DEF StillSeen
  <2>4. Even' /\ Bounded'
    BY <2>1, EvenKept DEF BurstInv
  <2> QED BY <2>2, <2>3, <2>4
<1> QED BY <1>2, <1>3, <1>4 DEF BurstInv

(* Every step preserves the invariant; a step of an engine ends the burst.  *)
LEMMA NextBurst == IInv /\ WaitInv /\ WindowInv /\ BurstInv /\ [Next]_vars => BurstInv'
<1> SUFFICES ASSUME IInv, WaitInv, WindowInv, BurstInv, [Next]_vars PROVE BurstInv'
  OBVIOUS
<1>1. CASE Start
  <2>1. BurstNow' => BurstNow
    BY <1>1 DEF Start, engineVars, BurstNow
  <2>2. steps' = steps /\ leaving' = leaving /\ (pc = "idle" /\ pc' = "capture") /\ window' = window
    BY <1>1 DEF Start, engineVars, windowVars
  <2>3. UNCHANGED <<policy, req, lmetric, cached, epoch, last_busy_at, observations, chosen, next, admitted>>
    BY <1>1 DEF Start, indexVars, windowVars
  <2> QED BY <2>1, <2>2, <2>3, BurstKept
<1>2. CASE UNCHANGED vars
  <2>1. BurstNow' => BurstNow
    BY <1>2 DEF vars, engineVars, BurstNow
  <2>2. steps' = steps /\ leaving' = leaving /\ pc' = pc /\ window' = window
    BY <1>2 DEF vars, engineVars, windowVars, decisionVars
  <2>3. UNCHANGED <<policy, req, lmetric, cached, epoch, last_busy_at, observations, chosen, next, admitted>>
    BY <1>2 DEF vars, indexVars, windowVars, decisionVars
  <2> QED BY <2>1, <2>2, <2>3, BurstKept
<1>3. CASE Tick
  <2>1. BurstNow' => BurstNow
    <3>1. now \in Nat /\ now' = now + 1 /\ steps' = steps
      BY <1>3 DEF Tick, engineVars, WindowInv, WindowType
    <3> QED BY <3>1, RoutingAssumption DEF BurstNow
  <2>2. steps' = steps /\ leaving' = leaving /\ pc' = pc /\ window' = window
    BY <1>3 DEF Tick, engineVars, windowVars, decisionVars
  <2>3. UNCHANGED <<policy, req, lmetric, cached, epoch, last_busy_at, observations, chosen, next, admitted>>
    BY <1>3 DEF Tick, indexVars, windowVars, decisionVars
  <2> QED BY <2>1, <2>2, <2>3, BurstKept
<1>4. CASE Decide
  BY <1>4, DecideBurst
<1>5. CASE Finish
  BY <1>5, FinishBurst
<1>6. ASSUME NEW i \in Replica, Capture(i) PROVE BurstInv'
  BY <1>6, CaptureBurst
<1>7. ASSUME NEW i \in Replica, NEW depth, StepOf(i, depth) PROVE BurstInv'
  <2>1. steps' = steps + 1 /\ steps \in Nat
    BY <1>7 DEF StepOf, Step, BurstInv, BurstType
  <2>2. ~ BurstNow' /\ steps' \in Nat /\ steps' # 0
    BY <2>1 DEF BurstNow
  <2>3. UNCHANGED <<policy, req, observations, pc, chosen, next, admitted>>
    BY <1>7 DEF StepOf, Step, decisionVars
  <2>4. BurstType' /\ Rounds'
    BY <2>2, <2>3, RoundsKept DEF BurstInv, BurstType
  <2> QED BY <2>2, <2>4 DEF BurstInv
<1>8. ASSUME NEW i \in Replica, Drop(i) PROVE BurstInv'
  <2>1. steps' = steps /\ steps \in Nat /\ steps # 0
    BY <1>8 DEF Drop, BurstInv, BurstType
  <2>2. ~ BurstNow'
    BY <2>1 DEF BurstNow
  <2>3. UNCHANGED <<policy, req, observations, pc, chosen, next, admitted>>
    BY <1>8 DEF Drop, decisionVars
  <2>4. BurstType' /\ Rounds'
    BY <2>1, <2>3, RoundsKept DEF BurstInv, BurstType
  <2> QED BY <2>2, <2>4 DEF BurstInv
<1> QED BY <1>1, <1>2, <1>3, <1>4, <1>5, <1>6, <1>7, <1>8 DEF Next

(* What the invariant says of a burst is that it is spread.                 *)
LEMMA BurstInvSpreads == BurstInv => BurstSpread
<1> SUFFICES ASSUME BurstInv, Burst, NEW i \in Replica, NEW j \in Replica
             PROVE  /\ Spreads(policy) => admitted[i] <= admitted[j] + 1
                    /\ policy = "bounded-most-hit-q" => \/ lmetric[i].queued < PrefillBound + req
                                                        \/ lmetric[i].queued <= lmetric[j].queued + req
  BY DEF BurstSpread
<1>1. BurstNow /\ SameCached
  BY DEF Burst, BurstNow, SameCached
<1>2. Even /\ Bounded
  BY <1>1 DEF BurstInv
<1>3. ASSUME policy = "round-robin-q" PROVE admitted[i] <= admitted[j] + 1
  <2>1. PICK k \in Nat : \A r \in Replica : admitted[r] = IF r < next \/ r = chosen THEN k + 1 ELSE k
    BY <1>3 DEF BurstInv, Rounds
  <2>2. admitted[i] \in {k, k + 1} /\ admitted[j] \in {k, k + 1}
    BY <2>1
  <2> QED BY <2>2
<1> QED BY <1>1, <1>2, <1>3 DEF Even, Bounded

(***************************************************************************)
(* A burst that is over before an engine has made a step is spread evenly  *)
(* over replicas that have the same blocks cached, for any number of       *)
(* replicas and of requests, whichever policy spreads: its score, read     *)
(* from the counters or from a Preble window, rises with every request the *)
(* replica was given.  bounded-most-hit-q does not, but gives nothing to a *)
(* replica beyond its bound while another has less.                        *)
(***************************************************************************)
THEOREM BurstsAreSpread == Spec => []BurstSpread
<1>1. Init => IInv /\ WaitInv /\ WindowInv /\ BurstInv
  BY InitIInv, InitWait, InitWindow, InitBurst
<1>2. IInv /\ WaitInv /\ WindowInv /\ BurstInv /\ [Next]_vars => IInv' /\ WaitInv' /\ WindowInv' /\ BurstInv'
  BY NextIInv, NextWait, NextWindow, NextBurst
<1>3. BurstInv => BurstSpread
  BY BurstInvSpreads
<1> QED BY <1>1, <1>2, <1>3, PTL DEF Spec
================================================================================

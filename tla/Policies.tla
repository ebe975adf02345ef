------------------------------- MODULE Policies --------------------------------
(***************************************************************************)
(* The bodies of the scheduling policies: for the observations T (one of   *)
(* each replica), a request and the round-robin counter, the replicas the  *)
(* policy may choose.  The exact policy of a build is a cargo feature.     *)
(***************************************************************************)
EXTENDS PolicyDsl

CONSTANTS
    PrefillBound,       \* WAITINGT_PREFILL_TOKEN_BOUND
    QueueThreshold,     \* LOAD_AWARE_QUEUE_T
    ImbalanceCount,     \* AIBRIX_IMBALANCE_ABS_COUNT
    MatchNum, MatchDen  \* PREBLE_MATCH_RATIO_T, as a fraction

PreblePolicies == {"preble-q", "preble-bs-q", "preble-tps-q"}

PolicyNames == PreblePolicies \cup
    {"random-q", "round-robin-q", "least-wait-token-q", "bounded-most-hit-q",
     "shortest-weight-q", "bailian-impl-q", "aibrix-q", "dynamo-q", "dynamo-po-q",
     "lmetric-q", "least-active-q", "least-bs-q", "least-token-load-q", "least-waiting-q",
     "most-hit-q", "most-hit-load-q", "most-hit-load-active-q"}

-------------------------------------------------------------------------------
(* policies/simple.rs, vllm.rs, lmetric.rs, llm_d: one score. *)

RandomQ(T) == SelectRand(T, T)

RoundRobinQ(T, next) == SelectMin(T, [o \in T |-> <<IF o.idx = next THEN 0 ELSE 1>>])

JLeastWaitTokenQ(T, req) == SelectMin(T, [o \in T |-> <<prefill_tokens(req, o)>>])

JBoundMostHitQ2(T, req) ==
    LET free == {o \in T : queued_tokens(o) < PrefillBound}
    IN FilterThen(free, SelectMax(free, [o \in free |-> <<o.hit>>]), JLeastWaitTokenQ(T, req))

JShortestWeightQ(T) == SelectMin(T, [o \in T |-> <<4 * o.waiting + o.bs>>])

LmetricQ(T, req) == SelectMin(T, [o \in T |-> <<prefill_tokens(req, o) * (o.bs + 1)>>])

LeastActiveQ(T) == SelectMin(T, [o \in T |-> <<o.all>>])
LeastBsQ(T) == SelectMin(T, [o \in T |-> <<o.bs>>])
LeastTokenLoadQ(T) == SelectMin(T, [o \in T |-> <<queued_tokens(o) + o.all>>])
LeastWaitingQ(T) == SelectMin(T, [o \in T |-> <<o.waiting>>])
MostHitQ(T) == SelectMax(T, [o \in T |-> <<o.hit>>])

-------------------------------------------------------------------------------
(***************************************************************************)
(* most-hit-load-q and most-hit-load-active-q: weights 10, 1 and 1; each   *)
(* term is scaled to its range over the replicas, the sum is cut to whole  *)
(* thousandths.                                                            *)
(***************************************************************************)
Span(T, f) == LET d == Highest(T, f) - Lowest(T, f) IN IF d = 0 THEN 1 ELSE d

LoadTerm(o) == QueueThreshold - (IF o.waiting < QueueThreshold THEN o.waiting ELSE QueueThreshold)

MostHitLoadQ(T) ==
    LET hit == [o \in T |-> o.hit]
        d == Span(T, hit)
        q == 2 * QueueThreshold
        Score(o) == (1000 * (10 * q * (o.hit - Lowest(T, hit)) + d * LoadTerm(o))) \div (d * q)
    IN SelectMax(T, [o \in T |-> <<Score(o)>>])

MostHitLoadActiveQ(T) ==
    LET hit == [o \in T |-> o.hit]
        all == [o \in T |-> o.all]
        d == Span(T, hit)
        e == Span(T, all)
        q == 2 * QueueThreshold
        Score(o) == (1000 * (10 * q * e * (o.hit - Lowest(T, hit)) + d * e * LoadTerm(o)
                             + q * d * (Highest(T, all) - o.all))) \div (d * e * q)
    IN SelectMax(T, [o \in T |-> <<Score(o)>>])

-------------------------------------------------------------------------------
(***************************************************************************)
(* bailian.rs: a weight above 0 for a replica with more hits than the      *)
(* fewest, or a smaller batch or fewer tokens than the most.               *)
(***************************************************************************)
BailianImplQ(T) ==
    SelectRand(T, {o \in T : \/ o.hit > Lowest(T, [p \in T |-> p.hit])
                             \/ o.bs < Highest(T, [p \in T |-> p.bs])
                             \/ o.all < Highest(T, [p \in T |-> p.all])})

(***************************************************************************)
(* aibrix.rs: the replicas with the smallest batch only, when the batches  *)
(* are far apart; among them those not far above the mean.                 *)
(***************************************************************************)
AibrixQ(T) ==
    LET bs == [o \in T |-> o.bs]
        lo == Lowest(T, bs)
        gap == Highest(T, bs) - lo
        score == [o \in T |-> <<- o.hit, o.bs>>]
        low == {o \in T : o.bs = lo /\ gap > ImbalanceCount}
        Inner(t) == LET near == {o \in t : AtMostMeanPlusStd(o.bs, T, bs)}
                    IN FilterThen(near, SelectMin(near, score), SelectMax(t, score))
    IN FilterThen(low, Inner(low), Inner(T))

(***************************************************************************)
(* dynamo.rs: the logit in whole thousandths.                              *)
(***************************************************************************)
DynamoQ(T, req) ==
    SelectMin(T, [o \in T |-> <<(1000 * new_tokens(req, o)) \div BlockSize
                                + 1000 * (new_blocks(req, o) + decode_blocks(o))>>])

DynamoPoQ(T, req) ==
    SelectMin(T, [o \in T |-> <<(1000 * prefill_tokens(req, o)) \div BlockSize
                                + 1000 * (prefill_tokens(req, o) \div BlockSize)>>])

-------------------------------------------------------------------------------
(***************************************************************************)
(* preble/mod.rs: when the deepest match of all replicas is a large enough *)
(* part of the request, the replica that has it; the flavour's load        *)
(* decides between equals, and alone otherwise.                            *)
(***************************************************************************)
preble_global_match_blocks(T) == Highest(T, [o \in T |-> o.hit])

KvAware(T, req) ==
    {o \in T : preble_global_match_blocks(T) * BlockSize * MatchDen
                  > MatchNum * (IF req = 0 THEN 1 ELSE req)}

PrebleQ(T, req) ==
    FilterThen(KvAware(T, req), SelectMax(T, [o \in T |-> <<o.hit, - o.load>>]),
               SelectMin(T, [o \in T |-> <<o.cost>>]))

PrebleBsQ(T, req) ==
    FilterThen(KvAware(T, req), SelectMax(T, [o \in T |-> <<o.hit, - o.bs_sum>>]),
               SelectMin(T, [o \in T |-> <<o.bs_sum>>]))

(***************************************************************************)
(* mutant: the fewest running requests do not decide between equals.       *)
(***************************************************************************)
PrebleTpsQNoTie(T, req) ==
    FilterThen(KvAware(T, req), SelectMax(T, [o \in T |-> <<o.hit, o.tps>>]),
               SelectMax(T, [o \in T |-> <<o.tps>>]))

PrebleTpsQ(T, req) ==
    FilterThen(KvAware(T, req), SelectMax(T, [o \in T |-> <<o.hit, o.tps, - o.bs>>]),
               SelectMax(T, [o \in T |-> <<o.tps, - o.bs>>]))

-------------------------------------------------------------------------------
MayChoose(policy, T, req, next) ==
    CASE policy = "random-q" -> RandomQ(T)
      [] policy = "round-robin-q" -> RoundRobinQ(T, next)
      [] policy = "least-wait-token-q" -> JLeastWaitTokenQ(T, req)
      [] policy = "bounded-most-hit-q" -> JBoundMostHitQ2(T, req)
      [] policy = "shortest-weight-q" -> JShortestWeightQ(T)
      [] policy = "bailian-impl-q" -> BailianImplQ(T)
      [] policy = "aibrix-q" -> AibrixQ(T)
      [] policy = "dynamo-q" -> DynamoQ(T, req)
      [] policy = "dynamo-po-q" -> DynamoPoQ(T, req)
      [] policy = "lmetric-q" -> LmetricQ(T, req)
      [] policy = "least-active-q" -> LeastActiveQ(T)
      [] policy = "least-bs-q" -> LeastBsQ(T)
      [] policy = "least-token-load-q" -> LeastTokenLoadQ(T)
      [] policy = "least-waiting-q" -> LeastWaitingQ(T)
      [] policy = "most-hit-q" -> MostHitQ(T)
      [] policy = "most-hit-load-q" -> MostHitLoadQ(T)
      [] policy = "most-hit-load-active-q" -> MostHitLoadActiveQ(T)
      [] policy = "preble-q" -> PrebleQ(T, req)
      [] policy = "preble-bs-q" -> PrebleBsQ(T, req)
      [] policy = "preble-tps-q" -> PrebleTpsQ(T, req)

================================================================================

------------------------------- MODULE PolicyDsl -------------------------------
(***************************************************************************)
(* The vocabulary of the scheduling policies (policies/dsl_runtime.rs): a  *)
(* policy's body is an expression over one observation of each replica.    *)
(*                                                                         *)
(* An observation is a record: idx, bs, waiting, queued, all (tokens), hit *)
(* (blocks), epoch, and, of the Preble policies, load and cost, bs_sum or  *)
(* tps.  A request is the number of its tokens.  A score is a tuple of     *)
(* integers; where the code compares floats it is scaled, and where it     *)
(* divides every candidate by one number, that number is left out.         *)
(***************************************************************************)
EXTENDS Integers, Sequences, FiniteSets, FiniteSetsExt

CONSTANT BlockSize

Infinity == 1000000     \* usize::MAX

Monus(a, b) == IF a > b THEN a - b ELSE 0

new_tokens(req, o) == Monus(req, o.hit * BlockSize)

new_blocks(req, o) == Monus((req + BlockSize - 1) \div BlockSize, o.hit)

queued_tokens(o) == IF o.queued > 0 THEN o.queued ELSE 0

prefill_tokens(req, o) == queued_tokens(o) + new_tokens(req, o)

decode_blocks(o) == o.all \div BlockSize

(***************************************************************************)
(* The reducers over a function f of the observations T.  The sample       *)
(* deviation is compared with, never computed: AtMostMeanPlusStd is        *)
(* x <= mean + std, both sides times the number of observations.           *)
(***************************************************************************)
Lowest(T, f) == Min({f[o] : o \in T})
Highest(T, f) == Max({f[o] : o \in T})

AtMostMeanPlusStd(x, T, f) ==
    LET n == Cardinality(T)
        sum == MapThenSumSet(LAMBDA o : f[o], T)
        squares == MapThenSumSet(LAMBDA o : (n * f[o] - sum) * (n * f[o] - sum), T)
        over == n * x - sum
    IN over <= 0 \/ (n > 1 /\ (n - 1) * over * over <= squares)

(***************************************************************************)
(* The combinators give the set of replicas that may be picked.            *)
(***************************************************************************)
Less(s, t) == \E k \in DOMAIN s : s[k] < t[k] /\ \A j \in 1..(k - 1) : s[j] = t[j]

(***************************************************************************)
(* select_min_by picks the first of the smallest, select_max_by the last   *)
(* of the largest (as Iterator::min_by and max_by do).                     *)
(***************************************************************************)
SelectMin(T, score) ==
    {Min({o.idx : o \in {p \in T : \A q \in T : ~ Less(score[q], score[p])}})}

SelectMax(T, score) ==
    {Max({o.idx : o \in {p \in T : \A q \in T : ~ Less(score[p], score[q])}})}

(***************************************************************************)
(* weighted_pick, able being the observations with a positive weight:      *)
(* without any the first; otherwise one of them, or the first when the     *)
(* random number is 0, or the last when the weights' rounding leaves some  *)
(* of it over.                                                             *)
(***************************************************************************)
SelectRand(T, able) ==
    LET idx == {o.idx : o \in T}
    IN IF able = {} THEN {Min(idx)} ELSE {o.idx : o \in able} \cup {Min(idx), Max(idx)}

(***************************************************************************)
(* filter_then: what is picked among those that pass, if any does, and     *)
(* otherwise what is picked among all.                                     *)
(***************************************************************************)
FilterThen(passing, picked, otherwise) == IF passing # {} THEN picked ELSE otherwise

================================================================================

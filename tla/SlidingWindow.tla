----------------------------- MODULE SlidingWindow -----------------------------
(***************************************************************************)
(* radixtree/src/types/sliding_window.rs: samples in the order they were   *)
(* pushed, each with its date, and their sum, kept up to date by push and  *)
(* expire.  What is too old goes when the window is read, from the front   *)
(* only.                                                                   *)
(***************************************************************************)
EXTENDS Integers, Sequences

CONSTANT Duration       \* how long a sample counts

EmptyWindow == [entries |-> <<>>, agg |-> 0]

Push(w, t, x) == [entries |-> Append(w.entries, [at |-> t, item |-> x]), agg |-> w.agg + x]

TooOld(e, now) == now - e.at > Duration

(***************************************************************************)
(* mutant: a sample is dropped one instant too early.                      *)
(***************************************************************************)
ExpireEarly(w, now) ==
    LET Old(e) == now - e.at >= Duration
        n == CHOOSE n \in 0..Len(w.entries) :
                /\ \A i \in 1..n : Old(w.entries[i])
                /\ n < Len(w.entries) => ~ Old(w.entries[n + 1])
        sum[i \in 0..n] == IF i = 0 THEN 0 ELSE sum[i - 1] + w.entries[i].item
    IN [entries |-> SubSeq(w.entries, n + 1, Len(w.entries)), agg |-> w.agg - sum[n]]

(***************************************************************************)
(* expire: the samples at the front that are too old go, up to the first   *)
(* that is not.                                                            *)
(***************************************************************************)
Expire(w, now) ==
    LET n == CHOOSE n \in 0..Len(w.entries) :
                /\ \A i \in 1..n : TooOld(w.entries[i], now)
                /\ n < Len(w.entries) => ~ TooOld(w.entries[n + 1], now)
        sum[i \in 0..n] == IF i = 0 THEN 0 ELSE sum[i - 1] + w.entries[i].item
    IN [entries |-> SubSeq(w.entries, n + 1, Len(w.entries)), agg |-> w.agg - sum[n]]

================================================================================

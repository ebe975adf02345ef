-------------------------------- MODULE PCtxProofs --------------------------------
(***************************************************************************)
(* What is proved of the latency simulator, for every number of requests   *)
(* and replicas, every prompt and every predictor.                         *)
(***************************************************************************)
EXTENDS PCtx, DataTheorems

-----------------------------------------------------------------------------
(* Queues.                                                                 *)

(* Only keeps the elements of a sequence that are in a set, each as often. *)
LEMMA OnlyIs ==
  ASSUME NEW A, NEW q \in Seq(A), NEW S
  PROVE  /\ Only(q, S) \in Seq(A)
         /\ Range(Only(q, S)) = Range(q) \cap S
         /\ IsInjective(q) => IsInjective(Only(q, S))
<1> DEFINE n == Len(q)
           F == [x \in (1..n) \X Seq(A) |-> IF q[x[1]] \in S THEN Append(x[2], q[x[1]]) ELSE x[2]]
           kept == CHOOSE f : f = [k \in 0..n |-> IF k = 0 THEN <<>> ELSE IF q[k] \in S
                                                  THEN Append(f[k - 1], q[k]) ELSE f[k - 1]]
<1>1. n \in Nat /\ \A k \in 1..n : q[k] \in A
  BY LenProperties
<1>2. \A k \in 1..n : \A x \in Seq(A) : /\ F[<<k, x>>] = IF q[k] \in S THEN Append(x, q[k]) ELSE x
                                        /\ F[<<k, x>>] \in Seq(A)
  BY <1>1, AppendProperties
<1>3. <<>> \in Seq(A)
  BY EmptySeq
<1>4. PICK g \in [0..n -> Seq(A)] : Iterates(g, F, <<>>, n)
  <2>1. F \in [(1..n) \X Seq(A) -> Seq(A)]
    BY <1>1, AppendProperties
  <2> HIDE DEF F, n
  <2> QED BY <1>1, <1>3, <2>1, Iteration
<1>5. \A k \in 1..n : k - 1 \in 0..n /\ g[k - 1] \in Seq(A)
                     /\ g[k] = IF q[k] \in S THEN Append(g[k - 1], q[k]) ELSE g[k - 1]
  <2> HIDE DEF F
  <2> TAKE k \in 1..n
  <2>1. k - 1 \in 0..n
    BY <1>1
  <2>2. g[k - 1] \in Seq(A) /\ g[k] = F[<<k, g[k - 1]>>]
    BY <2>1, <1>4, Zenon DEF Iterates
  <2> QED BY <2>1, <2>2, <1>2
<1>6. g = [k \in 0..n |-> IF k = 0 THEN <<>> ELSE IF q[k] \in S THEN Append(g[k - 1], q[k]) ELSE g[k - 1]]
  <2> DEFINE h == [k \in 0..n |-> IF k = 0 THEN <<>> ELSE IF q[k] \in S THEN Append(g[k - 1], q[k]) ELSE g[k - 1]]
  <2>1. \A k \in 0..n : k = 0 \/ k \in 1..n
    BY <1>1
  <2>2. \A k \in 0..n : g[k] = h[k]
    BY <1>4, <1>5, <2>1 DEF Iterates
  <2>3. g = [k \in 0..n |-> g[k]]
    OBVIOUS
  <2> QED BY <2>2, <2>3
<1>7. kept = [k \in 0..n |-> IF k = 0 THEN <<>> ELSE IF q[k] \in S THEN Append(kept[k - 1], q[k]) ELSE kept[k - 1]]
  BY <1>6
<1>8. Only(q, S) = kept[n]
  BY DEF Only
<1> HIDE DEF kept
<1>9. kept[0] = <<>> /\ \A k \in 1..n : kept[k] = IF q[k] \in S THEN Append(kept[k - 1], q[k]) ELSE kept[k - 1]
  <2>1. \A k \in 1..n : k \in 0..n /\ k # 0
    BY <1>1
  <2>2. 0 \in 0..n
    BY <1>1
  <2> HIDE DEF n
  <2> QED BY <1>7, <2>1, <2>2
<1> DEFINE U(k) == {q[j] : j \in 1..k}
           G == {k \in 0..n : /\ kept[k] \in Seq(A)
                              /\ Range(kept[k]) = U(k) \cap S
                              /\ IsInjective(q) => IsInjective(kept[k])}
<1>10. 0 \in G
  <2>1. U(0) = {}
    OBVIOUS
  <2>2. Range(<<>>) = {} /\ IsInjective(<<>>)
    BY <1>3, RangeBasics
  <2>3. kept[0] \in Seq(A) /\ Range(kept[0]) = {} /\ IsInjective(kept[0])
    BY <1>3, <1>9, <2>2
  <2>4. 0 \in 0..n
    BY <1>1
  <2> HIDE DEF U
  <2> QED BY <2>1, <2>3, <2>4
<1>11. ASSUME NEW k \in 1..n, k - 1 \in G PROVE k \in G
  <2>1. k \in 0..n /\ k - 1 \in 0..n /\ q[k] \in A
    BY <1>1
  <2>2. U(k) = U(k - 1) \cup {q[k]}
    <3>1. \A j \in 1..k : j = k \/ j \in 1..(k - 1)
      BY <1>1
    <3>2. \A j \in 1..(k - 1) : j \in 1..k
      BY <1>1
    <3>3. k \in 1..k
      BY <1>1
    <3> QED BY <3>1, <3>2, <3>3
  <2>3. IsInjective(q) => q[k] \notin U(k - 1)
    <3> SUFFICES ASSUME IsInjective(q), NEW j \in 1..(k - 1), q[k] = q[j] PROVE FALSE
      OBVIOUS
    <3>1. DOMAIN q = 1..n /\ j \in 1..n /\ k \in 1..n /\ j # k
      BY <1>1, LenProperties
    <3> HIDE DEF n
    <3> QED BY <3>1 DEF IsInjective
  <2>4. /\ kept[k - 1] \in Seq(A) /\ Range(kept[k - 1]) = U(k - 1) \cap S
        /\ IsInjective(q) => IsInjective(kept[k - 1])
    BY <1>11
  <2> HIDE DEF U
  <2>5. CASE q[k] \in S
    <3>1. kept[k] = Append(kept[k - 1], q[k])
      BY <1>9, <2>5
    <3>2. /\ kept[k] \in Seq(A) /\ Range(kept[k]) = Range(kept[k - 1]) \cup {q[k]}
          /\ IsInjective(kept[k - 1]) /\ q[k] \notin Range(kept[k - 1]) => IsInjective(kept[k])
      BY <3>1, <2>1, <2>4, RangeAppend
    <3> QED BY <3>2, <2>1, <2>2, <2>3, <2>4, <2>5
  <2>6. CASE q[k] \notin S
    <3>1. kept[k] = kept[k - 1]
      BY <1>9, <2>6
    <3> QED BY <3>1, <2>1, <2>2, <2>4, <2>6
  <2> QED BY <2>5, <2>6
<1>12. n \in G
  <2>1. 0..n \subseteq G
    <3> HIDE DEF G, n
    <3> QED BY <1>1, <1>10, <1>11, IntervalInduction
  <2>2. n \in 0..n
    BY <1>1
  <2> HIDE DEF G, n
  <2> QED BY <2>1, <2>2
<1>13. U(n) = Range(q)
  BY LenProperties DEF Range
<1> QED BY <1>8, <1>12, <1>13

(* The elements of two sequences in a row. *)
LEMMA RangeConcat ==
  ASSUME NEW A, NEW p \in Seq(A), NEW q \in Seq(A)
  PROVE  p \o q \in Seq(A) /\ Range(p \o q) = Range(p) \cup Range(q)
<1>1. /\ p \o q \in Seq(A) /\ DOMAIN p = 1..Len(p) /\ DOMAIN q = 1..Len(q)
      /\ DOMAIN (p \o q) = 1..(Len(p) + Len(q)) /\ Len(p) \in Nat /\ Len(q) \in Nat
      /\ \A j \in 1..Len(p) : (p \o q)[j] = p[j]
      /\ \A j \in 1..Len(q) : (p \o q)[Len(p) + j] = q[j]
  BY ConcatProperties, LenProperties
<1>2. ASSUME NEW x \in Range(p \o q) PROVE x \in Range(p) \cup Range(q)
  <2>1. PICK j \in 1..(Len(p) + Len(q)) : x = (p \o q)[j]
    BY <1>1, <1>2 DEF Range
  <2>2. CASE j \in 1..Len(p)
    BY <1>1, <2>1, <2>2 DEF Range
  <2>3. CASE j \notin 1..Len(p)
    <3>1. j - Len(p) \in 1..Len(q) /\ Len(p) + (j - Len(p)) = j
      BY <1>1, <2>1, <2>3
    <3> QED BY <1>1, <2>1, <3>1 DEF Range
  <2> QED BY <2>2, <2>3
<1>3. ASSUME NEW x \in Range(p) \cup Range(q) PROVE x \in Range(p \o q)
  <2>1. CASE x \in Range(p)
    <3>1. PICK j \in 1..Len(p) : x = p[j]
      BY <1>1, <2>1 DEF Range
    <3>2. j \in 1..(Len(p) + Len(q))
      BY <1>1
    <3> QED BY <1>1, <3>1, <3>2 DEF Range
  <2>2. CASE x \in Range(q)
    <3>1. PICK j \in 1..Len(q) : x = q[j]
      BY <1>1, <2>2 DEF Range
    <3>2. Len(p) + j \in 1..(Len(p) + Len(q))
      BY <1>1
    <3> QED BY <1>1, <3>1, <3>2 DEF Range
  <2> QED BY <1>3, <2>1, <2>2
<1> QED BY <1>1, <1>2, <1>3

-----------------------------------------------------------------------------
(* The snapshot of an engine's queues.                                     *)

Scheds == [waiting : Seq(Req), running : SUBSET Req, processed : [Req -> Nat]]

AllHashes == UNION {Range(Hashes[r]) : r \in Req}

Outputs == [rid : Req, state : {"PREFILL", "DECODE"}, prev : Nat, finished : BOOLEAN]

StepOutputs == [outputs : Seq(Outputs), prefill_tokens : Nat, preempted : Seq(Req), aborted : Seq(Req),
                evicted : SUBSET AllHashes]

LEMMA EmptySchedType == EmptySched \in Scheds /\ InFlight(EmptySched) = {}
<1>1. <<>> \in Seq(Req) /\ Range(<<>>) = {}
  BY EmptySeq, RangeBasics
<1> QED BY <1>1 DEF EmptySched, Scheds, InFlight

LEMMA AdmitIs ==
  ASSUME NEW s \in Scheds, NEW r \in Req, NEW n \in Nat
  PROVE  /\ Admit(s, r, n) \in Scheds
         /\ Admit(s, r, n).running = s.running
         /\ Range(Admit(s, r, n).waiting) = Range(s.waiting) \cup {r}
         /\ Admit(s, r, n).processed = [s.processed EXCEPT ![r] = n]
<1>1. Append(s.waiting, r) \in Seq(Req) /\ Range(Append(s.waiting, r)) = Range(s.waiting) \cup {r}
  BY RangeAppend DEF Scheds
<1> QED BY <1>1 DEF Admit, Scheds

LEMMA PromoteIs ==
  ASSUME NEW s \in Scheds, NEW r \in Req
  PROVE  /\ PromoteToRunning(s, r) \in Scheds
         /\ PromoteToRunning(s, r).running = s.running \cup ({r} \cap Range(s.waiting))
         /\ Range(PromoteToRunning(s, r).waiting) = Range(s.waiting) \ {r}
         /\ PromoteToRunning(s, r).processed = s.processed
<1>1. s.waiting \in Seq(Req) /\ Range(s.waiting) \subseteq Req
  BY RangeBasics DEF Scheds
<1>2. /\ Only(s.waiting, Req \ {r}) \in Seq(Req)
      /\ Range(Only(s.waiting, Req \ {r})) = Range(s.waiting) \ {r}
  BY <1>1, OnlyIs
<1>3. CASE r \in Range(s.waiting)
  BY <1>2, <1>3 DEF PromoteToRunning, Scheds
<1>4. CASE r \notin Range(s.waiting)
  BY <1>4 DEF PromoteToRunning
<1> QED BY <1>3, <1>4

LEMMA DropIs ==
  ASSUME NEW s \in Scheds, NEW r \in Req
  PROVE  /\ DropRequest(s, r) \in Scheds
         /\ DropRequest(s, r).running = s.running \ {r}
         /\ Range(DropRequest(s, r).waiting) = Range(s.waiting) \ {r}
         /\ DropRequest(s, r).processed = [s.processed EXCEPT ![r] = 0]
<1>1. s.waiting \in Seq(Req) /\ Range(s.waiting) \subseteq Req
  BY RangeBasics DEF Scheds
<1>2. /\ Only(s.waiting, Req \ {r}) \in Seq(Req)
      /\ Range(Only(s.waiting, Req \ {r})) = Range(s.waiting) \ {r}
  BY <1>1, OnlyIs
<1> QED BY <1>2 DEF DropRequest, Scheds

LEMMA PreemptIs ==
  ASSUME NEW s \in Scheds, NEW r \in Req
  PROVE  /\ Preempt(s, r) \in Scheds
         /\ Preempt(s, r).running = s.running \ {r}
         /\ Range(Preempt(s, r).waiting) = Range(s.waiting) \cup ({r} \cap s.running)
         /\ Preempt(s, r).processed = IF r \in s.running THEN [s.processed EXCEPT ![r] = 0] ELSE s.processed
<1> DEFINE p == <<r>>
<1>1. p \in Seq(Req) /\ Range(p) = {r}
  <2>1. p \in Seq(Req)
    OBVIOUS
  <2>2. DOMAIN p = {1} /\ p[1] = r
    OBVIOUS
  <2> HIDE DEF p
  <2> QED BY <2>1, <2>2 DEF Range
<1>2. p \o s.waiting \in Seq(Req) /\ Range(p \o s.waiting) = {r} \cup Range(s.waiting)
  <2> HIDE DEF p
  <2>1. s.waiting \in Seq(Req)
    BY DEF Scheds
  <2> QED BY <1>1, <2>1, RangeConcat
<1>3. CASE r \in s.running
  BY <1>2, <1>3 DEF Preempt, Scheds
<1>4. CASE r \notin s.running
  BY <1>4 DEF Preempt
<1> QED BY <1>3, <1>4

(* All the requests of a list are dropped. *)
LEMMA DropAllIs ==
  ASSUME NEW s \in Scheds, NEW rids \in Seq(Req)
  PROVE  LET t == DropAll(s, rids)
         IN /\ t \in Scheds
            /\ t.running = s.running \ Range(rids)
            /\ Range(t.waiting) = Range(s.waiting) \ Range(rids)
            /\ \A r \in Req : t.processed[r] = IF r \in Range(rids) THEN 0 ELSE s.processed[r]
<1> DEFINE n == Len(rids)
           F == [x \in (1..n) \X Scheds |-> DropRequest(x[2], rids[x[1]])]
           after == CHOOSE f : f = [k \in 0..n |-> IF k = 0 THEN s ELSE DropRequest(f[k - 1], rids[k])]
           U(k) == {rids[j] : j \in 1..k}
           G == {k \in 0..n : /\ after[k] \in Scheds
                              /\ after[k].running = s.running \ U(k)
                              /\ Range(after[k].waiting) = Range(s.waiting) \ U(k)
                              /\ \A r \in Req : after[k].processed[r] = IF r \in U(k) THEN 0 ELSE s.processed[r]}
<1>1. n \in Nat /\ \A k \in 1..n : rids[k] \in Req
  BY LenProperties
<1>2. F \in [(1..n) \X Scheds -> Scheds]
  BY <1>1, DropIs
<1>3. PICK g \in [0..n -> Scheds] : Iterates(g, F, s, n)
  <2> HIDE DEF F, n
  <2> QED BY <1>1, <1>2, Iteration
<1>4. g = [k \in 0..n |-> IF k = 0 THEN s ELSE DropRequest(g[k - 1], rids[k])]
  <2> DEFINE h == [k \in 0..n |-> IF k = 0 THEN s ELSE DropRequest(g[k - 1], rids[k])]
  <2>1. ASSUME NEW k \in 0..n PROVE g[k] = h[k]
    <3>1. k = 0 \/ (k \in 1..n /\ k - 1 \in 0..n)
      BY <1>1
    <3>2. CASE k = 0
      BY <1>3, <3>2 DEF Iterates
    <3>3. CASE k \in 1..n
      <4>1. g[k - 1] \in Scheds /\ k # 0
        BY <1>1, <3>1, <3>3
      <4>2. g[k] = F[<<k, g[k - 1]>>]
        <5> HIDE DEF F, n
        <5> QED BY <1>3, <3>3 DEF Iterates
      <4> QED BY <3>3, <4>1, <4>2
    <3> QED BY <3>1, <3>2, <3>3
  <2>2. g = [k \in 0..n |-> g[k]]
    OBVIOUS
  <2> QED BY <2>1, <2>2
<1>5. after = [k \in 0..n |-> IF k = 0 THEN s ELSE DropRequest(after[k - 1], rids[k])]
  BY <1>4
<1>6. DropAll(s, rids) = after[n]
  BY DEF DropAll
<1> HIDE DEF after
<1>7. after[0] = s /\ \A k \in 1..n : after[k] = DropRequest(after[k - 1], rids[k])
  <2>1. 0 \in 0..n /\ \A k \in 1..n : k \in 0..n /\ k # 0
    BY <1>1
  <2> HIDE DEF n
  <2> QED BY <1>5, <2>1
<1>8. 0 \in G
  <2>1. U(0) = {} /\ 0 \in 0..n
    BY <1>1
  <2> HIDE DEF U
  <2> QED BY <1>7, <2>1
<1>9. ASSUME NEW k \in 1..n, k - 1 \in G PROVE k \in G
  <2>1. U(k) = U(k - 1) \cup {rids[k]} /\ k \in 0..n /\ rids[k] \in Req
    <3>1. \A j \in 1..k : j = k \/ j \in 1..(k - 1)
      BY <1>1
    <3>2. k \in 1..k /\ k \in 0..n /\ \A j \in 1..(k - 1) : j \in 1..k
      BY <1>1
    <3> QED BY <1>1, <3>1, <3>2
  <2> DEFINE t == after[k - 1]
             u == after[k]
             r == rids[k]
  <2>2. /\ t \in Scheds /\ t.running = s.running \ U(k - 1) /\ Range(t.waiting) = Range(s.waiting) \ U(k - 1)
        /\ \A q \in Req : t.processed[q] = IF q \in U(k - 1) THEN 0 ELSE s.processed[q]
    BY <1>9
  <2>3. u = DropRequest(t, r)
    BY <1>7
  <2> HIDE DEF t, u, r, U
  <2>4. /\ u \in Scheds /\ u.running = t.running \ {r} /\ Range(u.waiting) = Range(t.waiting) \ {r}
        /\ u.processed = [t.processed EXCEPT ![r] = 0]
    BY <2>1, <2>2, <2>3, DropIs DEF r
  <2>5. \A q \in Req : u.processed[q] = IF q \in U(k) THEN 0 ELSE s.processed[q]
    <3>1. t.processed \in [Req -> Nat]
      BY <2>2 DEF Scheds
    <3> QED BY <3>1, <2>1, <2>2, <2>4 DEF r
  <2>6. u.running = s.running \ U(k) /\ Range(u.waiting) = Range(s.waiting) \ U(k)
    BY <2>1, <2>2, <2>4 DEF r
  <2> QED BY <2>1, <2>4, <2>5, <2>6 DEF u
<1>10. n \in G
  <2>1. 0..n \subseteq G
    <3> HIDE DEF G, n
    <3> QED BY <1>1, <1>8, <1>9, IntervalInduction
  <2>2. n \in 0..n
    BY <1>1
  <2> HIDE DEF G, n
  <2> QED BY <2>1, <2>2
<1>11. U(n) = Range(rids)
  BY LenProperties DEF Range
<1> HIDE DEF U
<1> QED BY <1>6, <1>10, <1>11

(* The running requests of a list go back to the front of the queue.       *)
LEMMA PreemptAllIs ==
  ASSUME NEW s \in Scheds, NEW rids \in Seq(Req)
  PROVE  LET t == PreemptAll(s, rids)
         IN /\ t \in Scheds
            /\ t.running = s.running \ Range(rids)
            /\ Range(t.waiting) = Range(s.waiting) \cup (Range(rids) \cap s.running)
            /\ \A r \in Req : t.processed[r] = IF r \in Range(rids) \cap s.running THEN 0 ELSE s.processed[r]
<1> DEFINE n == Len(rids)
           F == [x \in (1..n) \X Scheds |-> Preempt(x[2], rids[x[1]])]
           after == CHOOSE f : f = [k \in 0..n |-> IF k = 0 THEN s ELSE Preempt(f[k - 1], rids[k])]
           U(k) == {rids[j] : j \in 1..k}
           G == {k \in 0..n : /\ after[k] \in Scheds
                              /\ after[k].running = s.running \ U(k)
                              /\ Range(after[k].waiting) = Range(s.waiting) \cup (U(k) \cap s.running)
                              /\ \A r \in Req : after[k].processed[r] = IF r \in U(k) \cap s.running THEN 0 ELSE s.processed[r]}
<1>1. n \in Nat /\ \A k \in 1..n : rids[k] \in Req
  BY LenProperties
<1>2. F \in [(1..n) \X Scheds -> Scheds]
  BY <1>1, PreemptIs
<1>3. PICK g \in [0..n -> Scheds] : Iterates(g, F, s, n)
  <2> HIDE DEF F, n
  <2> QED BY <1>1, <1>2, Iteration
<1>4. g = [k \in 0..n |-> IF k = 0 THEN s ELSE Preempt(g[k - 1], rids[k])]
  <2> DEFINE h == [k \in 0..n |-> IF k = 0 THEN s ELSE Preempt(g[k - 1], rids[k])]
  <2>1. ASSUME NEW k \in 0..n PROVE g[k] = h[k]
    <3>1. k = 0 \/ (k \in 1..n /\ k - 1 \in 0..n)
      BY <1>1
    <3>2. CASE k = 0
      BY <1>3, <3>2 DEF Iterates
    <3>3. CASE k \in 1..n
      <4>1. g[k - 1] \in Scheds /\ k # 0
        BY <1>1, <3>1, <3>3
      <4>2. g[k] = F[<<k, g[k - 1]>>]
        <5> HIDE DEF F, n
        <5> QED BY <1>3, <3>3 DEF Iterates
      <4> QED BY <3>3, <4>1, <4>2
    <3> QED BY <3>1, <3>2, <3>3
  <2>2. g = [k \in 0..n |-> g[k]]
    OBVIOUS
  <2> QED BY <2>1, <2>2
<1>5. after = [k \in 0..n |-> IF k = 0 THEN s ELSE Preempt(after[k - 1], rids[k])]
  BY <1>4
<1>6. PreemptAll(s, rids) = after[n]
  BY DEF PreemptAll
<1> HIDE DEF after
<1>7. after[0] = s /\ \A k \in 1..n : after[k] = Preempt(after[k - 1], rids[k])
  <2>1. 0 \in 0..n /\ \A k \in 1..n : k \in 0..n /\ k # 0
    BY <1>1
  <2> HIDE DEF n
  <2> QED BY <1>5, <2>1
<1>8. 0 \in G
  <2>1. U(0) = {} /\ 0 \in 0..n
    BY <1>1
  <2> HIDE DEF U
  <2> QED BY <1>7, <2>1
<1>9. ASSUME NEW k \in 1..n, k - 1 \in G PROVE k \in G
  <2>1. U(k) = U(k - 1) \cup {rids[k]} /\ k \in 0..n /\ rids[k] \in Req
    <3>1. \A j \in 1..k : j = k \/ j \in 1..(k - 1)
      BY <1>1
    <3>2. k \in 1..k /\ k \in 0..n /\ \A j \in 1..(k - 1) : j \in 1..k
      BY <1>1
    <3> QED BY <1>1, <3>1, <3>2
  <2> DEFINE t == after[k - 1]
             u == after[k]
             r == rids[k]
  <2>2. /\ t \in Scheds /\ t.running = s.running \ U(k - 1) /\ Range(t.waiting) = Range(s.waiting) \cup (U(k - 1) \cap s.running)
        /\ \A q \in Req : t.processed[q] = IF q \in U(k - 1) \cap s.running THEN 0 ELSE s.processed[q]
    BY <1>9
  <2>3. u = Preempt(t, r)
    BY <1>7
  <2> HIDE DEF t, u, r, U
  <2>4. /\ u \in Scheds /\ u.running = t.running \ {r} /\ Range(u.waiting) = Range(t.waiting) \cup ({r} \cap t.running)
        /\ u.processed = IF r \in t.running THEN [t.processed EXCEPT ![r] = 0] ELSE t.processed
    BY <2>1, <2>2, <2>3, PreemptIs DEF r
  <2>5. \A q \in Req : u.processed[q] = IF q \in U(k) \cap s.running THEN 0 ELSE s.processed[q]
    <3>1. t.processed \in [Req -> Nat]
      BY <2>2 DEF Scheds
    <3>2. CASE r \in t.running
      <4>1. u.processed = [t.processed EXCEPT ![r] = 0] /\ r \in s.running
        BY <2>2, <2>4, <3>2
      <4> QED BY <4>1, <3>1, <2>1, <2>2 DEF r
    <3>3. CASE r \notin t.running
      <4>1. u.processed = t.processed /\ (r \in s.running => r \in U(k - 1))
        BY <2>2, <2>4, <3>3
      <4> QED BY <4>1, <2>1, <2>2 DEF r
    <3> QED BY <3>2, <3>3
  <2>6. u.running = s.running \ U(k) /\ Range(u.waiting) = Range(s.waiting) \cup (U(k) \cap s.running)
    BY <2>1, <2>2, <2>4 DEF r
  <2> QED BY <2>1, <2>4, <2>5, <2>6 DEF u
<1>10. n \in G
  <2>1. 0..n \subseteq G
    <3> HIDE DEF G, n
    <3> QED BY <1>1, <1>8, <1>9, IntervalInduction
  <2>2. n \in 0..n
    BY <1>1
  <2> HIDE DEF G, n
  <2> QED BY <2>1, <2>2
<1>11. U(n) = Range(rids)
  BY LenProperties DEF Range
<1> HIDE DEF U
<1> QED BY <1>6, <1>10, <1>11

(* An even split gives no part more than the whole.                         *)
LEMMA QuotientIs ==
  ASSUME NEW w \in Nat, NEW n \in Nat \ {0}
  PROVE  w \div n \in Nat /\ w % n \in Nat /\ (w \div n) + (w % n) <= w
<1>1. w \div n \in Nat /\ w % n \in Nat /\ w = n * (w \div n) + (w % n)
  OBVIOUS
<1>2. \A d \in Nat : d <= n * d
  <2>1. PICK k \in Nat : n = k + 1
    <3>1. n - 1 \in Nat /\ n = (n - 1) + 1
      OBVIOUS
    <3> QED BY <3>1
  <2> QED BY <2>1
<1> QED BY <1>1, <1>2

(* The share of a PREFILL output is a number of the step's tokens, all of   *)
(* them when there is no other.                                            *)
LEMMA ChunkIs ==
  ASSUME NEW m \in StepOutputs, NEW k \in 1..Len(m.outputs), m.outputs[k].state = "PREFILL"
  PROVE  /\ ChunkOf(m, k) \in Nat /\ ChunkOf(m, k) <= m.prefill_tokens
         /\ PrefillOutputs(m, Len(m.outputs)) = {k} => ChunkOf(m, k) = m.prefill_tokens
<1> DEFINE all == PrefillOutputs(m, Len(m.outputs))
           upto == PrefillOutputs(m, k)
           n == Cardinality(all)
           c == Cardinality(upto)
           w == m.prefill_tokens
<1>1. w \in Nat /\ Len(m.outputs) \in Nat
  BY LenProperties DEF StepOutputs
<1>2. k \in all /\ all \subseteq 1..Len(m.outputs) /\ upto \subseteq 1..k /\ k \in upto /\ upto \subseteq all
  BY <1>1 DEF PrefillOutputs
<1>3. IsFiniteSet(all) /\ IsFiniteSet(upto)
  <2>1. PICK l \in Nat : l = Len(m.outputs)
    BY <1>1
  <2>2. IsFiniteSet(1..l)
    BY IntervalFinite
  <2> HIDE DEF all, upto
  <2> QED BY <1>2, <2>1, <2>2, FS_Subset
<1>4. n \in Nat /\ n # 0 /\ c \in Nat /\ c # 0
  <2> HIDE DEF all, upto
  <2> QED BY <1>2, <1>3, FS_CardinalityType, FS_EmptySet
<1>5. ChunkOf(m, k) = w \div n + (IF c <= w % n THEN 1 ELSE 0)
  BY DEF ChunkOf
<1>6. ASSUME all = {k} PROVE n = 1 /\ upto = {k}
  <2> HIDE DEF all, upto
  <2>1. upto = {k}
    BY <1>2, <1>6
  <2>2. Cardinality({k}) = 1
    BY FS_Singleton
  <2> QED BY <1>6, <2>1, <2>2
<1> HIDE DEF all, upto, n, c, w
<1>7. w \div n \in Nat /\ w % n \in Nat /\ (w \div n) + (w % n) <= w
  BY <1>1, <1>4, QuotientIs
<1>8. n = 1 => w \div n = w /\ w % n = 0
  BY <1>1
<1>9. ChunkOf(m, k) \in Nat /\ ChunkOf(m, k) <= w
  BY <1>1, <1>4, <1>5, <1>7
<1>10. ASSUME all = {k} PROVE ChunkOf(m, k) = w
  BY <1>1, <1>4, <1>5, <1>6, <1>8, <1>10
<1> QED BY <1>9, <1>10 DEF all, w

LEMMA OutputType ==
  ASSUME NEW m \in StepOutputs, NEW k \in 1..Len(m.outputs)
  PROVE  /\ m.outputs[k] \in Outputs /\ m.outputs[k].rid \in Req /\ m.outputs[k].prev \in Nat
         /\ m.outputs[k].state \in {"PREFILL", "DECODE"} /\ m.outputs[k].finished \in BOOLEAN
<1>1. m.outputs[k] \in Outputs
  BY LenProperties DEF StepOutputs
<1> QED BY <1>1 DEF Outputs

LEMMA ProgressType ==
  ASSUME NEW s \in Scheds, NEW m \in StepOutputs, NEW k \in 1..Len(m.outputs)
  PROVE  ProgressAfter(s, m, k) \in Nat
<1> DEFINE o == m.outputs[k]
           end == o.prev + ChunkOf(m, k)
           all == IF InputLength[o.rid] = 0 THEN 1 ELSE InputLength[o.rid]
<1>1. o.rid \in Req /\ o.prev \in Nat /\ InputLength[o.rid] \in Nat /\ s.processed[o.rid] \in Nat
  BY OutputType, ReqAssumption DEF Scheds
<1>2. ProgressAfter(s, m, k) = IF o.state = "PREFILL" THEN (IF end < all THEN end ELSE all)
                               ELSE (IF o.rid \in s.running THEN s.processed[o.rid] ELSE InputLength[o.rid]) + 1
  BY DEF ProgressAfter
<1>3. CASE o.state = "PREFILL"
  <2>1. ChunkOf(m, k) \in Nat
    BY <1>3, ChunkIs
  <2>2. end \in Nat /\ all \in Nat
    BY <1>1, <2>1
  <2> HIDE DEF end, all, o
  <2> QED BY <1>2, <1>3, <2>2
<1>4. CASE o.state # "PREFILL"
  <2> HIDE DEF o
  <2> QED BY <1>1, <1>2, <1>4
<1> QED BY <1>3, <1>4

(* t is s with output k of m absorbed. *)
Absorbed(s, m, k, t) ==
  LET r == m.outputs[k].rid
      finished == m.outputs[k].finished
  IN /\ t.running = IF finished THEN s.running \ {r} ELSE s.running \cup ({r} \cap Range(s.waiting))
     /\ Range(t.waiting) = IF finished \/ r \notin s.running THEN Range(s.waiting) \ {r} ELSE Range(s.waiting)
     /\ \A q \in Req : q # r => t.processed[q] = s.processed[q]
     /\ finished => t.processed[r] = 0
     /\ ~finished /\ r \in InFlight(s) => t.processed[r] = ProgressAfter(s, m, k)

LEMMA SyncOutputIs ==
  ASSUME NEW s \in Scheds, NEW m \in StepOutputs, NEW k \in 1..Len(m.outputs)
  PROVE  SyncOutput(s, m, k) \in Scheds /\ Absorbed(s, m, k, SyncOutput(s, m, k))
<1> DEFINE r == m.outputs[k].rid
           finished == m.outputs[k].finished
           t == IF r \in s.running THEN s ELSE PromoteToRunning(s, r)
           p == ProgressAfter(s, m, k)
           u == IF r \in t.running THEN [t EXCEPT !.processed[r] = p] ELSE t
           v == SyncOutput(s, m, k)
<1>1. r \in Req /\ p \in Nat /\ finished \in BOOLEAN
  BY OutputType, ProgressType
<1>2. v = IF finished THEN DropRequest(u, r) ELSE u
  BY DEF SyncOutput
<1>3. /\ t \in Scheds /\ t.processed = s.processed
      /\ t.running = s.running \cup ({r} \cap Range(s.waiting) \cap (IF r \in s.running THEN {} ELSE {r}))
      /\ Range(t.waiting) = IF r \in s.running THEN Range(s.waiting) ELSE Range(s.waiting) \ {r}
  <2>1. CASE r \in s.running
    BY <2>1
  <2>2. CASE r \notin s.running
    <3>1. t = PromoteToRunning(s, r)
      BY <2>2
    <3> HIDE DEF t, r
    <3> QED BY <1>1, <2>2, <3>1, PromoteIs
  <2> QED BY <2>1, <2>2
<1> HIDE DEF t, p
<1>4. /\ u \in Scheds /\ u.running = t.running /\ u.waiting = t.waiting
      /\ u.processed = IF r \in t.running THEN [s.processed EXCEPT ![r] = p] ELSE s.processed
  BY <1>1, <1>3 DEF Scheds
<1>5. /\ u.processed \in [Req -> Nat] /\ s.processed \in [Req -> Nat]
      /\ \A q \in Req : q # r => u.processed[q] = s.processed[q]
      /\ r \in t.running => u.processed[r] = p
  BY <1>1, <1>3, <1>4 DEF Scheds
<1> HIDE DEF u
<1>6. CASE finished
  <2>1. /\ v \in Scheds /\ v.running = u.running \ {r} /\ Range(v.waiting) = Range(u.waiting) \ {r}
        /\ v.processed = [u.processed EXCEPT ![r] = 0]
    <3>1. v = DropRequest(u, r) /\ u \in Scheds /\ r \in Req
      BY <1>1, <1>2, <1>4, <1>6
    <3> HIDE DEF v, r, finished
    <3> QED BY <3>1, DropIs
  <2> HIDE DEF v
  <2> QED BY <1>1, <1>3, <1>4, <1>5, <1>6, <2>1 DEF v, Absorbed
<1>7. CASE ~finished
  <2>1. v = u
    BY <1>2, <1>7
  <2> QED BY <1>1, <1>3, <1>4, <1>5, <1>7, <2>1 DEF InFlight, p, Absorbed
<1> QED BY <1>1, <1>6, <1>7

(* The outputs are absorbed one after the other. *)
LEMMA SyncOutputsUnfold ==
  ASSUME NEW s \in Scheds, NEW m \in StepOutputs
  PROVE  \E g \in [0..Len(m.outputs) -> Scheds] :
            /\ g[0] = s
            /\ \A k \in 1..Len(m.outputs) : g[k] = SyncOutput(g[k - 1], m, k)
            /\ SyncOutputs(s, m) = g[Len(m.outputs)]
<1> DEFINE n == Len(m.outputs)
           F == [x \in (1..n) \X Scheds |-> SyncOutput(x[2], m, x[1])]
           after == CHOOSE f : f = [k \in 0..n |-> IF k = 0 THEN s ELSE SyncOutput(f[k - 1], m, k)]
<1>1. n \in Nat
  BY LenProperties DEF StepOutputs
<1>2. F \in [(1..n) \X Scheds -> Scheds]
  BY SyncOutputIs
<1>3. PICK g \in [0..n -> Scheds] : Iterates(g, F, s, n)
  <2> HIDE DEF F, n
  <2> QED BY <1>1, <1>2, Iteration
<1>4. ASSUME NEW k \in 1..n PROVE g[k - 1] \in Scheds /\ g[k] = SyncOutput(g[k - 1], m, k) /\ k # 0
  <2>1. k - 1 \in 0..n /\ k # 0
    BY <1>1
  <2>2. g[k - 1] \in Scheds
    BY <2>1
  <2>3. g[k] = F[<<k, g[k - 1]>>]
    <3> HIDE DEF F, n
    <3> QED BY <1>3 DEF Iterates
  <2> QED BY <2>1, <2>2, <2>3
<1>5. g = [k \in 0..n |-> IF k = 0 THEN s ELSE SyncOutput(g[k - 1], m, k)]
  <2> DEFINE h == [k \in 0..n |-> IF k = 0 THEN s ELSE SyncOutput(g[k - 1], m, k)]
  <2>1. ASSUME NEW k \in 0..n PROVE g[k] = h[k]
    <3>1. k = 0 \/ k \in 1..n
      BY <1>1
    <3>2. g[0] = s
      BY <1>3 DEF Iterates
    <3> QED BY <1>4, <3>1, <3>2
  <2>2. g = [k \in 0..n |-> g[k]]
    OBVIOUS
  <2> QED BY <2>1, <2>2
<1>6. after = [k \in 0..n |-> IF k = 0 THEN s ELSE SyncOutput(after[k - 1], m, k)]
  BY <1>5
<1>7. SyncOutputs(s, m) = after[n]
  BY DEF SyncOutputs
<1> HIDE DEF after
<1>8. after[0] = s /\ \A k \in 1..n : after[k] = SyncOutput(after[k - 1], m, k)
  <2>1. 0 \in 0..n /\ \A k \in 1..n : k \in 0..n /\ k # 0
    BY <1>1
  <2> HIDE DEF n
  <2> QED BY <1>6, <2>1
<1>9. after \in [0..n -> Scheds]
  <2>1. ASSUME NEW k \in 1..n, after[k - 1] \in Scheds PROVE after[k] \in Scheds
    <3> DEFINE t == after[k - 1]
    <3>1. after[k] = SyncOutput(t, m, k) /\ t \in Scheds
      BY <1>8, <2>1
    <3> HIDE DEF t
    <3> QED BY <3>1, SyncOutputIs
  <2> DEFINE G == {k \in 0..n : after[k] \in Scheds}
  <2>2. 0 \in G /\ \A k \in 1..n : k - 1 \in G => k \in G
    BY <1>1, <1>8, <2>1
  <2>3. 0..n \subseteq G
    <3> HIDE DEF G, n
    <3> QED BY <1>1, <2>2, IntervalInduction
  <2> QED BY <1>6, <2>3
<1> QED BY <1>7, <1>8, <1>9

(* Of the requests in flight, the finished ones go. *)
LEMMA SyncOutputsInFlight ==
  ASSUME NEW s \in Scheds, NEW m \in StepOutputs
  PROVE  /\ SyncOutputs(s, m) \in Scheds
         /\ InFlight(SyncOutputs(s, m)) = InFlight(s) \ FinishedIn(m)
<1> DEFINE n == Len(m.outputs)
           Fin(k) == {m.outputs[j].rid : j \in {i \in 1..k : m.outputs[i].finished}}
<1>1. PICK g \in [0..n -> Scheds] : /\ g[0] = s
                                    /\ \A k \in 1..n : g[k] = SyncOutput(g[k - 1], m, k)
                                    /\ SyncOutputs(s, m) = g[n]
  BY SyncOutputsUnfold
<1>2. n \in Nat
  BY LenProperties DEF StepOutputs
<1> DEFINE G == {k \in 0..n : InFlight(g[k]) = InFlight(s) \ Fin(k)}
<1>3. 0 \in G
  <2>1. Fin(0) = {} /\ 0 \in 0..n
    BY <1>2
  <2> HIDE DEF Fin
  <2> QED BY <1>1, <2>1
<1>4. ASSUME NEW k \in 1..n, k - 1 \in G PROVE k \in G
  <2> DEFINE r == m.outputs[k].rid
             finished == m.outputs[k].finished
             t == g[k - 1]
             u == g[k]
  <2>1. t \in Scheds /\ u = SyncOutput(t, m, k) /\ k \in 0..n /\ InFlight(t) = InFlight(s) \ Fin(k - 1)
    BY <1>1, <1>2, <1>4
  <2>2. Fin(k) = IF finished THEN Fin(k - 1) \cup {r} ELSE Fin(k - 1)
    <3>1. \A j \in 1..k : j = k \/ j \in 1..(k - 1)
      BY <1>2
    <3>2. k \in 1..k /\ \A j \in 1..(k - 1) : j \in 1..k
      BY <1>2
    <3> QED BY <3>1, <3>2
  <2>3. finished \in BOOLEAN
    BY OutputType
  <2> HIDE DEF t, u, Fin
  <2>4. /\ u.running = IF finished THEN t.running \ {r} ELSE t.running \cup ({r} \cap Range(t.waiting))
        /\ Range(u.waiting) = IF finished \/ r \notin t.running THEN Range(t.waiting) \ {r} ELSE Range(t.waiting)
    <3>1. Absorbed(t, m, k, u)
      BY <2>1, SyncOutputIs
    <3> QED BY <3>1 DEF Absorbed
  <2> HIDE DEF r, finished
  <2>5. InFlight(u) = IF finished THEN InFlight(t) \ {r} ELSE InFlight(t)
    BY <2>3, <2>4 DEF InFlight
  <2> QED BY <2>1, <2>2, <2>3, <2>5 DEF u
<1>5. n \in G
  <2>1. 0..n \subseteq G
    <3> HIDE DEF G, n
    <3> QED BY <1>2, <1>3, <1>4, IntervalInduction
  <2>2. n \in 0..n
    BY <1>2
  <2> HIDE DEF G, n
  <2> QED BY <2>1, <2>2
<1>6. Fin(n) = FinishedIn(m)
  <2>1. DOMAIN m.outputs = 1..n
    BY LenProperties DEF StepOutputs
  <2> QED BY <2>1 DEF FinishedIn, Range
<1>7. g[n] \in Scheds
  BY <1>2
<1> HIDE DEF Fin
<1> QED BY <1>1, <1>5, <1>6, <1>7

(* What sync absorbs exactly: outputs of distinct requests in flight. *)
Distinct(m) == \A j, k \in 1..Len(m.outputs) : m.outputs[j].rid = m.outputs[k].rid => j = k

LEMMA SyncOutputsExact ==
  ASSUME NEW s \in Scheds, NEW m \in StepOutputs, Distinct(m), s.running \cap Range(s.waiting) = {},
         \A k \in 1..Len(m.outputs) : m.outputs[k].rid \in InFlight(s)
  PROVE  LET t == SyncOutputs(s, m)
             rids == {m.outputs[k].rid : k \in 1..Len(m.outputs)}
         IN /\ t.running = (s.running \cup rids) \ FinishedIn(m)
            /\ Range(t.waiting) = Range(s.waiting) \ rids
            /\ \A q \in Req \ rids : t.processed[q] = s.processed[q]
            /\ \A k \in 1..Len(m.outputs) :
                  t.processed[m.outputs[k].rid] = IF m.outputs[k].finished THEN 0 ELSE ProgressAfter(s, m, k)
<1> DEFINE n == Len(m.outputs)
           rid(k) == m.outputs[k].rid
           R(k) == {rid(j) : j \in 1..k}
           Fin(k) == {rid(j) : j \in {i \in 1..k : m.outputs[i].finished}}
<1>1. PICK g \in [0..n -> Scheds] : /\ g[0] = s
                                    /\ \A k \in 1..n : g[k] = SyncOutput(g[k - 1], m, k)
                                    /\ SyncOutputs(s, m) = g[n]
  BY SyncOutputsUnfold
<1>2. n \in Nat
  BY LenProperties DEF StepOutputs
<1> DEFINE Value(j) == IF m.outputs[j].finished THEN 0 ELSE ProgressAfter(s, m, j)
           G == {k \in 0..n : /\ g[k].running = (s.running \cup R(k)) \ Fin(k)
                              /\ Range(g[k].waiting) = Range(s.waiting) \ R(k)
                              /\ \A q \in Req \ R(k) : g[k].processed[q] = s.processed[q]
                              /\ \A j \in 1..k : g[k].processed[rid(j)] = Value(j)}
<1>3. 0 \in G
  <2>1. Fin(0) = {} /\ R(0) = {} /\ 0 \in 0..n /\ 1..0 = {}
    BY <1>2
  <2> HIDE DEF Fin, R, Value
  <2> QED BY <1>1, <2>1
<1>4. ASSUME NEW k \in 1..n, k - 1 \in G PROVE k \in G
  <2> DEFINE r == rid(k)
             finished == m.outputs[k].finished
             t == g[k - 1]
             u == g[k]
  <2>1. /\ t.running = (s.running \cup R(k - 1)) \ Fin(k - 1)
        /\ Range(t.waiting) = Range(s.waiting) \ R(k - 1)
        /\ \A q \in Req \ R(k - 1) : t.processed[q] = s.processed[q]
        /\ \A j \in 1..(k - 1) : t.processed[rid(j)] = Value(j)
    BY <1>4
  <2>2. t \in Scheds /\ u = SyncOutput(t, m, k) /\ k \in 0..n /\ r \in Req /\ finished \in BOOLEAN
    BY <1>1, <1>2, OutputType
  <2>3. (\A j \in 1..k : j = k \/ j \in 1..(k - 1)) /\ k \in 1..k /\ \A j \in 1..(k - 1) : j \in 1..k
    BY <1>2
  <2>4. /\ R(k) = R(k - 1) \cup {r}
        /\ Fin(k) = IF finished THEN Fin(k - 1) \cup {r} ELSE Fin(k - 1)
    BY <2>3
  <2>5. r \notin R(k - 1) /\ Fin(k - 1) \subseteq R(k - 1)
    <3>1. \A j \in 1..(k - 1) : j \in 1..n /\ j # k
      BY <1>2
    <3> QED BY <3>1 DEF Distinct
  <2>6. \A j \in 1..(k - 1) : rid(j) # r /\ rid(j) \in Req
    <3>1. \A j \in 1..(k - 1) : j \in 1..n /\ j # k
      BY <1>2
    <3> QED BY <3>1, OutputType DEF Distinct
  <2>7. /\ r \in s.running <=> r \in t.running
        /\ r \in Range(s.waiting) <=> r \in Range(t.waiting)
        /\ r \in InFlight(s) /\ r \in InFlight(t) /\ t.processed[r] = s.processed[r]
    <3> HIDE DEF Fin, R, t, r
    <3>1. r \in InFlight(s)
      BY DEF r
    <3> QED BY <3>1, <2>1, <2>2, <2>5 DEF InFlight
  <2>8. ProgressAfter(t, m, k) = ProgressAfter(s, m, k)
    <3> HIDE DEF t
    <3> QED BY <2>7 DEF ProgressAfter
  <2> HIDE DEF u, t, Fin, R
  <2>9. /\ u.running = IF finished THEN t.running \ {r} ELSE t.running \cup ({r} \cap Range(t.waiting))
        /\ Range(u.waiting) = IF finished \/ r \notin t.running THEN Range(t.waiting) \ {r} ELSE Range(t.waiting)
        /\ \A q \in Req : q # r => u.processed[q] = t.processed[q]
        /\ finished => u.processed[r] = 0
        /\ ~finished /\ r \in InFlight(t) => u.processed[r] = ProgressAfter(t, m, k)
    <3>1. Absorbed(t, m, k, u)
      BY <2>2, SyncOutputIs
    <3> QED BY <3>1 DEF Absorbed
  <2> HIDE DEF r, finished
  <2>10. u.running = (s.running \cup R(k)) \ Fin(k)
    BY <2>1, <2>2, <2>4, <2>5, <2>7, <2>9 DEF InFlight
  <2>11. Range(u.waiting) = Range(s.waiting) \ R(k)
    BY <2>1, <2>2, <2>4, <2>5, <2>7, <2>9
  <2>12. \A q \in Req \ R(k) : u.processed[q] = s.processed[q]
    BY <2>1, <2>4, <2>9
  <2>13. u.processed[r] = Value(k)
    BY <2>2, <2>7, <2>8, <2>9 DEF finished
  <2>14. \A j \in 1..k : u.processed[rid(j)] = Value(j)
    <3> SUFFICES ASSUME NEW j \in 1..k PROVE u.processed[rid(j)] = Value(j)
      OBVIOUS
    <3>1. CASE j = k
      BY <3>1, <2>13 DEF r
    <3>2. CASE j \in 1..(k - 1)
      <4> HIDE DEF Value, rid
      <4> QED BY <3>2, <2>1, <2>6, <2>9
    <3> QED BY <3>1, <3>2, <2>3
  <2> HIDE DEF Value, rid
  <2> QED BY <2>2, <2>10, <2>11, <2>12, <2>14 DEF u
<1>5. n \in G
  <2>1. 0..n \subseteq G
    <3> HIDE DEF G, n
    <3> QED BY <1>2, <1>3, <1>4, IntervalInduction
  <2>2. n \in 0..n
    BY <1>2
  <2> HIDE DEF G, n
  <2> QED BY <2>1, <2>2
<1>6. Fin(n) = FinishedIn(m)
  <2>1. DOMAIN m.outputs = 1..n
    BY LenProperties DEF StepOutputs
  <2> QED BY <2>1 DEF FinishedIn, Range
<1> HIDE DEF Fin
<1> QED BY <1>1, <1>5, <1>6

(* A step absorbed: what the engine finished and aborted is no longer in   *)
(* flight, the rest is.                                                    *)
LEMMA SyncInFlight ==
  ASSUME NEW s \in Scheds, NEW m \in StepOutputs
  PROVE  /\ Sync(s, m) \in Scheds
         /\ InFlight(Sync(s, m)) = InFlight(s) \ (FinishedIn(m) \cup Range(m.aborted))
<1> DEFINE t == SyncOutputs(s, m)
           u == PreemptAll(t, m.preempted)
           v == DropAll(u, m.aborted)
<1>1. Sync(s, m) = v /\ m.preempted \in Seq(Req) /\ m.aborted \in Seq(Req)
  BY DEF Sync, StepOutputs
<1>2. t \in Scheds /\ InFlight(t) = InFlight(s) \ FinishedIn(m)
  BY SyncOutputsInFlight
<1> HIDE DEF t
<1>3. /\ u \in Scheds /\ u.running = t.running \ Range(m.preempted)
      /\ Range(u.waiting) = Range(t.waiting) \cup (Range(m.preempted) \cap t.running)
  BY <1>1, <1>2, PreemptAllIs
<1>4. InFlight(u) = InFlight(t)
  BY <1>3 DEF InFlight
<1> HIDE DEF u
<1>5. /\ v \in Scheds /\ v.running = u.running \ Range(m.aborted)
      /\ Range(v.waiting) = Range(u.waiting) \ Range(m.aborted)
  BY <1>1, <1>3, DropAllIs
<1>6. InFlight(v) = InFlight(u) \ Range(m.aborted)
  BY <1>5 DEF InFlight
<1> QED BY <1>1, <1>2, <1>4, <1>5, <1>6

-----------------------------------------------------------------------------
(* The rollout.                                                            *)

LEMMA SortedIs ==
  ASSUME NEW S \in SUBSET Req
  PROVE  Sorted(S) \in Seq(Req) /\ Range(Sorted(S)) = S /\ IsInjective(Sorted(S))
<1> DEFINE n == Cardinality(Req)
           q == [k \in 1..n |-> k]
<1>1. n \in Nat /\ Req = 1..n
  BY ReqAssumption, FS_CardinalityType
<1>2. q \in Seq(Req) /\ Range(q) = Req /\ IsInjective(q)
  BY <1>1 DEF Range, IsInjective
<1>3. Sorted(S) = Only(q, S)
  BY DEF Sorted
<1> HIDE DEF q
<1>4. Only(q, S) \in Seq(Req) /\ Range(Only(q, S)) = Req \cap S /\ IsInjective(Only(q, S))
  BY <1>2, OnlyIs
<1>5. Req \cap S = S
  OBVIOUS
<1> QED BY <1>3, <1>4, <1>5, Zenon

Works == [sched : Scheds, budget : Int, prefill : SUBSET Req, decode : SUBSET Req]

(* What a step may become, from w, while it is filled with requests in I.  *)
Within(w, I) ==
  {x \in Works : /\ InFlight(x.sched) = I /\ x.prefill \subseteq I /\ x.decode = w.decode
                 /\ x.budget <= w.budget /\ (x.budget < 0 => x.budget = w.budget)}

LEMMA TakeChunkWithin ==
  ASSUME NEW I, NEW w \in Works, NEW x \in Within(w, I), NEW r \in I \cap Req
  PROVE  TakeChunk(x, r) \in Within(w, I)
<1> DEFINE s == x.sched
           b == x.budget
           chunk == Least(PrefillRemaining(s, r), b)
           t == [x EXCEPT !.sched.processed[r] = @ + chunk, !.budget = @ - chunk, !.prefill = @ \cup {r}]
<1>1. /\ x \in Works /\ InFlight(s) = I /\ x.prefill \subseteq I /\ x.decode = w.decode
      /\ b <= w.budget /\ (b < 0 => b = w.budget)
  BY DEF Within
<1>2. /\ s \in Scheds /\ b \in Int /\ s.processed \in [Req -> Nat] /\ s.processed[r] \in Nat
      /\ InputLength[r] \in Nat /\ w.budget \in Int
  BY <1>1, ReqAssumption DEF Works, Scheds
<1>3. TakeChunk(x, r) = IF b <= 0 \/ chunk = 0 THEN x ELSE t
  BY DEF TakeChunk
<1>4. CASE b <= 0 \/ chunk = 0
  BY <1>3, <1>4
<1>5. CASE b > 0 /\ chunk # 0
  <2>1. PrefillRemaining(s, r) \in Nat
    BY <1>2 DEF PrefillRemaining, IsPrefilling
  <2>2. chunk \in Nat /\ chunk <= b
    BY <1>2, <1>5, <2>1 DEF Least
  <2> HIDE DEF chunk
  <2>3. t = [x EXCEPT !.sched = [s EXCEPT !.processed = [s.processed EXCEPT ![r] = s.processed[r] + chunk]],
                      !.budget = b - chunk, !.prefill = x.prefill \cup {r}]
    BY <1>1, <1>2 DEF Works, Scheds
  <2> DEFINE u == [s EXCEPT !.processed = [s.processed EXCEPT ![r] = s.processed[r] + chunk]]
  <2>4. u \in Scheds /\ InFlight(u) = InFlight(s)
    <3>1. s.processed[r] + chunk \in Nat
      BY <1>2, <2>2
    <3> QED BY <1>2, <3>1 DEF Scheds, InFlight
  <2> HIDE DEF t, u
  <2>5. /\ t \in Works /\ t.sched = u /\ t.prefill = x.prefill \cup {r} /\ t.decode = x.decode
        /\ t.budget = b - chunk
    <3>1. t = [sched |-> u, budget |-> b - chunk, prefill |-> x.prefill \cup {r}, decode |-> x.decode]
      BY <1>1, <2>3 DEF u, Works
    <3>2. x.prefill \cup {r} \in SUBSET Req /\ x.decode \in SUBSET Req /\ b - chunk \in Int
      BY <1>1, <1>2, <2>2 DEF Works
    <3> HIDE DEF b
    <3> QED BY <2>4, <3>1, <3>2 DEF Works
  <2>6. t.budget <= w.budget /\ t.budget >= 0 /\ t.budget \in Int
    BY <1>1, <1>2, <2>2, <2>5
  <2>7. t \in Within(w, I)
    <3>1. InFlight(t.sched) = I /\ t.prefill \subseteq I /\ t.decode = w.decode
      BY <1>1, <2>4, <2>5
    <3>2. t \in Works /\ ~(t.budget < 0)
      BY <2>5, <2>6
    <3> QED BY <2>6, <3>1, <3>2 DEF Within
  <2> HIDE DEF b, s
  <2> QED BY <1>3, <1>5, <2>7 DEF chunk, b
<1> QED BY <1>2, <1>4, <1>5

LEMMA TakeWaitingWithin ==
  ASSUME NEW I, NEW w \in Works, NEW x \in Within(w, I), NEW r \in I \cap Req
  PROVE  TakeWaiting(x, r) \in Within(w, I)
<1> DEFINE s == x.sched
           y == [x EXCEPT !.sched = PromoteToRunning(s, r)]
<1>1. /\ x \in Works /\ InFlight(s) = I /\ x.prefill \subseteq I /\ x.decode = w.decode
      /\ x.budget <= w.budget /\ (x.budget < 0 => x.budget = w.budget) /\ s \in Scheds
  BY DEF Within, Works
<1>2. PromoteToRunning(s, r) \in Scheds /\ InFlight(PromoteToRunning(s, r)) = I
  <2>1. /\ PromoteToRunning(s, r) \in Scheds
        /\ PromoteToRunning(s, r).running = s.running \cup ({r} \cap Range(s.waiting))
        /\ Range(PromoteToRunning(s, r).waiting) = Range(s.waiting) \ {r}
    BY <1>1, PromoteIs
  <2> QED BY <1>1, <2>1 DEF InFlight
<1>3. y \in Within(w, I)
  <2>1. y \in Works /\ y.sched = PromoteToRunning(s, r) /\ y.prefill = x.prefill /\ y.decode = x.decode
        /\ y.budget = x.budget
    BY <1>1, <1>2 DEF Works
  <2> QED BY <1>1, <1>2, <2>1 DEF Within
<1>4. TakeWaiting(x, r) = IF x.budget <= 0 THEN x ELSE TakeChunk(y, r)
  BY DEF TakeWaiting
<1> HIDE DEF y
<1> QED BY <1>3, <1>4, TakeChunkWithin

(* Requests that are running take their chunks.                              *)
LEMMA TakeChunksWithin ==
  ASSUME NEW I \in SUBSET Req, NEW w \in Works, NEW x \in Within(w, I), NEW q \in Seq(I)
  PROVE  TakeChunks(x, q) \in Within(w, I)
<1> DEFINE n == Len(q)
           V == Within(w, I)
           F == [y \in (1..n) \X V |-> TakeChunk(y[2], q[y[1]])]
           after == CHOOSE f : f = [k \in 0..n |-> IF k = 0 THEN x ELSE TakeChunk(f[k - 1], q[k])]
<1>1. n \in Nat /\ \A k \in 1..n : q[k] \in I \cap Req
  BY LenProperties
<1>2. F \in [(1..n) \X V -> V]
  <2>1. \A y \in (1..n) \X V : y[1] \in 1..n /\ y[2] \in V
    OBVIOUS
  <2>2. \A y \in (1..n) \X V : TakeChunk(y[2], q[y[1]]) \in V
    BY <1>1, <2>1, TakeChunkWithin
  <2> HIDE DEF V, n
  <2> QED BY <2>2
<1>3. PICK g \in [0..n -> V] : Iterates(g, F, x, n)
  <2> HIDE DEF F, n, V
  <2>1. x \in V
    BY DEF V
  <2> QED BY <1>1, <1>2, <2>1, Iteration
<1>4. ASSUME NEW k \in 1..n PROVE g[k - 1] \in V /\ g[k] = TakeChunk(g[k - 1], q[k]) /\ k # 0
  <2>1. k - 1 \in 0..n /\ k # 0
    BY <1>1
  <2> HIDE DEF V
  <2>2. g[k - 1] \in V
    BY <2>1
  <2>3. g[k] = F[<<k, g[k - 1]>>]
    <3> HIDE DEF F, n
    <3> QED BY <1>3 DEF Iterates
  <2> QED BY <2>1, <2>2, <2>3
<1> HIDE DEF F, V
<1>5. g = [k \in 0..n |-> IF k = 0 THEN x ELSE TakeChunk(g[k - 1], q[k])]
  <2> DEFINE h == [k \in 0..n |-> IF k = 0 THEN x ELSE TakeChunk(g[k - 1], q[k])]
  <2>1. ASSUME NEW k \in 0..n PROVE g[k] = h[k]
    <3>1. k = 0 \/ k \in 1..n
      BY <1>1
    <3>2. g[0] = x
      BY <1>3 DEF Iterates
    <3> QED BY <1>4, <3>1, <3>2
  <2>2. g = [k \in 0..n |-> g[k]]
    OBVIOUS
  <2> QED BY <2>1, <2>2
<1>6. after = [k \in 0..n |-> IF k = 0 THEN x ELSE TakeChunk(after[k - 1], q[k])]
  BY <1>5
<1>7. TakeChunks(x, q) = after[n]
  BY DEF TakeChunks
<1> HIDE DEF after
<1>8. after[0] = x /\ g[0] = x /\ \A k \in 1..n : after[k - 1] = g[k - 1] => after[k] = g[k]
  <2>1. 0 \in 0..n /\ \A k \in 1..n : k \in 0..n /\ k # 0
    BY <1>1
  <2>2. g[0] = x
    BY <1>3 DEF Iterates
  <2> HIDE DEF n
  <2> QED BY <1>4, <1>6, <2>1, <2>2
<1>9. after[n] = g[n] /\ g[n] \in V
  <2>1. n \in Nat /\ n \in 0..n
    BY <1>1
  <2> HIDE DEF n
  <2>2. after[0] = g[0] /\ \A k \in 1..n : after[k - 1] = g[k - 1] => after[k] = g[k]
    BY <1>8
  <2>3. after[n] = g[n]
    BY <2>1, <2>2, SameRecursion
  <2> QED BY <2>1, <2>3
<1> QED BY <1>7, <1>9 DEF V

(* Requests that wait are moved to running and take theirs.                 *)
LEMMA TakeWaitingsWithin ==
  ASSUME NEW I \in SUBSET Req, NEW w \in Works, NEW x \in Within(w, I), NEW q \in Seq(I)
  PROVE  TakeWaitings(x, q) \in Within(w, I)
<1> DEFINE n == Len(q)
           V == Within(w, I)
           F == [y \in (1..n) \X V |-> TakeWaiting(y[2], q[y[1]])]
           after == CHOOSE f : f = [k \in 0..n |-> IF k = 0 THEN x ELSE TakeWaiting(f[k - 1], q[k])]
<1>1. n \in Nat /\ \A k \in 1..n : q[k] \in I \cap Req
  BY LenProperties
<1>2. F \in [(1..n) \X V -> V]
  <2>1. \A y \in (1..n) \X V : y[1] \in 1..n /\ y[2] \in V
    OBVIOUS
  <2>2. \A y \in (1..n) \X V : TakeWaiting(y[2], q[y[1]]) \in V
    BY <1>1, <2>1, TakeWaitingWithin
  <2> HIDE DEF V, n
  <2> QED BY <2>2
<1>3. PICK g \in [0..n -> V] : Iterates(g, F, x, n)
  <2> HIDE DEF F, n, V
  <2>1. x \in V
    BY DEF V
  <2> QED BY <1>1, <1>2, <2>1, Iteration
<1>4. ASSUME NEW k \in 1..n PROVE g[k - 1] \in V /\ g[k] = TakeWaiting(g[k - 1], q[k]) /\ k # 0
  <2>1. k - 1 \in 0..n /\ k # 0
    BY <1>1
  <2> HIDE DEF V
  <2>2. g[k - 1] \in V
    BY <2>1
  <2>3. g[k] = F[<<k, g[k - 1]>>]
    <3> HIDE DEF F, n
    <3> QED BY <1>3 DEF Iterates
  <2> QED BY <2>1, <2>2, <2>3
<1> HIDE DEF F, V
<1>5. g = [k \in 0..n |-> IF k = 0 THEN x ELSE TakeWaiting(g[k - 1], q[k])]
  <2> DEFINE h == [k \in 0..n |-> IF k = 0 THEN x ELSE TakeWaiting(g[k - 1], q[k])]
  <2>1. ASSUME NEW k \in 0..n PROVE g[k] = h[k]
    <3>1. k = 0 \/ k \in 1..n
      BY <1>1
    <3>2. g[0] = x
      BY <1>3 DEF Iterates
    <3> QED BY <1>4, <3>1, <3>2
  <2>2. g = [k \in 0..n |-> g[k]]
    OBVIOUS
  <2> QED BY <2>1, <2>2
<1>6. after = [k \in 0..n |-> IF k = 0 THEN x ELSE TakeWaiting(after[k - 1], q[k])]
  BY <1>5
<1>7. TakeWaitings(x, q) = after[n]
  BY DEF TakeWaitings
<1> HIDE DEF after
<1>8. after[0] = x /\ g[0] = x /\ \A k \in 1..n : after[k - 1] = g[k - 1] => after[k] = g[k]
  <2>1. 0 \in 0..n /\ \A k \in 1..n : k \in 0..n /\ k # 0
    BY <1>1
  <2>2. g[0] = x
    BY <1>3 DEF Iterates
  <2> HIDE DEF n
  <2> QED BY <1>4, <1>6, <2>1, <2>2
<1>9. after[n] = g[n] /\ g[n] \in V
  <2>1. n \in Nat /\ n \in 0..n
    BY <1>1
  <2> HIDE DEF n
  <2>2. after[0] = g[0] /\ \A k \in 1..n : after[k - 1] = g[k - 1] => after[k] = g[k]
    BY <1>8
  <2>3. after[n] = g[n]
    BY <2>1, <2>2, SameRecursion
  <2> QED BY <2>1, <2>3
<1> QED BY <1>7, <1>9 DEF V

(* The next step is made of requests in flight, and of nothing more than    *)
(* the budget; it leaves the same requests in flight.                      *)
LEMMA WorkIs ==
  ASSUME NEW s \in Scheds
  PROVE  LET w == Work(s)
         IN /\ w \in Works /\ InFlight(w.sched) = InFlight(s)
            /\ w.prefill \cup w.decode \subseteq InFlight(s)
            /\ Batch(w) \in Batches
<1> DEFINE decode == {r \in s.running : ~IsPrefilling(s, r)}
           I == InFlight(s)
           d == Cardinality(decode)
           start == [sched |-> s, budget |-> TokenBudget - d, prefill |-> {}, decode |-> decode]
           q == Sorted(s.running \ decode)
           x == TakeChunks(start, q)
           w == TakeWaitings(x, s.waiting)
<1>1. Work(s) = w
  BY DEF Work
<1>2. /\ decode \subseteq s.running /\ s.running \subseteq Req /\ s.waiting \in Seq(Req)
      /\ Range(s.waiting) \subseteq Req /\ I \in SUBSET Req
  <2>1. s.running \subseteq Req /\ s.waiting \in Seq(Req)
    BY DEF Scheds
  <2> QED BY <2>1, RangeBasics DEF InFlight
<1>3. d \in 0..Cardinality(Req) /\ Cardinality(Req) \in Nat /\ TokenBudget \in Nat
  BY <1>2, ReqAssumption, RolloutAssumption, FS_Subset, FS_CardinalityType
<1> HIDE DEF decode, d
<1>4. start \in Works
  BY <1>2, <1>3 DEF Works
<1>5. start \in Within(start, I)
  <2>1. start.sched = s /\ start.prefill = {}
    OBVIOUS
  <2> HIDE DEF start
  <2>2. start.budget \in Int
    BY <1>4 DEF Works
  <2> QED BY <1>4, <2>1, <2>2 DEF Within
<1>6. q \in Seq(I) /\ s.waiting \in Seq(I)
  <2>1. \A A, B, p : p \in Seq(A) /\ Range(p) \subseteq B => p \in Seq(B)
    BY LenProperties DEF Range
  <2>2. q \in Seq(Req) /\ Range(q) \subseteq I
    BY <1>2, SortedIs DEF InFlight
  <2>3. Range(s.waiting) \subseteq I
    BY DEF InFlight
  <2> HIDE DEF q, I
  <2> QED BY <1>2, <2>1, <2>2, <2>3
<1> HIDE DEF start, q, I
<1>7. x \in Within(start, I)
  BY <1>2, <1>4, <1>5, <1>6, TakeChunksWithin
<1> HIDE DEF x
<1>8. w \in Within(start, I)
  BY <1>2, <1>4, <1>6, <1>7, TakeWaitingsWithin
<1> HIDE DEF w
<1>9. /\ w \in Works /\ InFlight(w.sched) = I /\ w.prefill \subseteq I /\ w.decode = decode
      /\ w.budget <= TokenBudget - d /\ (w.budget < 0 => w.budget = TokenBudget - d)
  BY <1>8 DEF Within, start
<1>10. w.prefill \cup w.decode \subseteq I
  BY <1>2, <1>9 DEF I, InFlight
<1>11. Batch(w) \in Batches
  <2> DEFINE p == Cardinality(w.prefill)
             used == TokenBudget - w.budget
             tokens == 0..(TokenBudget + Cardinality(Req))
  <2>1. w.budget \in Int /\ Cardinality(w.decode) = d
    BY <1>9 DEF d, Works
  <2>2. p \in 0..Cardinality(Req)
    BY <1>2, <1>9, ReqAssumption, FS_Subset, FS_CardinalityType
  <2>3. used \in tokens
    BY <1>3, <1>9, <2>1
  <2>4. p + d \in 0..(2 * Cardinality(Req))
    BY <1>3, <2>2
  <2>5. (used - d) + d = used
    BY <1>3, <2>1
  <2>6. Batch(w) = [num_tokens |-> (used - d) + d, num_tokens_rounded |-> RoundUp((used - d) + d), size |-> p + d]
    BY <2>1 DEF Batch
  <2> HIDE DEF used, p
  <2>7. Batch(w) = [num_tokens |-> used, num_tokens_rounded |-> RoundUp(used), size |-> p + d]
    BY <2>5, <2>6
  <2>8. RoundUp(used) \in {RoundUp(n) : n \in tokens}
    BY <2>3
  <2> HIDE DEF tokens
  <2> QED BY <2>3, <2>4, <2>7, <2>8 DEF Batches, tokens
<1> QED BY <1>1, <1>9, <1>10, <1>11 DEF I

Slots == [prefill : SUBSET Req, decode : SUBSET Req, lat : Nat]

Markers == Nat \cup {NoStep}

Buffers == [slots : Seq(Slots), prefill_begin : Markers, prefill_end : Markers, in_decode : Markers]

Rounds == [buffer : Buffers, sched : Scheds, done : BOOLEAN]

(* A buffer that begins with the slots of b, the others made of requests   *)
(* in I, beside a snapshot with these in flight.                           *)
Grown(b, I) ==
  {y \in Rounds : LET p == b.slots
                      q == y.buffer.slots
                  IN /\ InFlight(y.sched) = I /\ Len(p) <= Len(q)
                     /\ \A k \in 1..Len(p) : q[k] = p[k]
                     /\ \A k \in (Len(p) + 1)..Len(q) : q[k].prefill \cup q[k].decode \subseteq I}

LEMMA OneSlotGrown ==
  ASSUME NEW b \in Buffers, NEW I, NEW x \in Grown(b, I), NEW cand \in Req
  PROVE  OneSlot(x, cand) \in Grown(b, I)
<1> DEFINE w == Work(x.sched)
           q == x.buffer.slots
           at == Len(q)
           slot == [prefill |-> w.prefill, decode |-> w.decode, lat |-> Predict(Batch(w))]
           m == MarkCandidate(x.buffer, w, cand, at)
           c == [m EXCEPT !.slots = Append(@, slot)]
           y == [x EXCEPT !.sched = w.sched, !.done = TRUE]
           z == [buffer |-> c, sched |-> w.sched, done |-> c.in_decode # NoStep]
           p == b.slots
<1>1. /\ x \in Rounds /\ InFlight(x.sched) = I /\ Len(p) <= at /\ \A k \in 1..Len(p) : q[k] = p[k]
      /\ \A k \in (Len(p) + 1)..at : q[k].prefill \cup q[k].decode \subseteq I
  BY DEF Grown
<1>2. /\ x.buffer \in Buffers /\ x.sched \in Scheds /\ q \in Seq(Slots) /\ at \in Nat
      /\ p \in Seq(Slots) /\ Len(p) \in Nat
  BY <1>1, LenProperties DEF Rounds, Buffers
<1>3. /\ w \in Works /\ InFlight(w.sched) = I /\ w.prefill \cup w.decode \subseteq I
      /\ Predict(Batch(w)) \in Nat
  BY <1>1, <1>2, WorkIs, RolloutAssumption
<1>4. OneSlot(x, cand) = IF x.done \/ at >= MaxSlots THEN x
                         ELSE IF w.prefill \cup w.decode = {} THEN y ELSE z
  BY DEF OneSlot
<1> HIDE DEF w
<1>5. slot \in Slots /\ w.sched \in Scheds /\ slot.prefill \cup slot.decode \subseteq I
  BY <1>3 DEF Works, Slots
<1> HIDE DEF slot
<1>6. m \in Buffers /\ m.slots = q
  BY <1>2 DEF MarkCandidate, Buffers, Markers
<1> HIDE DEF m
<1>7. /\ c \in Buffers /\ c.slots = Append(q, slot) /\ Len(Append(q, slot)) = at + 1
      /\ Append(q, slot)[at + 1] = slot /\ \A k \in 1..at : Append(q, slot)[k] = q[k]
  <2>1. /\ Append(q, slot) \in Seq(Slots) /\ Len(Append(q, slot)) = at + 1
        /\ Append(q, slot)[at + 1] = slot /\ \A k \in 1..at : Append(q, slot)[k] = q[k]
    BY <1>2, <1>5, AppendProperties
  <2>2. c = [m EXCEPT !.slots = Append(q, slot)]
    BY <1>6
  <2> QED BY <1>6, <2>1, <2>2 DEF Buffers
<1> HIDE DEF c
<1>8. y \in Grown(b, I)
  <2>1. y \in Rounds /\ y.buffer = x.buffer /\ y.sched = w.sched
    BY <1>1, <1>2, <1>5 DEF Rounds
  <2> HIDE DEF y, p
  <2> QED BY <1>1, <1>3, <2>1 DEF Grown, p
<1>9. z \in Grown(b, I)
  <2>1. z \in Rounds /\ z.buffer.slots = Append(q, slot) /\ z.sched = w.sched
    BY <1>5, <1>7 DEF Rounds
  <2> DEFINE r == z.buffer.slots
  <2>2. Len(r) = at + 1 /\ Len(p) <= Len(r) /\ \A k \in 1..Len(p) : r[k] = p[k]
    <3>1. \A k \in 1..Len(p) : k \in 1..at
      BY <1>1, <1>2
    <3> HIDE DEF z, q, p, at
    <3> QED BY <1>1, <1>2, <1>7, <2>1, <3>1
  <2>3. ASSUME NEW k \in (Len(p) + 1)..Len(r) PROVE r[k].prefill \cup r[k].decode \subseteq I
    <3>1. k = at + 1 \/ (k \in 1..at /\ k \in (Len(p) + 1)..at)
      BY <1>2, <2>2
    <3> HIDE DEF z, q, p, at
    <3> QED BY <1>1, <1>5, <1>7, <2>1, <3>1
  <2> HIDE DEF z, p
  <2> QED BY <1>3, <2>1, <2>2, <2>3 DEF Grown, p
<1> HIDE DEF y, z
<1> QED BY <1>4, <1>8, <1>9

(* The rounds of the schedule loop.                                         *)
LEMMA ScheduleLoopGrown ==
  ASSUME NEW b \in Buffers, NEW s \in Scheds, NEW cand \in Req
  PROVE  /\ ScheduleLoop(b, s, cand) \in Rounds
         /\ ScheduleLoop(b, s, cand) \in Grown(b, InFlight(s))
<1> DEFINE n == MaxSlots
           V == Grown(b, InFlight(s))
           x == [buffer |-> b, sched |-> s, done |-> FALSE]
           F == [y \in (1..n) \X V |-> OneSlot(y[2], cand)]
           after == CHOOSE f : f = [k \in 0..n |-> IF k = 0 THEN x ELSE OneSlot(f[k - 1], cand)]
<1>1. n \in Nat
  BY RolloutAssumption
<1>0. x \in V
  <2>1. x \in Rounds /\ x.buffer = b /\ x.sched = s
    BY DEF Rounds
  <2>2. Len(b.slots) \in Nat
    BY LenProperties DEF Buffers
  <2> HIDE DEF x
  <2> QED BY <2>1, <2>2 DEF Grown
<1>2. F \in [(1..n) \X V -> V]
  <2>1. \A y \in (1..n) \X V : y[1] \in 1..n /\ y[2] \in V
    OBVIOUS
  <2>2. \A y \in (1..n) \X V : OneSlot(y[2], cand) \in V
    BY <1>1, <2>1, OneSlotGrown
  <2> HIDE DEF V, n
  <2> QED BY <2>2
<1>3. PICK g \in [0..n -> V] : Iterates(g, F, x, n)
  <2> HIDE DEF F, n, V, x
  <2> QED BY <1>0, <1>1, <1>2, Iteration
<1>4. ASSUME NEW k \in 1..n PROVE g[k - 1] \in V /\ g[k] = OneSlot(g[k - 1], cand) /\ k # 0
  <2>1. k - 1 \in 0..n /\ k # 0
    BY <1>1
  <2> HIDE DEF V
  <2>2. g[k - 1] \in V
    BY <2>1
  <2>3. g[k] = F[<<k, g[k - 1]>>]
    <3> HIDE DEF F, n
    <3> QED BY <1>3 DEF Iterates
  <2> QED BY <2>1, <2>2, <2>3
<1> HIDE DEF F, V, x
<1>5. g = [k \in 0..n |-> IF k = 0 THEN x ELSE OneSlot(g[k - 1], cand)]
  <2> DEFINE h == [k \in 0..n |-> IF k = 0 THEN x ELSE OneSlot(g[k - 1], cand)]
  <2>1. ASSUME NEW k \in 0..n PROVE g[k] = h[k]
    <3>1. k = 0 \/ k \in 1..n
      BY <1>1
    <3>2. g[0] = x
      BY <1>3 DEF Iterates
    <3> QED BY <1>4, <3>1, <3>2
  <2>2. g = [k \in 0..n |-> g[k]]
    OBVIOUS
  <2> QED BY <2>1, <2>2
<1>6. after = [k \in 0..n |-> IF k = 0 THEN x ELSE OneSlot(after[k - 1], cand)]
  BY <1>5
<1>7. ScheduleLoop(b, s, cand) = after[n]
  BY DEF ScheduleLoop, x
<1> HIDE DEF after
<1>8. after[0] = x /\ g[0] = x /\ \A k \in 1..n : after[k - 1] = g[k - 1] => after[k] = g[k]
  <2>1. 0 \in 0..n /\ \A k \in 1..n : k \in 0..n /\ k # 0
    BY <1>1
  <2>2. g[0] = x
    BY <1>3 DEF Iterates
  <2> HIDE DEF n
  <2> QED BY <1>4, <1>6, <2>1, <2>2
<1>9. after[n] = g[n] /\ g[n] \in V
  <2>1. n \in Nat /\ n \in 0..n
    BY <1>1
  <2> HIDE DEF n
  <2>2. after[0] = g[0] /\ \A k \in 1..n : after[k - 1] = g[k - 1] => after[k] = g[k]
    BY <1>8
  <2>3. after[n] = g[n]
    BY <2>1, <2>2, SameRecursion
  <2> QED BY <2>1, <2>3
<1> QED BY <1>7, <1>9 DEF V, Grown

-----------------------------------------------------------------------------
(* A step of an engine.                                                    *)

Engines == [waiting : SUBSET Req, running : SUBSET Req, done : [Req -> Nat], decoded : [Req -> Nat],
            preempted : SUBSET Req, refused : SUBSET Req, shared : SUBSET Req]

(* A request waits, runs or was refused, and has progress only while it    *)
(* runs.                                                                   *)
EngineOk(e) ==
  /\ e.waiting \cap e.running = {} /\ e.refused \cap (e.waiting \cup e.running) = {}
  /\ e.shared \subseteq e.running
  /\ \A r \in Req \ e.running : e.done[r] = 0

Rids(m) == {m.outputs[k].rid : k \in 1..Len(m.outputs)}

(* What step m does to queues that were v and are f after it.              *)
Moved(v, m, f) ==
  LET pre == Range(m.preempted)
      abo == Range(m.aborted)
  IN /\ Distinct(m) /\ Rids(m) \subseteq v.running \cup v.waiting
     /\ pre \subseteq v.running \ Rids(m) /\ abo \subseteq (v.running \cup v.waiting) \ Rids(m)
     /\ pre \cap abo = {}
     /\ f.running = (v.running \cup Rids(m)) \ (FinishedIn(m) \cup pre \cup abo)
     /\ f.waiting = (v.waiting \ (Rids(m) \cup abo)) \cup pre

(* What step m says of an engine that was e and is f after it: the split   *)
(* of its tokens is right for a request that had the step to itself, and   *)
(* close for the others.                                                   *)
Stepped(e, m, f) ==
  /\ Moved(e, m, f) /\ f.refused = e.refused
  /\ \A r \in f.running \cup f.waiting : r \notin Rids(m) =>
        /\ r \in Range(m.preempted) => f.done[r] = 0
        /\ r \notin Range(m.preempted) => f.done[r] = e.done[r] /\ (r \in f.shared <=> r \in e.shared)
  /\ \A k \in 1..Len(m.outputs) : ~m.outputs[k].finished =>
        LET o == m.outputs[k]
        IN IF o.state = "PREFILL"
           THEN f.done[o.rid] <= InputLength[o.rid] /\ Close(f, o.rid, o.prev + ChunkOf(m, k))
           ELSE /\ o.rid \in e.running /\ f.done[o.rid] = e.done[o.rid] + 1
                /\ o.rid \in f.shared <=> o.rid \in e.shared

(* The tokens of a step are those of its chunks.                           *)
LEMMA TokensIs ==
  ASSUME NEW P \in SUBSET Req, NEW chunk \in [P -> Nat \ {0}]
  PROVE  /\ SumFunction(chunk) \in Nat
         /\ \A r \in P : IF P = {r} THEN SumFunction(chunk) = chunk[r] ELSE chunk[r] < SumFunction(chunk)
<1> DEFINE total(S) == SumOver(chunk, S)
<1>1. SumFunction(chunk) = total(P)
  <2>1. DOMAIN chunk = P
    OBVIOUS
  <2> QED BY <2>1, SumFunctionIs
<1>2. \A S \in SUBSET P : IsFiniteSet(S) /\ total(S) \in Nat
  <2> TAKE S \in SUBSET P
  <2>1. IsFiniteSet(S)
    BY ReqAssumption, FS_Subset
  <2>2. \A x \in S : chunk[x] \in Nat
    OBVIOUS
  <2> QED BY <2>1, <2>2, SumType
<1>3. \A S \in SUBSET P : \A x \in S : total(S) = chunk[x] + total(S \ {x})
  <2> TAKE S \in SUBSET P
  <2> TAKE x \in S
  <2>1. \A y \in S : chunk[y] \in Int
    OBVIOUS
  <2> QED BY <1>2, <2>1, SumRemove
<1>4. total({}) = 0
  BY FS_EmptySet, SumRecursion
<1> HIDE DEF total
<1>5. ASSUME NEW r \in P PROVE IF P = {r} THEN total(P) = chunk[r] ELSE chunk[r] < total(P)
  <2>1. total(P) = chunk[r] + total(P \ {r}) /\ chunk[r] \in Nat /\ total(P \ {r}) \in Nat
    BY <1>2, <1>3
  <2>2. CASE P = {r}
    <3>1. P \ {r} = {}
      BY <2>2
    <3>2. total(P) = chunk[r] + 0
      BY <1>4, <2>1, <3>1
    <3> QED BY <2>1, <2>2, <3>2
  <2>3. CASE P # {r}
    <3>1. PICK q \in P \ {r} : TRUE
      BY <2>3
    <3>2. total(P \ {r}) = chunk[q] + total((P \ {r}) \ {q})
      BY <1>3, <3>1
    <3>3. chunk[q] \in Nat \ {0} /\ total((P \ {r}) \ {q}) \in Nat
      BY <1>2, <3>1
    <3> QED BY <2>1, <2>3, <3>2, <3>3
  <2> QED BY <2>2, <2>3
<1> QED BY <1>1, <1>2, <1>5

LEMMA HitsType ==
  ASSUME NEW known, NEW r \in Req
  PROVE  PrefixHits(known, Hashes[r]) \in Nat
<1> DEFINE h == Hashes[r]
           H == {n \in 1..Len(h) : \A k \in 1..n : h[k] \in known}
<1>1. Len(h) \in Nat
  BY HashesAssumption, LenProperties
<1>2. IsFiniteSet(H)
  <2>1. IsFiniteSet(1..Len(h)) /\ H \subseteq 1..Len(h)
    BY <1>1, IntervalFinite
  <2> HIDE DEF H, h
  <2> QED BY <2>1, FS_Subset
<1>3. Cardinality(H) \in Nat
  <2> HIDE DEF H
  <2> QED BY <1>2, FS_CardinalityType
<1> QED BY <1>3 DEF PrefixHits

LEMMA ConcatInjective ==
  ASSUME NEW A, NEW p \in Seq(A), NEW q \in Seq(A), IsInjective(p), IsInjective(q), Range(p) \cap Range(q) = {}
  PROVE  IsInjective(p \o q)
<1>1. /\ DOMAIN p = 1..Len(p) /\ DOMAIN q = 1..Len(q)
      /\ DOMAIN (p \o q) = 1..(Len(p) + Len(q)) /\ Len(p) \in Nat /\ Len(q) \in Nat
      /\ \A j \in 1..Len(p) : (p \o q)[j] = p[j]
      /\ \A j \in 1..Len(q) : (p \o q)[Len(p) + j] = q[j]
  BY ConcatProperties, LenProperties
<1> DEFINE s == p \o q
           m == Len(p)
           n == Len(q)
<1>2. ASSUME NEW j \in 1..(m + n)
      PROVE  \/ j \in 1..m /\ s[j] = p[j] /\ s[j] \in Range(p)
             \/ j - m \in 1..n /\ s[j] = q[j - m] /\ s[j] \in Range(q)
  <2>1. CASE j \in 1..m
    BY <1>1, <2>1 DEF Range
  <2>2. CASE j \notin 1..m
    <3>1. j - m \in 1..n /\ m + (j - m) = j
      BY <1>1, <2>2
    <3> QED BY <1>1, <3>1 DEF Range
  <2> QED BY <2>1, <2>2
<1>3. ASSUME NEW j \in 1..(m + n), NEW k \in 1..(m + n), s[j] = s[k] PROVE j = k
  <2> HIDE DEF s
  <2>1. CASE s[j] \in Range(p)
    <3>1. s[j] \notin Range(q)
      BY <2>1
    <3>2. j \in 1..m /\ k \in 1..m /\ p[j] = p[k]
      BY <1>2, <1>3, <3>1
    <3> HIDE DEF m, n
    <3> QED BY <1>1, <3>2 DEF IsInjective, m
  <2>2. CASE s[j] \notin Range(p)
    <3>1. j - m \in 1..n /\ k - m \in 1..n /\ q[j - m] = q[k - m]
      BY <1>2, <1>3, <2>2
    <3>2. j - m = k - m
      <4> HIDE DEF m, n
      <4> QED BY <1>1, <3>1 DEF IsInjective, n
    <3> QED BY <1>1, <3>2
  <2> QED BY <2>1, <2>2
<1> HIDE DEF s
<1> QED BY <1>1, <1>3 DEF IsInjective, s, m, n

(* The definitions of EngineStep, with what they are of the step's choices. *)
LEMMA EngineStepIs ==
  ASSUME NEW i \in Replicas, EngineStep(i), engine \in [Replicas -> Engines], EngineOk(engine[i]),
         step \in [Replicas -> StepOutputs], cached \in [Replicas -> SUBSET AllHashes]
  PROVE  /\ \E m \in StepOutputs, f \in Engines, c \in SUBSET AllHashes :
              /\ step' = [step EXCEPT ![i] = m] /\ engine' = [engine EXCEPT ![i] = f]
              /\ cached' = [cached EXCEPT ![i] = c]
              /\ EngineOk(f) /\ Stepped(engine[i], m, f)
<1> DEFINE e == engine[i]
<1>1. e \in Engines /\ cached[i] \subseteq AllHashes
  OBVIOUS
<1>2. PICK chunk \in PrefillChoices(e) : \E pre, abo :
         /\ pre \in SUBSET ((e.running \cap Preemptible) \ (e.preempted \cup DOMAIN chunk))
         /\ abo \in SUBSET (((e.running \cup e.waiting) \cap Abortable) \ DOMAIN chunk)
         /\ StepWith(i, chunk, pre, abo)
  BY DEF EngineStep
<1> DEFINE P == DOMAIN chunk
<1>3. PICK pre, abo :
         /\ pre \in SUBSET ((e.running \cap Preemptible) \ (e.preempted \cup P))
         /\ abo \in SUBSET (((e.running \cup e.waiting) \cap Abortable) \ P)
         /\ StepWith(i, chunk, pre, abo)
  BY <1>2
<1> DEFINE left == abo \cup pre
           D == {r \in e.running : e.done[r] >= InputLength[r]} \ left
           prev(r) == IF r \in e.waiting THEN EngineHits(i, r) ELSE e.done[r]
           done == [r \in Req |-> IF r \in left THEN 0
                                  ELSE IF r \in D THEN e.done[r] + 1
                                  ELSE IF r \in P THEN prev(r) + chunk[r] ELSE e.done[r]]
           decoded == [r \in Req |-> IF r \in D THEN e.decoded[r] + 1 ELSE e.decoded[r]]
           over == {r \in D \cup P : done[r] >= InputLength[r] /\ decoded[r] = MaxDecode[r]}
           together == IF Cardinality(P) > 1 THEN P ELSE {}
           f == [waiting |-> (e.waiting \ (P \cup abo)) \cup (pre \ abo),
                 running |-> (e.running \cup P) \ (over \cup left),
                 done |-> [r \in Req |-> IF r \in over THEN 0 ELSE done[r]],
                 decoded |-> decoded,
                 preempted |-> e.preempted \cup pre,
                 refused |-> e.refused,
                 shared |-> ((e.shared \ P) \cup together) \ (over \cup left)]
           now == cached[i] \cup UNION {Computed([done |-> done], r) : r \in P}
           free == {h \in cached[i] : \A r \in f.running : h \notin Computed(f, r)}
           order == Sorted(P) \o Sorted(D)
           n == Len(order)
           outs == [k \in 1..n |-> [rid |-> order[k], state |-> IF order[k] \in P THEN "PREFILL" ELSE "DECODE",
                                    prev |-> prev(order[k]), finished |-> order[k] \in over]]
           tokens == SumFunction(chunk)
<1>4. tokens <= TokenBudget - Cardinality(D) /\ \A r \in P : prev(r) + chunk[r] <= InputLength[r]
  BY <1>3, ZenonT(60) DEF StepWith
<1>5. PICK evicted \in SUBSET free :
         /\ cached' = [cached EXCEPT ![i] = now \ evicted]
         /\ step' = [step EXCEPT ![i] = [outputs |-> outs, prefill_tokens |-> tokens,
                       preempted |-> Sorted(pre \ abo), aborted |-> Sorted(abo), evicted |-> evicted]]
         /\ engine' = [engine EXCEPT ![i] = f]
  BY <1>3, ZenonT(60) DEF StepWith
<1>6. /\ e.waiting \subseteq Req /\ e.running \subseteq Req /\ e.preempted \subseteq Req
      /\ e.refused \subseteq Req /\ e.shared \subseteq e.running /\ e.refused \cap (e.waiting \cup e.running) = {}
      /\ e.done \in [Req -> Nat] /\ e.decoded \in [Req -> Nat] /\ e.waiting \cap e.running = {}
      /\ \A r \in Req \ e.running : e.done[r] = 0
      /\ \A r \in Req : InputLength[r] \in Nat \ {0} /\ e.done[r] \in Nat /\ e.decoded[r] \in Nat
  BY <1>1, ReqAssumption DEF Engines, EngineOk
<1>7. /\ P \subseteq e.running \cup e.waiting /\ chunk \in [P -> Nat \ {0}]
      /\ \A r \in P : r \in e.running => e.done[r] < InputLength[r]
  <2> DEFINE underway == {r \in e.running : e.done[r] < InputLength[r]}
  <2>1. PICK Q \in SUBSET (underway \cup e.waiting) : chunk \in [Q -> 1..TokenBudget]
    BY <1>2 DEF PrefillChoices
  <2>2. P = Q /\ \A r \in P : chunk[r] \in 1..TokenBudget
    BY <2>1
  <2>3. 1..TokenBudget \subseteq Nat \ {0}
    BY RolloutAssumption
  <2>4. chunk \in [P -> Nat \ {0}]
    BY <2>1, <2>2, <2>3
  <2> HIDE DEF e
  <2> QED BY <1>6, <2>1, <2>2, <2>4
<1> HIDE DEF P
<1> HIDE DEF e
<1>8. /\ D \subseteq e.running /\ P \cap D = {} /\ left \cap D = {} /\ left \cap P = {}
      /\ pre \subseteq e.running /\ abo \subseteq e.running \cup e.waiting
      /\ \A r \in D : e.done[r] >= InputLength[r]
  <2>1. /\ D \subseteq e.running /\ left \cap D = {} /\ \A r \in D : e.done[r] >= InputLength[r]
    OBVIOUS
  <2>2. /\ left \cap P = {} /\ pre \subseteq e.running /\ abo \subseteq e.running \cup e.waiting
    BY <1>3
  <2>3. ASSUME NEW r \in P \cap D PROVE FALSE
    <3>1. e.done[r] < InputLength[r] /\ e.done[r] >= InputLength[r] /\ r \in Req
      BY <1>6, <1>7, <2>1
    <3> QED BY <3>1, <1>6
  <2> HIDE DEF D, left
  <2> QED BY <2>1, <2>2, <2>3
<1> HIDE DEF D, left
<1>9. Cardinality(D) \in Nat
  BY <1>6, <1>8, ReqAssumption, FS_Subset, FS_CardinalityType
<1>10. \A r \in Req : prev(r) \in Nat
  <2> SUFFICES ASSUME NEW r \in Req PROVE prev(r) \in Nat
    OBVIOUS
  <2>1. EngineHits(i, r) \in Nat
    <3>1. PICK h \in Nat : h = PrefixHits(cached[i], Hashes[r])
      BY HitsType
    <3>2. h * BlockSize \in Nat /\ InputLength[r] - 1 \in Nat
      BY <1>6, RolloutAssumption
    <3> QED BY <3>1, <3>2 DEF EngineHits, Least
  <2> QED BY <1>6, <2>1
<1> HIDE DEF prev
<1>11. \A r \in P : /\ r \in Req /\ chunk[r] \in Nat \ {0} /\ prev(r) + chunk[r] <= InputLength[r]
                    /\ prev(r) + chunk[r] \in Nat
  BY <1>4, <1>6, <1>7, <1>10
<1>12. /\ \A r \in Req : /\ r \in left => done[r] = 0
                         /\ r \in D => done[r] = e.done[r] + 1
                         /\ r \in P => done[r] = prev(r) + chunk[r]
                         /\ r \notin left \cup D \cup P => done[r] = e.done[r]
       /\ done \in [Req -> Nat]
  <2>1. \A r \in Req : /\ r \in left => done[r] = 0
                       /\ r \in D => done[r] = e.done[r] + 1
                       /\ r \in P => done[r] = prev(r) + chunk[r]
                       /\ r \notin left \cup D \cup P => done[r] = e.done[r]
    BY <1>8
  <2>2. \A r \in Req : done[r] \in Nat
    <3> HIDE DEF done
    <3> QED BY <2>1, <1>6, <1>11
  <2>3. done = [r \in Req |-> done[r]]
    OBVIOUS
  <2> HIDE DEF done
  <2> QED BY <2>1, <2>2, <2>3
<1>13. decoded \in [Req -> Nat]
  BY <1>6
<1> HIDE DEF done, decoded
<1>14. over \subseteq D \cup P
  OBVIOUS
<1> HIDE DEF over
<1>15. /\ f.waiting = (e.waiting \ (P \cup abo)) \cup (pre \ abo)
       /\ f.running = (e.running \cup P) \ (over \cup left)
       /\ f.refused = e.refused /\ f.shared = ((e.shared \ P) \cup together) \ (over \cup left)
       /\ f.done = [r \in Req |-> IF r \in over THEN 0 ELSE done[r]]
       /\ \A r \in Req : f.done[r] = IF r \in over THEN 0 ELSE done[r]
  OBVIOUS
<1>40. together \subseteq P /\ \A r \in P : r \in together <=> P # {r}
  <2>1. IsFiniteSet(P) /\ Cardinality(P) \in Nat
    BY <1>6, <1>7, ReqAssumption, FS_Subset, FS_CardinalityType
  <2>2. \A r \in P : Cardinality(P \ {r}) = Cardinality(P) - 1 /\ IsFiniteSet(P \ {r})
    BY <2>1, FS_RemoveElement
  <2>3. ASSUME NEW r \in P PROVE Cardinality(P) > 1 <=> P # {r}
    <3>1. Cardinality(P \ {r}) = 0 <=> P \ {r} = {}
      BY <2>2, FS_EmptySet
    <3>2. Cardinality(P \ {r}) \in Nat
      BY <2>2, FS_CardinalityType
    <3> QED BY <2>1, <2>2, <3>1, <3>2
  <2> QED BY <2>3
<1> HIDE DEF together
<1>16. f \in Engines
  <2>1. f.done \in [Req -> Nat]
    BY <1>12, <1>15
  <2>2. (e.waiting \ (P \cup abo)) \cup (pre \ abo) \in SUBSET Req /\ (e.running \cup P) \ (over \cup left) \in SUBSET Req
    BY <1>6, <1>7, <1>8
  <2>3. e.preempted \cup pre \in SUBSET Req
    BY <1>6, <1>8
  <2>4. ((e.shared \ P) \cup together) \ (over \cup left) \in SUBSET Req
    BY <1>6, <1>7, <1>40
  <2> QED BY <1>6, <1>13, <1>15, <2>1, <2>2, <2>3, <2>4 DEF Engines
<1> HIDE DEF f
<1>17. EngineOk(f)
  <2>1. f.waiting \cap f.running = {} /\ f.refused \cap (f.waiting \cup f.running) = {}
    BY <1>6, <1>7, <1>8, <1>15 DEF left
  <2>3. f.shared \subseteq f.running
    BY <1>6, <1>15, <1>40
  <2>2. ASSUME NEW r \in Req \ f.running PROVE f.done[r] = 0
    <3>0. r \in Req /\ f.done[r] = IF r \in over THEN 0 ELSE done[r]
      BY <1>15, <2>2
    <3>1. CASE r \in over
      BY <3>0, <3>1
    <3>2. CASE r \in left
      BY <1>12, <3>0, <3>2
    <3>3. CASE r \notin over \cup left
      <4>1. r \notin e.running /\ r \notin P
        BY <1>15, <2>2, <3>3
      <4>2. r \notin left \cup D \cup P
        BY <1>8, <3>3, <4>1
      <4>3. e.done[r] = 0
        BY <1>6, <3>0, <4>1
      <4>4. done[r] = e.done[r]
        BY <1>12, <3>0, <4>2
      <4> QED BY <3>0, <3>3, <4>3, <4>4
    <3> QED BY <3>1, <3>2, <3>3
  <2> QED BY <2>1, <2>2, <2>3 DEF EngineOk
<1>18. /\ order \in Seq(Req) /\ Range(order) = P \cup D /\ IsInjective(order)
       /\ n \in Nat /\ DOMAIN order = 1..n /\ \A k \in 1..n : order[k] \in P \cup D
  <2>1. P \in SUBSET Req /\ D \in SUBSET Req
    BY <1>6, <1>7, <1>8
  <2>2. /\ Sorted(P) \in Seq(Req) /\ Range(Sorted(P)) = P /\ IsInjective(Sorted(P))
        /\ Sorted(D) \in Seq(Req) /\ Range(Sorted(D)) = D /\ IsInjective(Sorted(D))
    BY <2>1, SortedIs
  <2>3. order \in Seq(Req) /\ Range(order) = P \cup D
    BY <2>2, RangeConcat
  <2>4. IsInjective(order)
    BY <1>8, <2>2, ConcatInjective
  <2> HIDE DEF order
  <2>5. n \in Nat /\ DOMAIN order = 1..n
    BY <2>3, LenProperties
  <2> HIDE DEF n
  <2>6. \A k \in 1..n : order[k] \in P \cup D
    BY <2>3, <2>5 DEF Range
  <2> QED BY <2>3, <2>4, <2>5, <2>6
<1> HIDE DEF order, n
<1>19. \A k \in 1..n : outs[k] \in Outputs
  <2> SUFFICES ASSUME NEW k \in 1..n PROVE outs[k] \in Outputs
    OBVIOUS
  <2>1. order[k] \in Req /\ prev(order[k]) \in Nat
    BY <1>6, <1>7, <1>8, <1>10, <1>18
  <2> QED BY <2>1 DEF Outputs
<1>20. outs \in Seq(Outputs) /\ Len(outs) = n
  <2>1. outs = [k \in 1..n |-> outs[k]]
    OBVIOUS
  <2> HIDE DEF outs
  <2>2. outs \in [1..n -> Outputs]
    BY <1>19, <2>1
  <2>3. outs \in Seq(Outputs)
    BY <1>18, <2>2
  <2>4. DOMAIN outs = 1..n
    BY <2>1
  <2> QED BY <1>18, <2>3, <2>4, LenProperties
<1>21. \A k \in 1..n : /\ outs[k].rid = order[k] /\ outs[k].prev = prev(order[k])
                       /\ outs[k].state = (IF order[k] \in P THEN "PREFILL" ELSE "DECODE")
                       /\ outs[k].finished = (order[k] \in over)
  OBVIOUS
<1> HIDE DEF outs
<1>22. tokens \in Nat /\ \A r \in P : IF P = {r} THEN tokens = chunk[r] ELSE chunk[r] < tokens
  BY <1>6, <1>7, TokensIs
<1>41. tokens <= TokenBudget
  BY <1>4, <1>9, <1>22, RolloutAssumption
<1> HIDE DEF tokens
<1> DEFINE m == [outputs |-> outs, prefill_tokens |-> tokens, preempted |-> Sorted(pre \ abo),
                 aborted |-> Sorted(abo), evicted |-> evicted]
<1>23. /\ m.outputs = outs /\ m.prefill_tokens = tokens /\ Range(m.preempted) = pre \ abo
       /\ Range(m.aborted) = abo /\ m \in StepOutputs
  <2>1. pre \ abo \in SUBSET Req /\ abo \in SUBSET Req /\ evicted \in SUBSET AllHashes
    BY <1>1, <1>5, <1>6, <1>8
  <2>2. /\ Sorted(pre \ abo) \in Seq(Req) /\ Range(Sorted(pre \ abo)) = pre \ abo
        /\ Sorted(abo) \in Seq(Req) /\ Range(Sorted(abo)) = abo
    BY <2>1, SortedIs
  <2> QED BY <1>20, <1>22, <2>1, <2>2 DEF StepOutputs
<1> HIDE DEF m
<1>24. step' = [step EXCEPT ![i] = m]
  BY <1>5 DEF m
<1>25. (now \ evicted) \in SUBSET AllHashes
  <2>1. \A r \in P : Computed([done |-> done], r) \subseteq AllHashes
    <3> SUFFICES ASSUME NEW r \in P PROVE Computed([done |-> done], r) \subseteq AllHashes
      OBVIOUS
    <3>1. r \in Req /\ Hashes[r] \in Seq(Range(Hashes[r]))
      BY <1>11, HashesAssumption
    <3>2. done[r] \in Nat /\ Len(Hashes[r]) \in Nat
      BY <1>12, <3>1, LenProperties
    <3>3. Least(done[r] \div BlockSize, Len(Hashes[r])) <= Len(Hashes[r])
      BY <3>2, RolloutAssumption DEF Least
    <3>4. PICK l : l = Least(done[r] \div BlockSize, Len(Hashes[r]))
      OBVIOUS
    <3>5. l \in Int
      BY <3>2, <3>4, RolloutAssumption DEF Least
    <3>6. Computed([done |-> done], r) = {Hashes[r][k] : k \in 1..l}
      BY <3>4 DEF Computed
    <3>7. \A k \in 1..l : k \in 1..Len(Hashes[r])
      BY <3>2, <3>3, <3>4, <3>5
    <3>8. \A k \in 1..Len(Hashes[r]) : Hashes[r][k] \in Range(Hashes[r])
      BY <3>1, LenProperties
    <3> QED BY <3>1, <3>6, <3>7, <3>8 DEF AllHashes
  <2> QED BY <1>1, <2>1
<1> HIDE DEF now
<1>26. Rids(m) = P \cup D
  BY <1>18, <1>20, <1>21, <1>23 DEF Rids, Range
<1>27. FinishedIn(m) = over
  <2>1. Range(outs) = {outs[k] : k \in 1..n}
    BY <1>20, LenProperties DEF Range
  <2>2. \A r \in over : \E k \in 1..n : r = order[k]
    BY <1>14, <1>18 DEF Range
  <2>3. ASSUME NEW x \in Range(outs), x.finished PROVE x.rid \in over
    <3>1. PICK k \in 1..n : x = outs[k]
      BY <2>1
    <3> QED BY <1>21, <2>3, <3>1
  <2>4. ASSUME NEW r \in over PROVE \E x \in Range(outs) : x.finished /\ x.rid = r
    <3>1. PICK k \in 1..n : r = order[k]
      BY <2>2
    <3>2. outs[k].finished /\ outs[k].rid = r /\ outs[k] \in Range(outs)
      BY <1>21, <2>1, <3>1
    <3> QED BY <3>2
  <2> QED BY <1>23, <2>3, <2>4 DEF FinishedIn
<1>28. Distinct(m)
  BY <1>18, <1>20, <1>21, <1>23 DEF Distinct, IsInjective
<1>29. ASSUME NEW k \in 1..n, P = {order[k]} PROVE PrefillOutputs(m, n) = {k}
  <2>1. \A j \in 1..n : outs[j].state = "PREFILL" <=> order[j] \in P
    BY <1>21
  <2>2. \A j \in 1..n : order[j] \in P => j = k
    BY <1>18, <1>29 DEF IsInjective
  <2> QED BY <1>23, <1>29, <2>1, <2>2 DEF PrefillOutputs
<1>42. \A r \in f.running : /\ r \in P => (r \in f.shared <=> P # {r})
                            /\ r \notin P => (r \in f.shared <=> r \in e.shared)
  BY <1>15, <1>40
<1>30. ASSUME NEW k \in 1..n, ~outs[k].finished
       PROVE  IF outs[k].state = "PREFILL"
              THEN /\ f.done[outs[k].rid] <= InputLength[outs[k].rid]
                   /\ Close(f, outs[k].rid, outs[k].prev + ChunkOf(m, k))
              ELSE /\ outs[k].rid \in e.running /\ f.done[outs[k].rid] = e.done[outs[k].rid] + 1
                   /\ outs[k].rid \in f.shared <=> outs[k].rid \in e.shared
  <2> DEFINE r == order[k]
  <2>1. /\ r \notin over /\ r \in Req /\ f.done[r] = done[r] /\ r \in f.running
    <3>1. r \in P \cup D /\ r \in Req /\ r \notin over
      BY <1>6, <1>7, <1>8, <1>18, <1>21, <1>30
    <3> HIDE DEF r
    <3> QED BY <1>8, <1>15, <3>1
  <2>2. CASE r \in P
    <3> DEFINE q == ChunkOf(m, k)
               c == chunk[r]
    <3>1. outs[k].state = "PREFILL" /\ outs[k].rid = r /\ outs[k].prev = prev(r)
      BY <1>21, <2>2
    <3>2. done[r] = prev(r) + c /\ done[r] <= InputLength[r] /\ c \in Nat \ {0} /\ prev(r) \in Nat
      <4> HIDE DEF r
      <4> QED BY <1>10, <1>11, <1>12, <2>1, <2>2
    <3>3. q \in Nat /\ q <= tokens /\ (PrefillOutputs(m, n) = {k} => q = tokens)
      <4>1. k \in 1..Len(m.outputs) /\ m.outputs[k].state = "PREFILL" /\ Len(m.outputs) = n
        BY <1>20, <1>23, <3>1
      <4> QED BY <1>23, <4>1, ChunkIs
    <3>4. r \in f.shared <=> P # {r}
      BY <1>42, <2>1, <2>2
    <3>5. Close(f, r, prev(r) + q)
      <4>1. CASE P = {r}
        <5>1. tokens = c /\ q = tokens
          BY <1>22, <1>29, <2>2, <3>3, <4>1
        <5> HIDE DEF q, c, r
        <5> QED BY <2>1, <3>2, <3>4, <4>1, <5>1 DEF Close
      <4>2. CASE P # {r}
        <5>1. c < tokens
          BY <1>22, <2>2, <4>2
        <5>2. PICK d \in Nat, b \in Nat : d = done[r] /\ b = prev(r)
          BY <3>2
        <5>3. f.done[r] = d /\ d = b + c /\ r \in f.shared
          BY <2>1, <3>2, <3>4, <4>2, <5>2
        <5> HIDE DEF q, c, r
        <5>4. b + q < d + TokenBudget /\ d < (b + q) + TokenBudget
          BY <1>22, <1>41, <3>2, <3>3, <5>1, <5>2, <5>3, RolloutAssumption
        <5> QED BY <5>2, <5>3, <5>4 DEF Close
      <4> QED BY <4>1, <4>2
    <3> HIDE DEF q, c
    <3> QED BY <2>1, <3>1, <3>2, <3>5 DEF q
  <2>3. CASE r \notin P
    <3>1. outs[k].state = "DECODE" /\ outs[k].rid = r /\ r \in D
      BY <1>18, <1>21, <2>3
    <3>2. r \in f.shared <=> r \in e.shared
      BY <1>42, <2>1, <2>3
    <3> HIDE DEF r
    <3> QED BY <1>8, <1>12, <2>1, <3>1, <3>2
  <2> QED BY <2>2, <2>3
<1>31. ASSUME NEW r \in f.running \cup f.waiting, r \notin P \cup D
       PROVE  /\ r \in pre \ abo => f.done[r] = 0
              /\ r \notin pre \ abo => f.done[r] = e.done[r] /\ (r \in f.shared <=> r \in e.shared)
  <2>1. r \in Req /\ r \notin over /\ f.done[r] = done[r]
    BY <1>14, <1>16, <1>15, <1>31 DEF Engines
  <2>2. CASE r \in left
    <3>1. r \in pre \ abo
      BY <1>6, <1>8, <1>15, <1>31, <2>2 DEF left
    <3> QED BY <1>12, <2>1, <2>2, <3>1
  <2>3. CASE r \notin left
    <3>1. r \notin pre \ abo
      BY <2>3 DEF left
    <3>2. r \in f.shared <=> r \in e.shared
      BY <1>15, <1>31, <1>40, <2>1, <2>3
    <3> QED BY <1>12, <1>31, <2>1, <2>3, <3>1, <3>2
  <2> QED BY <2>2, <2>3
<1>32. Stepped(e, m, f)
  <2>1. Rids(m) \subseteq e.running \cup e.waiting
    BY <1>7, <1>8, <1>26
  <2>2. pre \ abo \subseteq e.running \ Rids(m) /\ abo \subseteq (e.running \cup e.waiting) \ Rids(m)
    BY <1>8, <1>26 DEF left
  <2>3. f.running = (e.running \cup Rids(m)) \ (FinishedIn(m) \cup (pre \ abo) \cup abo)
    BY <1>8, <1>15, <1>26, <1>27 DEF left
  <2>4. f.waiting = (e.waiting \ (Rids(m) \cup abo)) \cup (pre \ abo)
    BY <1>6, <1>8, <1>15, <1>26
  <2>5. (pre \ abo) \cap abo = {}
    OBVIOUS
  <2>6. Range(m.preempted) = pre \ abo /\ Range(m.aborted) = abo
    BY <1>23
  <2>7. Moved(e, m, f)
    BY <1>28, <2>1, <2>2, <2>3, <2>4, <2>5, <2>6, Zenon DEF Moved
  <2>8. \A r \in f.running \cup f.waiting : r \notin Rids(m) =>
           /\ r \in Range(m.preempted) => f.done[r] = 0
           /\ r \notin Range(m.preempted) => f.done[r] = e.done[r] /\ (r \in f.shared <=> r \in e.shared)
    BY <1>26, <1>31, <2>6
  <2>9. \A k \in 1..Len(m.outputs) : ~m.outputs[k].finished =>
           LET o == m.outputs[k]
           IN IF o.state = "PREFILL"
              THEN f.done[o.rid] <= InputLength[o.rid] /\ Close(f, o.rid, o.prev + ChunkOf(m, k))
              ELSE /\ o.rid \in e.running /\ f.done[o.rid] = e.done[o.rid] + 1
                   /\ o.rid \in f.shared <=> o.rid \in e.shared
    BY <1>20, <1>23, <1>30, Zenon
  <2> QED BY <1>15, <2>7, <2>8, <2>9, Zenon DEF Stepped
<1>33. m \in StepOutputs /\ f \in Engines /\ cached' = [cached EXCEPT ![i] = now \ evicted]
       /\ engine' = [engine EXCEPT ![i] = f]
  BY <1>5, <1>16, <1>23
<1> QED BY <1>17, <1>24, <1>25, <1>32, <1>33 DEF e

-----------------------------------------------------------------------------
(* Rollouts.                                                               *)

Option(S) == {<<>>} \cup {<<x>> : x \in S}

LEMMA OptionIs ==
  ASSUME NEW S
  PROVE  /\ <<>> \in Option(S)
         /\ \A x \in S : <<x>> \in Option(S) /\ <<x>> # <<>> /\ <<x>>[1] = x
         /\ \A o \in Option(S) : o # <<>> => o[1] \in S /\ o = <<o[1]>>
<1>1. \A x \in S : <<x>> # <<>> /\ <<x>>[1] = x
  OBVIOUS
<1> QED BY <1>1 DEF Option

Savepoints == [idx : Nat, tail : Scheds]

Kepts == [buffer : Buffers, tail : Scheds]

Rollouts == [buffer : Buffers, tail : Scheds, savepoint : Option(Savepoints)]

CachedRollouts == [cand : Req \cup {NoCandidate}, buffer : Buffers, tail : Scheds, savepoint : Option(Savepoints)]

(* The slots of b and the queues of t are of requests in S.                *)
Of(S, b, t) ==
  /\ \A n \in 1..Len(b.slots) : b.slots[n].prefill \cup b.slots[n].decode \subseteq S
  /\ InFlight(t) \subseteq S

(* A rollout for the candidate c, if it is one, of requests in S, and what *)
(* its savepoint says.                                                     *)
Own(S, c, x) ==
  /\ Of(S \cup {c}, x.buffer, x.tail)
  /\ x.savepoint # <<>> =>
       LET s == x.savepoint[1]
       IN /\ c # NoCandidate /\ s.idx \in 1..Len(x.buffer.slots) /\ InFlight(s.tail) \subseteq S \ {c}
          /\ \A n \in 1..s.idx : x.buffer.slots[n].prefill \cup x.buffer.slots[n].decode \subseteq S \ {c}

LEMMA OwnMonotone ==
  ASSUME NEW S, NEW T, S \subseteq T
  PROVE  /\ \A b, t : Of(S, b, t) => Of(T, b, t)
         /\ \A c, x : Own(S, c, x) => Own(T, c, x)
<1>1. \A b, t : Of(S, b, t) => Of(T, b, t)
  BY DEF Of
<1>2. ASSUME NEW c, NEW x, Own(S, c, x) PROVE Own(T, c, x)
  <2>1. Of(T \cup {c}, x.buffer, x.tail)
    BY <1>2 DEF Own, Of
  <2> QED BY <1>2, <2>1 DEF Own
<1> QED BY <1>1, <1>2

LEMMA WithCandidateIs ==
  ASSUME NEW s \in Scheds, NEW c \in Req, NEW hits \in Nat
  PROVE  /\ WithCandidate(s, c, hits) \in Scheds
         /\ InFlight(WithCandidate(s, c, hits)) = InFlight(s) \cup {c}
<1> DEFINE n == Least(hits * BlockSize, InputLength[c])
<1>1. n \in Nat
  <2>1. hits * BlockSize \in Nat /\ InputLength[c] \in Nat
    BY RolloutAssumption, ReqAssumption
  <2> QED BY <2>1 DEF Least
<1>2. WithCandidate(s, c, hits) = Admit(s, c, n)
  BY DEF WithCandidate
<1> DEFINE t == Admit(s, c, n)
<1> HIDE DEF n
<1>3. t \in Scheds /\ t.running = s.running /\ Range(t.waiting) = Range(s.waiting) \cup {c}
  BY <1>1, AdmitIs
<1> HIDE DEF t
<1> QED BY <1>2, <1>3 DEF InFlight, t

LEMMA FromScratchIs ==
  ASSUME NEW s \in Scheds, NEW c \in Req, NEW hits \in Nat, NEW S, InFlight(s) \subseteq S
  PROVE  FromScratch(s, c, hits) \in Rollouts /\ Own(S, c, FromScratch(s, c, hits))
<1> DEFINE t == WithCandidate(s, c, hits)
           x == ScheduleLoop(EmptyBuffer, t, c)
           o == FromScratch(s, c, hits)
<1>1. t \in Scheds /\ InFlight(t) \subseteq S \cup {c}
  BY WithCandidateIs
<1>2. EmptyBuffer \in Buffers /\ EmptyBuffer.slots = <<>> /\ Len(EmptyBuffer.slots) = 0
  <2>1. <<>> \in Seq(Slots) /\ Len(<<>>) = 0
    BY EmptySeq
  <2> QED BY <2>1 DEF EmptyBuffer, Buffers, Markers
<1>3. o = [buffer |-> x.buffer, tail |-> x.sched, savepoint |-> <<>>]
  BY DEF FromScratch
<1> HIDE DEF t
<1>4. x \in Rounds /\ x \in Grown(EmptyBuffer, InFlight(t))
  BY <1>1, <1>2, ScheduleLoopGrown
<1> HIDE DEF x
<1>5. /\ InFlight(x.sched) \subseteq S \cup {c}
      /\ \A n \in 1..Len(x.buffer.slots) : x.buffer.slots[n].prefill \cup x.buffer.slots[n].decode \subseteq S \cup {c}
  BY <1>1, <1>2, <1>4 DEF Grown
<1>6. o \in Rollouts
  <2>1. <<>> \in Option(Savepoints)
    BY OptionIs
  <2> QED BY <1>3, <1>4, <2>1 DEF Rounds, Rollouts
<1>7. Own(S, c, o)
  <2>1. o.buffer = x.buffer /\ o.tail = x.sched /\ o.savepoint = <<>>
    BY <1>3
  <2> HIDE DEF o
  <2> QED BY <1>5, <2>1 DEF Own, Of
<1> QED BY <1>6, <1>7

LEMMA ExtendIs ==
  ASSUME NEW b \in Buffers, NEW s \in Scheds, NEW c \in Req, NEW hits \in Nat, NEW S, Of(S, b, s), c \notin S
  PROVE  /\ ExtendWithCandidate(b, s, c, hits) \in Rollouts
         /\ Own(S, c, ExtendWithCandidate(b, s, c, hits))
<1> DEFINE t == WithCandidate(s, c, hits)
           u == Unmarked(b)
           x == ScheduleLoop(u, t, c)
           p == IF b.slots = <<>> THEN <<>> ELSE <<[idx |-> Len(b.slots), tail |-> s]>>
           o == ExtendWithCandidate(b, s, c, hits)
<1>1. t \in Scheds /\ InFlight(t) \subseteq S \cup {c} /\ InFlight(s) \subseteq S \ {c}
  BY WithCandidateIs DEF Of
<1>2. u \in Buffers /\ u.slots = b.slots
  BY DEF Unmarked, Buffers, Markers
<1>3. o = [buffer |-> x.buffer, tail |-> x.sched, savepoint |-> p]
  BY DEF ExtendWithCandidate
<1> HIDE DEF t, u
<1>4. x \in Rounds /\ x \in Grown(u, InFlight(t))
  BY <1>1, <1>2, ScheduleLoopGrown
<1> HIDE DEF x
<1> DEFINE m == Len(b.slots)
           q == x.buffer.slots
<1>5. b.slots \in Seq(Slots) /\ q \in Seq(Slots)
  BY <1>4 DEF Rounds, Buffers
<1>6. m \in Nat /\ Len(q) \in Nat /\ (b.slots # <<>> => m # 0)
  BY <1>5, LenProperties, EmptySeq
<1>7. /\ InFlight(x.sched) \subseteq S \cup {c} /\ m <= Len(q) /\ \A n \in 1..m : q[n] = b.slots[n]
      /\ \A n \in (m + 1)..Len(q) : q[n].prefill \cup q[n].decode \subseteq S \cup {c}
  BY <1>1, <1>2, <1>4 DEF Grown
<1>8. \A n \in 1..m : q[n].prefill \cup q[n].decode \subseteq S \ {c}
  BY <1>7 DEF Of
<1>9. \A n \in 1..Len(q) : q[n].prefill \cup q[n].decode \subseteq S \cup {c}
  <2> SUFFICES ASSUME NEW n \in 1..Len(q) PROVE q[n].prefill \cup q[n].decode \subseteq S \cup {c}
    OBVIOUS
  <2>1. n \in 1..m \/ n \in (m + 1)..Len(q)
    BY <1>6
  <2> HIDE DEF q, m
  <2> QED BY <1>7, <1>8, <2>1
<1>10. p \in Option(Savepoints) /\ (p # <<>> => p[1] = [idx |-> m, tail |-> s] /\ m # 0)
  <2>1. [idx |-> m, tail |-> s] \in Savepoints
    BY <1>6 DEF Savepoints
  <2> DEFINE v == [idx |-> m, tail |-> s]
  <2>2. p = IF b.slots = <<>> THEN <<>> ELSE <<v>>
    OBVIOUS
  <2> HIDE DEF m, p, v
  <2>3. <<v>> \in Option(Savepoints) /\ <<v>>[1] = v /\ <<>> \in Option(Savepoints)
    BY <2>1, OptionIs DEF v
  <2>4. CASE b.slots = <<>>
    BY <2>2, <2>3, <2>4
  <2>5. CASE b.slots # <<>>
    BY <1>6, <2>2, <2>3, <2>5 DEF v
  <2> QED BY <2>4, <2>5
<1> HIDE DEF p
<1>11. o \in Rollouts
  BY <1>3, <1>4, <1>10 DEF Rounds, Rollouts
<1>12. Own(S, c, o)
  <2>1. o.buffer = x.buffer /\ o.tail = x.sched /\ o.savepoint = p
    BY <1>3
  <2> HIDE DEF o
  <2>2. Of(S \cup {c}, o.buffer, o.tail)
    BY <1>7, <1>9, <2>1 DEF Of
  <2>3. ASSUME p # <<>>
        PROVE  /\ c # NoCandidate /\ p[1].idx \in 1..Len(q) /\ InFlight(p[1].tail) \subseteq S \ {c}
               /\ \A n \in 1..p[1].idx : q[n].prefill \cup q[n].decode \subseteq S \ {c}
    <3>1. p[1].idx = m /\ p[1].tail = s /\ m # 0
      BY <1>10, <2>3
    <3>2. c # NoCandidate
      BY ReqAssumption, FS_CardinalityType DEF NoCandidate
    <3>3. m \in 1..Len(q)
      BY <1>6, <1>7, <3>1
    <3> HIDE DEF m, q
    <3> QED BY <1>1, <1>8, <3>1, <3>2, <3>3
  <2> QED BY <2>1, <2>2, <2>3 DEF Own
<1> QED BY <1>11, <1>12

LEMMA TtftIs ==
  ASSUME NEW b \in Buffers
  PROVE  TtftOf(b) \in Markers
<1>1. CASE b.prefill_end = NoStep
  BY <1>1 DEF TtftOf, Markers
<1>2. CASE b.prefill_end # NoStep
  <2> DEFINE l == Least(b.prefill_end + 1, Len(b.slots))
             f == [n \in 1..l |-> b.slots[n].lat]
  <2>1. b.prefill_end \in Nat /\ b.slots \in Seq(Slots) /\ Len(b.slots) \in Nat
    BY <1>2, LenProperties DEF Buffers, Markers
  <2>2. l \in Nat /\ l <= Len(b.slots)
    BY <2>1 DEF Least
  <2> HIDE DEF l
  <2>3. ASSUME NEW n \in 1..l PROVE f[n] \in Nat
    <3>1. n \in 1..Len(b.slots)
      BY <2>1, <2>2
    <3>2. b.slots[n] \in Slots
      BY <2>1, <3>1, LenProperties
    <3> QED BY <3>2 DEF Slots
  <2>4. DOMAIN f = 1..l /\ IsFiniteSet(1..l)
    BY <2>2, IntervalFinite
  <2>5. TtftOf(b) = SumFunction(f)
    BY <1>2 DEF TtftOf, l
  <2> HIDE DEF f
  <2>6. SumFunction(f) = SumOver(f, 1..l)
    BY <2>4, SumFunctionIs
  <2>7. SumOver(f, 1..l) \in Nat
    BY <2>3, <2>4, SumType
  <2> QED BY <2>5, <2>6, <2>7 DEF Markers
<1> QED BY <1>1, <1>2

LEMMA LeastTtftIs ==
  ASSUME NEW ttft \in [Replicas -> Markers]
  PROVE  LeastTtft(ttft) \in Replicas
<1> DEFINE answered == {i \in Replicas : ttft[i] # NoStep}
           least == {i \in answered : \A j \in answered : ttft[i] < ttft[j] \/ (ttft[i] = ttft[j] /\ i <= j)}
<1>1. LeastTtft(ttft) = IF answered = {} THEN 1 ELSE CHOOSE i \in least : TRUE
  BY DEF LeastTtft
<1>2. 1 \in Replicas /\ Replicas \subseteq Nat
  BY PCtxAssumption DEF Replicas
<1>3. CASE answered = {}
  BY <1>1, <1>2, <1>3
<1>4. CASE answered # {}
  <2> DEFINE T == {ttft[i] : i \in answered}
  <2>1. \A i \in answered : ttft[i] \in Nat
    BY DEF Markers
  <2> HIDE DEF answered
  <2>2. T \in SUBSET Nat /\ T # {}
    BY <1>4, <2>1
  <2>3. PICK t \in T : \A u \in T : t <= u
    <3> HIDE DEF T
    <3> QED BY <2>2, LeastNat
  <2> DEFINE B == {i \in answered : ttft[i] = t}
  <2>4. answered \subseteq Replicas
    BY DEF answered
  <2>5. B \in SUBSET Nat /\ B # {}
    BY <1>2, <2>3, <2>4
  <2>6. PICK i \in B : \A j \in B : i <= j
    <3> HIDE DEF B
    <3> QED BY <2>5, LeastNat
  <2>7. ASSUME NEW j \in answered PROVE ttft[i] < ttft[j] \/ (ttft[i] = ttft[j] /\ i <= j)
    <3>1. ttft[i] = t /\ ttft[j] \in Nat /\ t \in Nat /\ t <= ttft[j]
      BY <2>1, <2>2, <2>3, <2>6
    <3>2. CASE ttft[j] = t
      BY <2>6, <3>1, <3>2
    <3>3. CASE ttft[j] # t
      BY <3>1, <3>3
    <3> QED BY <3>2, <3>3
  <2>8. i \in least
    BY <2>6, <2>7
  <2>9. (CHOOSE k \in least : TRUE) \in least
    BY <2>8
  <2>10. least \subseteq Replicas
    BY <2>4
  <2> HIDE DEF least
  <2> QED BY <1>1, <1>4, <2>9, <2>10
<1> QED BY <1>3, <1>4

LEMMA RecoveredIs ==
  ASSUME NEW i, ephemeral[i] \in Option(CachedRollouts), NEW S \in SUBSET Req,
         ephemeral[i] # <<>> => Own(S, ephemeral[i][1].cand, ephemeral[i][1])
  PROVE  /\ Recovered(i) \in Option(Kepts)
         /\ Recovered(i) # <<>> => Of(S, Recovered(i)[1].buffer, Recovered(i)[1].tail)
<1> DEFINE e == ephemeral[i][1]
           o == Recovered(i)
<1>0. <<>> \in Option(Kepts)
  BY OptionIs
<1>1. CASE ephemeral[i] = <<>>
  <2>1. o = <<>>
    BY <1>1 DEF Recovered
  <2> QED BY <1>0, <2>1
<1>2. CASE ephemeral[i] # <<>>
  <2>1. e \in CachedRollouts
    BY <1>2, OptionIs
  <2>2. Own(S, e.cand, e)
    BY <1>2
  <2>3. /\ e.cand = NoCandidate => o = <<[buffer |-> e.buffer, tail |-> e.tail]>>
        /\ e.cand # NoCandidate /\ e.savepoint = <<>> => o = <<>>
        /\ e.cand # NoCandidate /\ e.savepoint # <<>> =>
              o = <<[buffer |-> [EmptyBuffer EXCEPT !.slots = SubSeq(e.buffer.slots, 1, e.savepoint[1].idx)],
                     tail |-> e.savepoint[1].tail]>>
    BY <1>2 DEF Recovered
  <2> HIDE DEF e, o
  <2>4. /\ e.buffer \in Buffers /\ e.tail \in Scheds /\ e.savepoint \in Option(Savepoints)
        /\ e.buffer.slots \in Seq(Slots)
    BY <2>1 DEF CachedRollouts, Buffers
  <2>5. CASE e.cand = NoCandidate
    <3> DEFINE k == [buffer |-> e.buffer, tail |-> e.tail]
    <3>1. k \in Kepts
      BY <2>4 DEF Kepts
    <3>2. o = <<k>>
      BY <2>3, <2>5
    <3>3. Of(S, e.buffer, e.tail)
      <4>1. Of(S \cup {NoCandidate}, e.buffer, e.tail)
        BY <2>2, <2>5 DEF Own
      <4>2. NoCandidate \notin Req
        BY ReqAssumption, FS_CardinalityType DEF NoCandidate
      <4>3. InFlight(e.tail) \subseteq Req
        BY <2>4, RangeBasics DEF Scheds, InFlight
      <4>4. ASSUME NEW n \in 1..Len(e.buffer.slots)
            PROVE  e.buffer.slots[n].prefill \cup e.buffer.slots[n].decode \subseteq Req
        <5>1. e.buffer.slots[n] \in Slots
          BY <2>4, LenProperties
        <5> QED BY <5>1 DEF Slots
      <4> QED BY <4>1, <4>2, <4>3, <4>4 DEF Of
    <3>4. k.buffer = e.buffer /\ k.tail = e.tail
      OBVIOUS
    <3> HIDE DEF k
    <3>5. o \in Option(Kepts) /\ o[1] = k
      BY <3>1, <3>2, OptionIs
    <3> QED BY <3>3, <3>4, <3>5 DEF o
  <2>6. CASE e.cand # NoCandidate /\ e.savepoint = <<>>
    BY <1>0, <2>3, <2>6 DEF o
  <2>7. CASE e.cand # NoCandidate /\ e.savepoint # <<>>
    <3> DEFINE p == e.savepoint[1]
               q == e.buffer.slots
               v == SubSeq(q, 1, p.idx)
               b == [EmptyBuffer EXCEPT !.slots = v]
               k == [buffer |-> b, tail |-> p.tail]
    <3>1. p \in Savepoints
      BY <2>4, <2>7, OptionIs
    <3>2. /\ p.idx \in 1..Len(q) /\ InFlight(p.tail) \subseteq S
          /\ \A n \in 1..p.idx : q[n].prefill \cup q[n].decode \subseteq S
      BY <2>2, <2>7 DEF Own
    <3>3. o = <<k>>
      BY <2>3, <2>7
    <3> HIDE DEF p
    <3>4. Len(q) \in Nat /\ p.idx \in Nat /\ p.tail \in Scheds
      BY <2>4, <3>1, LenProperties DEF Savepoints
    <3>5. v \in Seq(Slots) /\ Len(v) = p.idx /\ \A n \in 1..p.idx : v[n] = q[n]
      <4>1. \A n \in 1..p.idx : n \in 1..Len(q)
        BY <3>2, <3>4
      <4> HIDE DEF q
      <4> QED BY <2>4, <3>2, <3>4, <4>1, SubSeqProperties DEF q
    <3> HIDE DEF v, q
    <3>6. b \in Buffers /\ b.slots = v
      BY <3>5 DEF EmptyBuffer, Buffers, Markers
    <3> HIDE DEF b
    <3>7. k \in Kepts /\ k.buffer = b /\ k.tail = p.tail
      BY <3>4, <3>6 DEF Kepts
    <3> HIDE DEF k
    <3>8. o \in Option(Kepts) /\ o[1] = k
      BY <3>3, <3>7, OptionIs
    <3>9. Of(S, k.buffer, k.tail)
      BY <3>2, <3>5, <3>6, <3>7 DEF Of
    <3> QED BY <3>8, <3>9 DEF o
  <2> QED BY <2>5, <2>6, <2>7
<1> QED BY <1>1, <1>2

LEMMA CrossCheckedIs ==
  ASSUME NEW e \in CachedRollouts, NEW m, NEW S, Own(S, e.cand, e)
  PROVE  LET o == CrossChecked(e, m)
         IN o \in Option(CachedRollouts) /\ (o # <<>> => Own(S, o[1].cand, o[1]))
<1> DEFINE q == e.buffer.slots
           v == Tail(q)
           b == PopHead(e.buffer)
           a == SavepointAfterPop(e.savepoint)
           d == [e EXCEPT !.buffer = b, !.savepoint = a]
           o == CrossChecked(e, m)
<1>1. o = <<>> \/ (q # <<>> /\ o = <<d>>)
  BY DEF CrossChecked
<1>2. CASE o = <<>>
  BY <1>2, OptionIs
<1>3. CASE q # <<>> /\ o = <<d>>
  <2>1. e.buffer \in Buffers /\ q \in Seq(Slots) /\ e.savepoint \in Option(Savepoints) /\ e.tail \in Scheds
    BY DEF CachedRollouts, Buffers
  <2>2. /\ v \in Seq(Slots) /\ Len(v) = Len(q) - 1 /\ Len(q) \in Nat
        /\ \A n \in 1..Len(v) : v[n] = q[n + 1]
    BY <1>3, <2>1, HeadTailProperties, LenProperties
  <2> HIDE DEF v
  <2>3. b \in Buffers /\ b.slots = v
    <3> DEFINE back(n) == IF n > 0 THEN n - 1 ELSE n
    <3>1. b = [slots |-> v, prefill_begin |-> back(e.buffer.prefill_begin),
               prefill_end |-> back(e.buffer.prefill_end), in_decode |-> back(e.buffer.in_decode)]
      BY DEF PopHead, v
    <3>2. \A n \in Markers : back(n) \in Markers
      BY DEF Markers, NoStep
    <3> HIDE DEF back, b
    <3>3. e.buffer.prefill_begin \in Markers /\ e.buffer.prefill_end \in Markers /\ e.buffer.in_decode \in Markers
      BY <2>1 DEF Buffers
    <3> QED BY <2>2, <3>1, <3>2, <3>3 DEF Buffers
  <2> HIDE DEF b
  <2>4. /\ Of(S \cup {e.cand}, e.buffer, e.tail)
        /\ e.savepoint # <<>> =>
             LET s == e.savepoint[1]
             IN /\ e.cand # NoCandidate /\ s.idx \in 1..Len(q) /\ InFlight(s.tail) \subseteq S \ {e.cand}
                /\ \A n \in 1..s.idx : q[n].prefill \cup q[n].decode \subseteq S \ {e.cand}
    BY DEF Own
  <2>5. Of(S \cup {e.cand}, b, e.tail)
    <3>1. ASSUME NEW n \in 1..Len(v) PROVE v[n].prefill \cup v[n].decode \subseteq S \cup {e.cand}
      <4>1. n + 1 \in 1..Len(q)
        BY <2>2
      <4> QED BY <2>2, <2>4, <4>1 DEF Of
    <3> QED BY <2>3, <2>4, <3>1 DEF Of
  <2>6. /\ a \in Option(Savepoints)
        /\ a # <<>> => /\ e.cand # NoCandidate /\ a[1].idx \in 1..Len(v) /\ InFlight(a[1].tail) \subseteq S \ {e.cand}
                       /\ \A n \in 1..a[1].idx : v[n].prefill \cup v[n].decode \subseteq S \ {e.cand}
    <3> DEFINE s == e.savepoint[1]
               z == [s EXCEPT !.idx = @ - 1]
    <3>1. a = IF e.savepoint = <<>> \/ s.idx <= 1 THEN <<>> ELSE <<z>>
      BY DEF SavepointAfterPop
    <3>2. CASE e.savepoint = <<>> \/ s.idx <= 1
      BY <3>1, <3>2, OptionIs
    <3>3. CASE ~(e.savepoint = <<>> \/ s.idx <= 1)
      <4>1. s \in Savepoints
        BY <2>1, <3>3, OptionIs
      <4> HIDE DEF s
      <4>2. s.idx \in Nat /\ s.idx > 1 /\ s.tail \in Scheds
        BY <3>3, <4>1 DEF Savepoints
      <4>3. z \in Savepoints /\ z.idx = s.idx - 1 /\ z.tail = s.tail
        BY <4>1, <4>2 DEF Savepoints
      <4> HIDE DEF z
      <4>4. a \in Option(Savepoints) /\ a[1] = z
        BY <3>1, <3>3, <4>3, OptionIs
      <4>5. /\ e.cand # NoCandidate /\ s.idx \in 1..Len(q) /\ InFlight(s.tail) \subseteq S \ {e.cand}
            /\ \A n \in 1..s.idx : q[n].prefill \cup q[n].decode \subseteq S \ {e.cand}
        BY <2>4, <3>3 DEF s
      <4>6. z.idx \in 1..Len(v)
        BY <2>2, <4>2, <4>3, <4>5
      <4>7. ASSUME NEW n \in 1..z.idx PROVE v[n].prefill \cup v[n].decode \subseteq S \ {e.cand}
        <5>1. n \in 1..Len(v) /\ n + 1 \in 1..s.idx
          BY <2>2, <4>2, <4>3, <4>6
        <5> QED BY <2>2, <4>5, <5>1
      <4> HIDE DEF a, q
      <4> QED BY <4>3, <4>4, <4>5, <4>6, <4>7
    <3> QED BY <3>2, <3>3
  <2> HIDE DEF a, q
  <2>7. d \in CachedRollouts /\ d.cand = e.cand /\ d.buffer = b /\ d.tail = e.tail /\ d.savepoint = a
    BY <2>3, <2>6 DEF CachedRollouts
  <2> HIDE DEF d
  <2>8. Own(S, d.cand, d)
    BY <2>3, <2>5, <2>6, <2>7 DEF Own
  <2>9. o \in Option(CachedRollouts) /\ o[1] = d
    BY <1>3, <2>7, OptionIs
  <2> QED BY <2>8, <2>9
<1> QED BY <1>1, <1>2, <1>3

LEMMA PromotedIs ==
  ASSUME NEW e \in CachedRollouts, NEW r \in Req, NEW S, Own(S, e.cand, e), r \in S
  PROVE  LET o == Promoted(e, r)
         IN o \in Option(CachedRollouts) /\ (o # <<>> => Own(S, o[1].cand, o[1]))
<1> DEFINE d == [e EXCEPT !.cand = NoCandidate, !.savepoint = <<>>]
           o == Promoted(e, r)
<1>1. CASE e.cand # r
  <2>1. o = <<>>
    BY <1>1 DEF Promoted
  <2> QED BY <2>1, OptionIs
<1>2. CASE e.cand = r
  <2>1. o = <<d>>
    BY <1>2 DEF Promoted
  <2>2. <<>> \in Option(Savepoints)
    BY OptionIs
  <2>3. d \in CachedRollouts /\ d.cand = NoCandidate /\ d.buffer = e.buffer /\ d.tail = e.tail /\ d.savepoint = <<>>
    BY <2>2 DEF CachedRollouts
  <2> HIDE DEF d
  <2>4. S \cup {r} \subseteq S \cup {NoCandidate}
    OBVIOUS
  <2>5. Of(S \cup {r}, e.buffer, e.tail)
    BY <1>2 DEF Own
  <2>6. Own(S, d.cand, d)
    <3>1. Of(S \cup {NoCandidate}, e.buffer, e.tail)
      BY <2>4, <2>5 DEF Of
    <3> QED BY <2>3, <3>1 DEF Own
  <2>7. o \in Option(CachedRollouts) /\ o[1] = d
    BY <2>1, <2>3, OptionIs
  <2> QED BY <2>6, <2>7
<1> QED BY <1>1, <1>2

-----------------------------------------------------------------------------
(* What a rollout may carry.                                               *)

Asking == {"query", "simulate", "store", "choose"}

Admitting == {"sched", "mirror", "ephemeral"}

PolicyStates == [pc : {"idle"} \cup Asking \cup Admitting, at : 0..NumReplicas, cand : Req \cup {NoCandidate},
                 hits : Nat, kept : Option(Kepts), rollout : Option(Rollouts), ttft : [Replicas -> Markers]]

Types ==
  /\ sched \in [Replicas -> Scheds]
  /\ ephemeral \in [Replicas -> Option(CachedRollouts)]
  /\ policy \in PolicyStates
  /\ replicaOf \in [Req -> 0..NumReplicas]
  /\ cached \in [Replicas -> SUBSET AllHashes]
  /\ stage \in [Replicas -> {"receive", "absorb", "check"}]
  /\ step \in [Replicas -> StepOutputs]
  /\ engine \in [Replicas -> Engines]
  /\ \A i \in Replicas : EngineOk(engine[i])

(* Where the scheduler's task is, and what is then in its variables.       *)
PolicyOk ==
  /\ policy.pc # "idle" => policy.cand \in Req
  /\ policy.pc \notin {"idle", "choose"} => policy.at \in Replicas
  /\ policy.pc = "store" => policy.rollout # <<>>
  /\ policy.pc \in Admitting => replicaOf[policy.cand] = policy.at

(* Requests are assigned in the order of their ids, one at a time.         *)
InOrder ==
  \E k \in Nat : /\ {q \in Req : replicaOf[q] # 0} = 1..k
                 /\ policy.pc \in Asking => policy.cand = k + 1

OwnOk ==
  /\ \A i \in Replicas : InFlight(sched[i]) \subseteq AssignedTo(i)
  /\ \A i \in Replicas : ephemeral[i] # <<>> => Own(AssignedTo(i), ephemeral[i][1].cand, ephemeral[i][1])
  /\ policy.pc = "simulate" /\ policy.kept # <<>> =>
        Of(AssignedTo(policy.at), policy.kept[1].buffer, policy.kept[1].tail)
  /\ policy.pc = "store" => Own(AssignedTo(policy.at), policy.cand, policy.rollout[1])

(* The candidate between its admission and its commit.                     *)
Held == IF policy.pc \in Admitting THEN {policy.cand} ELSE {}

(* An engine has requests that were given to it, and no other.             *)
GivenOk == \A i \in Replicas :
  engine[i].running \cup engine[i].waiting \cup engine[i].refused \subseteq AssignedTo(i) \ Held

RolloutInv == Types /\ PolicyOk /\ InOrder /\ OwnOk /\ GivenOk

LEMMA NoOutputType == NoOutput \in StepOutputs
<1>1. <<>> \in Seq(Outputs) /\ <<>> \in Seq(Req)
  BY EmptySeq
<1> QED BY <1>1 DEF NoOutput, StepOutputs

LEMMA IdleType == Idle \in PolicyStates /\ Idle.pc = "idle" /\ Idle.kept = <<>> /\ Idle.rollout = <<>>
<1>1. <<>> \in Option(Kepts) /\ <<>> \in Option(Rollouts)
  BY OptionIs
<1>2. 0 \in 0..NumReplicas
  BY PCtxAssumption
<1> QED BY <1>1, <1>2 DEF Idle, PolicyStates, Asking, Admitting, Markers

LEMMA RolloutInit == Init => RolloutInv
<1> SUFFICES ASSUME Init PROVE RolloutInv
  OBVIOUS
<1>1. Types
  <2>1. EmptySched \in Scheds /\ <<>> \in Option(CachedRollouts) /\ NoOutput \in StepOutputs /\ Idle \in PolicyStates
    BY EmptySchedType, OptionIs, NoOutputType, IdleType
  <2>2. 0 \in 0..NumReplicas
    BY PCtxAssumption
  <2>3. NewEngine \in Engines /\ EngineOk(NewEngine)
    BY DEF Engines, EngineOk, NewEngine
  <2>4. engine = [i \in Replicas |-> NewEngine]
    BY DEF Init
  <2>5. engine \in [Replicas -> Engines] /\ \A i \in Replicas : EngineOk(engine[i])
    BY <2>3, <2>4
  <2>6. /\ sched = [i \in Replicas |-> EmptySched] /\ ephemeral = [i \in Replicas |-> <<>>] /\ policy = Idle
        /\ replicaOf = [r \in Req |-> 0] /\ cached = [i \in Replicas |-> {}]
        /\ stage = [i \in Replicas |-> "receive"] /\ step = [i \in Replicas |-> NoOutput]
    BY DEF Init
  <2>7. ephemeral \in [Replicas -> Option(CachedRollouts)] /\ sched \in [Replicas -> Scheds]
    BY <2>1, <2>6
  <2> QED BY <2>1, <2>2, <2>5, <2>6, <2>7 DEF Types
<1>2. policy.pc = "idle"
  BY IdleType DEF Init
<1>3. PolicyOk
  BY <1>2 DEF PolicyOk, Admitting
<1>4. InOrder
  <2>1. {q \in Req : replicaOf[q] # 0} = 1..0
    BY DEF Init
  <2> QED BY <1>2, <2>1 DEF InOrder, Asking
<1>5. OwnOk
  <2>1. \A i \in Replicas : InFlight(sched[i]) = {} /\ ephemeral[i] = <<>>
    BY EmptySchedType DEF Init
  <2> QED BY <1>2, <2>1 DEF OwnOk
<1>6. GivenOk
  <2>1. \A i \in Replicas : engine[i].running = {} /\ engine[i].waiting = {} /\ engine[i].refused = {}
    BY DEF Init, NewEngine
  <2> QED BY <2>1 DEF GivenOk
<1> QED BY <1>1, <1>3, <1>4, <1>5, <1>6 DEF RolloutInv

LEMMA ScheduleRollout ==
  ASSUME RolloutInv, NEW r \in Req, Schedule(r)
  PROVE  RolloutInv'
<1> USE DEF RolloutInv
<1>1. /\ policy' = [Idle EXCEPT !.pc = "query", !.at = 1, !.cand = r]
      /\ UNCHANGED <<sched, ephemeral, replicaOf, cached, stage, step, engine>>
      /\ r = Cardinality({q \in Req : replicaOf[q] # 0}) + 1
  BY DEF Schedule
<1>2. 1 \in Replicas /\ 1 \in 0..NumReplicas
  BY PCtxAssumption DEF Replicas
<1>3. policy' \in PolicyStates /\ policy'.pc = "query" /\ policy'.at = 1 /\ policy'.cand = r
  BY <1>1, <1>2, IdleType DEF PolicyStates, Asking
<1>4. Types'
  BY <1>1, <1>3 DEF Types
<1>5. PolicyOk'
  BY <1>2, <1>3 DEF PolicyOk, Admitting
<1>6. InOrder'
  <2>1. PICK k \in Nat : {q \in Req : replicaOf[q] # 0} = 1..k
    BY DEF InOrder
  <2>2. Cardinality(1..k) = k
    BY FS_Interval
  <2>3. r = k + 1
    BY <1>1, <2>1, <2>2
  <2> QED BY <1>1, <1>3, <2>1, <2>3 DEF InOrder
<1>7. OwnOk'
  BY <1>1, <1>3 DEF OwnOk, AssignedTo
<1>8. GivenOk'
  BY <1>1, <1>3 DEF GivenOk, Held, AssignedTo, Admitting
<1> QED BY <1>4, <1>5, <1>6, <1>7, <1>8

LEMMA QueryTakeRollout ==
  ASSUME RolloutInv, QueryTake
  PROVE  RolloutInv'
<1> USE DEF RolloutInv
<1> DEFINE i == policy.at
           hashes == Hashes[policy.cand]
           known == PrefixHits(cached[i], hashes)
           mirrored == PrefixMatch(mirror[i], hashes)
           hits == IF known > mirrored THEN known ELSE mirrored
<1>1. /\ policy.pc = "query" /\ policy' = [policy EXCEPT !.pc = "simulate", !.kept = Recovered(i), !.hits = hits]
      /\ ephemeral' = [ephemeral EXCEPT ![i] = <<>>]
      /\ UNCHANGED <<sched, replicaOf, cached, stage, step, engine>>
  BY DEF QueryTake
<1>2. i \in Replicas /\ policy.cand \in Req
  BY <1>1 DEF PolicyOk
<1>3. hits \in Nat
  <2>1. known \in Nat
    BY <1>2, HitsType
  <2>2. mirrored \in Nat
    <3> DEFINE S == PathOf(hashes) \cap Paths(mirror[i].tree)
    <3>1. mirrored = Cardinality(S)
      BY DEF PrefixMatch, PrefixLen
    <3>2. IsFiniteSet(PathOf(hashes))
      <4>1. Len(hashes) \in Nat
        BY <1>2, HashesAssumption, LenProperties
      <4>2. IsFiniteSet(1..Len(hashes))
        BY <4>1, IntervalFinite
      <4> DEFINE N == 1..Len(hashes)
                 f == [n \in N |-> SubSeq(hashes, 1, n)]
      <4>3. f \in Surjection(N, PathOf(hashes))
        BY DEF Surjection, PathOf
      <4> HIDE DEF N, f
      <4> QED BY <4>2, <4>3, FS_Surjection DEF N
    <3>3. IsFiniteSet(S)
      BY <3>2, FS_Subset
    <3> HIDE DEF S
    <3> QED BY <3>1, <3>3, FS_CardinalityType
  <2> HIDE DEF known, mirrored
  <2> QED BY <2>1, <2>2
<1> HIDE DEF hits
<1>4. /\ Recovered(i) \in Option(Kepts)
      /\ Recovered(i) # <<>> => Of(AssignedTo(i), Recovered(i)[1].buffer, Recovered(i)[1].tail)
  <2>1. ephemeral[i] \in Option(CachedRollouts)
    BY <1>2 DEF Types
  <2>2. ephemeral[i] # <<>> => Own(AssignedTo(i), ephemeral[i][1].cand, ephemeral[i][1])
    BY <1>2 DEF OwnOk
  <2>3. AssignedTo(i) \in SUBSET Req
    BY DEF AssignedTo
  <2> QED BY <2>1, <2>2, <2>3, RecoveredIs
<1>5. /\ policy' \in PolicyStates /\ policy'.pc = "simulate" /\ policy'.kept = Recovered(i)
      /\ policy'.at = i /\ policy'.cand = policy.cand
  BY <1>1, <1>3, <1>4 DEF Types, PolicyStates, Asking
<1>6. ephemeral' \in [Replicas -> Option(CachedRollouts)] /\ ephemeral'[i] = <<>>
      /\ \A j \in Replicas \ {i} : ephemeral'[j] = ephemeral[j]
  BY <1>1, <1>2, OptionIs DEF Types
<1>7. Types'
  BY <1>1, <1>5, <1>6 DEF Types
<1>8. PolicyOk'
  BY <1>2, <1>5 DEF PolicyOk, Admitting
<1>9. InOrder'
  BY <1>1, <1>5 DEF InOrder, Asking
<1>10. OwnOk'
  <2>1. \A j : AssignedTo(j)' = AssignedTo(j)
    BY <1>1 DEF AssignedTo
  <2>2. \A j \in Replicas : ephemeral'[j] # <<>> => Own(AssignedTo(j), ephemeral'[j][1].cand, ephemeral'[j][1])
    BY <1>6 DEF OwnOk
  <2>3. \A j \in Replicas : InFlight(sched'[j]) \subseteq AssignedTo(j)
    BY <1>1 DEF OwnOk
  <2> HIDE DEF i
  <2> QED BY <1>4, <1>5, <2>1, <2>2, <2>3 DEF OwnOk
<1>11. GivenOk'
  BY <1>1, <1>5 DEF GivenOk, Held, AssignedTo, Admitting
<1> QED BY <1>7, <1>8, <1>9, <1>10, <1>11

LEMMA QuerySimulateRollout ==
  ASSUME RolloutInv, QuerySimulate
  PROVE  RolloutInv'
<1> USE DEF RolloutInv
<1> DEFINE i == policy.at
           c == policy.cand
           out == IF policy.kept = <<>> THEN FromScratch(sched[i], c, policy.hits)
                  ELSE ExtendWithCandidate(policy.kept[1].buffer, policy.kept[1].tail, c, policy.hits)
<1>1. /\ policy.pc = "simulate" /\ policy' = [policy EXCEPT !.pc = "store", !.kept = <<>>, !.rollout = <<out>>]
      /\ UNCHANGED <<sched, ephemeral, replicaOf, cached, stage, step, engine>>
  BY DEF QuerySimulate
<1>2. /\ i \in Replicas /\ c \in Req /\ policy.hits \in Nat /\ policy.kept \in Option(Kepts)
      /\ sched[i] \in Scheds
  BY <1>1 DEF PolicyOk, Types, PolicyStates
<1>3. c \notin AssignedTo(i)
  <2>1. PICK k \in Nat : {q \in Req : replicaOf[q] # 0} = 1..k /\ c = k + 1
    BY <1>1 DEF InOrder, Asking
  <2>2. replicaOf[c] = 0
    BY <1>2, <2>1
  <2>3. i # 0
    BY <1>2 DEF Replicas
  <2> QED BY <2>2, <2>3 DEF AssignedTo
<1>4. out \in Rollouts /\ Own(AssignedTo(i), c, out)
  <2>1. CASE policy.kept = <<>>
    <3>1. InFlight(sched[i]) \subseteq AssignedTo(i)
      BY <1>2 DEF OwnOk
    <3>2. out = FromScratch(sched[i], c, policy.hits)
      BY <2>1
    <3> HIDE DEF i, c, out
    <3> QED BY <1>2, <3>1, <3>2, FromScratchIs
  <2>2. CASE policy.kept # <<>>
    <3> DEFINE k == policy.kept[1]
    <3>1. k \in Kepts
      BY <1>2, <2>2, OptionIs
    <3>2. Of(AssignedTo(i), k.buffer, k.tail)
      BY <1>1, <2>2 DEF OwnOk
    <3>3. out = ExtendWithCandidate(k.buffer, k.tail, c, policy.hits)
      BY <2>2
    <3> HIDE DEF i, c, out, k
    <3>4. k.buffer \in Buffers /\ k.tail \in Scheds
      BY <3>1 DEF Kepts
    <3> QED BY <1>2, <1>3, <3>2, <3>3, <3>4, ExtendIs
  <2> QED BY <2>1, <2>2
<1> HIDE DEF out
<1>5. /\ policy' \in PolicyStates /\ policy'.pc = "store" /\ policy'.rollout = <<out>>
      /\ policy'.at = i /\ policy'.cand = c
  <2>1. <<out>> \in Option(Rollouts) /\ <<>> \in Option(Kepts)
    BY <1>4, OptionIs
  <2> QED BY <1>1, <2>1 DEF Types, PolicyStates, Asking
<1>6. policy'.rollout # <<>> /\ policy'.rollout[1] = out
  BY <1>4, <1>5, OptionIs
<1>7. Types'
  BY <1>1, <1>5 DEF Types
<1>8. PolicyOk'
  BY <1>2, <1>5, <1>6 DEF PolicyOk, Admitting
<1>9. InOrder'
  BY <1>1, <1>5 DEF InOrder, Asking
<1>10. OwnOk'
  <2>1. \A j : AssignedTo(j)' = AssignedTo(j)
    BY <1>1 DEF AssignedTo
  <2>2. \A j \in Replicas : ephemeral'[j] # <<>> => Own(AssignedTo(j), ephemeral'[j][1].cand, ephemeral'[j][1])
    BY <1>1 DEF OwnOk
  <2>3. \A j \in Replicas : InFlight(sched'[j]) \subseteq AssignedTo(j)
    BY <1>1 DEF OwnOk
  <2> HIDE DEF i, c
  <2> QED BY <1>4, <1>5, <1>6, <2>1, <2>2, <2>3 DEF OwnOk
<1>11. GivenOk'
  BY <1>1, <1>5 DEF GivenOk, Held, AssignedTo, Admitting
<1> QED BY <1>7, <1>8, <1>9, <1>10, <1>11

LEMMA QueryStoreRollout ==
  ASSUME RolloutInv, QueryStore
  PROVE  RolloutInv'
<1> USE DEF RolloutInv
<1> DEFINE i == policy.at
           c == policy.cand
           out == policy.rollout[1]
           e == [cand |-> c, buffer |-> out.buffer, tail |-> out.tail, savepoint |-> out.savepoint]
           pc == IF i = NumReplicas THEN "choose" ELSE "query"
           at == IF i = NumReplicas THEN 0 ELSE i + 1
<1>1. /\ policy.pc = "store"
      /\ policy' = [policy EXCEPT !.rollout = <<>>, !.hits = 0, !.ttft[i] = TtftOf(out.buffer), !.pc = pc, !.at = at]
      /\ ephemeral' = [ephemeral EXCEPT ![i] = <<e>>]
      /\ UNCHANGED <<sched, replicaOf, cached, stage, step, engine>>
  BY DEF QueryStore
<1>2. i \in Replicas /\ c \in Req /\ out \in Rollouts
  BY <1>1, OptionIs DEF PolicyOk, Types, PolicyStates
<1>3. Own(AssignedTo(i), c, out)
  BY <1>1 DEF OwnOk
<1> HIDE DEF out
<1>4. e \in CachedRollouts /\ e.cand = c /\ Own(AssignedTo(i), c, e)
  <2>1. e \in CachedRollouts /\ e.cand = c
    BY <1>2 DEF CachedRollouts, Rollouts
  <2>2. e.buffer = out.buffer /\ e.tail = out.tail /\ e.savepoint = out.savepoint
    OBVIOUS
  <2> HIDE DEF e, c, i
  <2> QED BY <1>3, <2>1, <2>2 DEF Own
<1> HIDE DEF e
<1>5. TtftOf(out.buffer) \in Markers
  BY <1>2, TtftIs DEF Rollouts
<1>6. pc \in Asking /\ at \in 0..NumReplicas /\ (pc = "query" => at \in Replicas) /\ pc # "store" /\ pc # "simulate"
  BY <1>2, PCtxAssumption DEF Replicas, Asking
<1> HIDE DEF pc, at
<1>7. policy' \in PolicyStates /\ policy'.pc = pc /\ policy'.at = at /\ policy'.cand = c
  <2>1. <<>> \in Option(Rollouts)
    BY OptionIs
  <2>2. [policy.ttft EXCEPT ![i] = TtftOf(out.buffer)] \in [Replicas -> Markers]
    BY <1>5 DEF Types, PolicyStates
  <2> QED BY <1>1, <1>6, <2>1, <2>2 DEF Types, PolicyStates
<1>8. /\ ephemeral' \in [Replicas -> Option(CachedRollouts)] /\ ephemeral'[i][1] = e
      /\ \A j \in Replicas \ {i} : ephemeral'[j] = ephemeral[j]
  <2>1. <<e>> \in Option(CachedRollouts) /\ <<e>>[1] = e
    BY <1>4, OptionIs
  <2> QED BY <1>1, <1>2, <2>1 DEF Types
<1>9. Types'
  BY <1>1, <1>7, <1>8 DEF Types
<1>10. PolicyOk'
  BY <1>2, <1>6, <1>7 DEF PolicyOk, Admitting, Asking
<1>11. InOrder'
  BY <1>1, <1>7 DEF InOrder, Asking
<1>12. OwnOk'
  <2>1. \A j : AssignedTo(j)' = AssignedTo(j)
    BY <1>1 DEF AssignedTo
  <2>2. \A j \in Replicas : ephemeral'[j] # <<>> => Own(AssignedTo(j), ephemeral'[j][1].cand, ephemeral'[j][1])
    <3> TAKE j \in Replicas
    <3>1. CASE j = i
      BY <1>4, <1>8, <3>1
    <3>2. CASE j # i
      BY <1>8, <3>2 DEF OwnOk
    <3> QED BY <3>1, <3>2
  <2>3. \A j \in Replicas : InFlight(sched'[j]) \subseteq AssignedTo(j)
    BY <1>1 DEF OwnOk
  <2> HIDE DEF i, c
  <2> QED BY <1>6, <1>7, <2>1, <2>2, <2>3 DEF OwnOk
<1>13. GivenOk'
  BY <1>1, <1>6, <1>7 DEF GivenOk, Held, AssignedTo, Admitting, Asking
<1> QED BY <1>9, <1>10, <1>11, <1>12, <1>13

LEMMA ChooseRollout ==
  ASSUME RolloutInv, Choose
  PROVE  RolloutInv'
<1> USE DEF RolloutInv
<1> DEFINE i == LeastTtft(policy.ttft)
           c == policy.cand
<1>1. /\ policy.pc = "choose" /\ policy' = [policy EXCEPT !.pc = "sched", !.at = i]
      /\ replicaOf' = [replicaOf EXCEPT ![c] = i]
      /\ UNCHANGED <<sched, ephemeral, cached, stage, step, engine>>
  BY DEF Choose
<1>2. i \in Replicas /\ c \in Req
  BY <1>1, LeastTtftIs DEF PolicyOk, Types, PolicyStates
<1> HIDE DEF i
<1>3. i \in 0..NumReplicas /\ i # 0
  BY <1>2, PCtxAssumption DEF Replicas
<1>4. policy' \in PolicyStates /\ policy'.pc = "sched" /\ policy'.at = i /\ policy'.cand = c
  BY <1>1, <1>3 DEF Types, PolicyStates, Admitting
<1>5. /\ replicaOf \in [Req -> 0..NumReplicas] /\ replicaOf' \in [Req -> 0..NumReplicas] /\ replicaOf'[c] = i
      /\ \A q \in Req \ {c} : replicaOf'[q] = replicaOf[q]
  BY <1>1, <1>2, <1>3 DEF Types
<1>6. PICK k \in Nat : {q \in Req : replicaOf[q] # 0} = 1..k /\ c = k + 1
  BY <1>1 DEF InOrder, Asking
<1>7. replicaOf[c] = 0
  BY <1>2, <1>6
<1>8. Types'
  BY <1>1, <1>4, <1>5 DEF Types
<1>9. PolicyOk'
  BY <1>2, <1>4, <1>5 DEF PolicyOk, Admitting
<1>10. InOrder'
  <2>1. {q \in Req : replicaOf'[q] # 0} = {q \in Req : replicaOf[q] # 0} \cup {c}
    BY <1>2, <1>3, <1>5
  <2>2. 1..(k + 1) = (1..k) \cup {k + 1} /\ k + 1 \in Nat
    OBVIOUS
  <2> QED BY <1>4, <1>6, <2>1, <2>2 DEF InOrder, Asking
<1>11. OwnOk'
  <2>1. \A j \in Replicas : AssignedTo(j) \subseteq AssignedTo(j)'
    <3>1. \A j \in Replicas : j # 0
      BY DEF Replicas
    <3> QED BY <1>5, <1>7, <3>1 DEF AssignedTo
  <2>2. ASSUME NEW j \in Replicas, ephemeral'[j] # <<>>
        PROVE  Own(AssignedTo(j)', ephemeral'[j][1].cand, ephemeral'[j][1])
    <3>1. Own(AssignedTo(j), ephemeral'[j][1].cand, ephemeral'[j][1])
      BY <1>1, <2>2 DEF OwnOk
    <3> QED BY <2>1, <3>1, OwnMonotone
  <2>3. \A j \in Replicas : InFlight(sched'[j]) \subseteq AssignedTo(j)'
    BY <1>1, <2>1 DEF OwnOk
  <2> HIDE DEF c
  <2> QED BY <1>4, <2>2, <2>3 DEF OwnOk
<1>12. GivenOk'
  <2> SUFFICES ASSUME NEW j \in Replicas
               PROVE  engine'[j].running \cup engine'[j].waiting \cup engine'[j].refused \subseteq (AssignedTo(j) \ Held)'
    BY DEF GivenOk
  <2>1. engine'[j].running \cup engine'[j].waiting \cup engine'[j].refused \subseteq AssignedTo(j)
    BY <1>1 DEF GivenOk
  <2>2. \A q \in AssignedTo(j) : q # c /\ q \in AssignedTo(j)'
    BY <1>5, <1>7 DEF AssignedTo, Replicas
  <2>3. Held' = {c}
    BY <1>4 DEF Held, Admitting
  <2> QED BY <2>1, <2>2, <2>3
<1> QED BY <1>8, <1>9, <1>10, <1>11, <1>12

LEMMA AdmitSchedRollout ==
  ASSUME RolloutInv, AdmitSched
  PROVE  RolloutInv'
<1> USE DEF RolloutInv
<1> DEFINE i == policy.at
           c == policy.cand
           s == Admit(sched[i], c, 0)
<1>1. /\ policy.pc = "sched" /\ policy' = [policy EXCEPT !.pc = "mirror"]
      /\ sched' = [sched EXCEPT ![i] = s]
      /\ UNCHANGED <<ephemeral, replicaOf, cached, stage, step, engine>>
  BY DEF AdmitSched
<1>2. i \in Replicas /\ c \in Req /\ replicaOf[c] = i /\ sched[i] \in Scheds
  BY <1>1 DEF PolicyOk, Types, Admitting
<1>3. s \in Scheds /\ InFlight(s) = InFlight(sched[i]) \cup {c}
  <2>1. /\ s \in Scheds /\ s.running = sched[i].running
        /\ Range(s.waiting) = Range(sched[i].waiting) \cup {c}
    <3> DEFINE t == sched[i]
    <3>1. s = Admit(t, c, 0) /\ t \in Scheds /\ 0 \in Nat
      BY <1>2
    <3> HIDE DEF s, t, c
    <3> QED BY <1>2, <3>1, AdmitIs DEF t
  <2> HIDE DEF s
  <2> QED BY <2>1 DEF InFlight
<1> HIDE DEF s
<1>4. policy' \in PolicyStates /\ policy'.pc = "mirror" /\ policy'.at = i /\ policy'.cand = c
  BY <1>1 DEF Types, PolicyStates, Admitting
<1>5. sched' \in [Replicas -> Scheds] /\ sched'[i] = s /\ \A j \in Replicas \ {i} : sched'[j] = sched[j]
  BY <1>1, <1>2, <1>3 DEF Types
<1>6. Types'
  BY <1>1, <1>4, <1>5 DEF Types
<1>7. PolicyOk'
  BY <1>1, <1>2, <1>4 DEF PolicyOk, Admitting
<1>8. InOrder'
  BY <1>1, <1>4 DEF InOrder, Asking
<1>9. OwnOk'
  <2>1. \A j : AssignedTo(j)' = AssignedTo(j)
    BY <1>1 DEF AssignedTo
  <2>2. \A j \in Replicas : ephemeral'[j] # <<>> => Own(AssignedTo(j), ephemeral'[j][1].cand, ephemeral'[j][1])
    BY <1>1 DEF OwnOk
  <2>3. c \in AssignedTo(i)
    BY <1>2 DEF AssignedTo
  <2>4. \A j \in Replicas : InFlight(sched'[j]) \subseteq AssignedTo(j)
    BY <1>2, <1>3, <1>5, <2>3 DEF OwnOk
  <2> HIDE DEF i, c
  <2> QED BY <1>4, <2>1, <2>2, <2>4 DEF OwnOk
<1>10. GivenOk'
  BY <1>1, <1>4 DEF GivenOk, Held, AssignedTo, Admitting
<1> QED BY <1>6, <1>7, <1>8, <1>9, <1>10

LEMMA AdmitMirrorRollout ==
  ASSUME RolloutInv, AdmitMirror
  PROVE  RolloutInv'
<1> USE DEF RolloutInv
<1>1. /\ policy.pc = "mirror" /\ policy' = [policy EXCEPT !.pc = "ephemeral"]
      /\ UNCHANGED <<sched, ephemeral, replicaOf, cached, stage, step, engine>>
  BY DEF AdmitMirror
<1>2. /\ policy' \in PolicyStates /\ policy'.pc = "ephemeral" /\ policy'.at = policy.at
      /\ policy'.cand = policy.cand
  BY <1>1 DEF Types, PolicyStates, Admitting
<1>3. Types'
  BY <1>1, <1>2 DEF Types
<1>4. PolicyOk'
  BY <1>1, <1>2 DEF PolicyOk, Admitting
<1>5. InOrder'
  BY <1>1, <1>2 DEF InOrder, Asking
<1>6. OwnOk'
  <2>1. \A j : AssignedTo(j)' = AssignedTo(j)
    BY <1>1 DEF AssignedTo
  <2> QED BY <1>1, <1>2, <2>1 DEF OwnOk
<1>7. GivenOk'
  BY <1>1, <1>2 DEF GivenOk, Held, AssignedTo, Admitting
<1> QED BY <1>3, <1>4, <1>5, <1>6, <1>7

LEMMA AdmitEphemeralRollout ==
  ASSUME RolloutInv, AdmitEphemeral
  PROVE  RolloutInv'
<1> USE DEF RolloutInv
<1> DEFINE i == policy.at
           c == policy.cand
           o == IF ephemeral[i] = <<>> THEN <<>> ELSE Promoted(ephemeral[i][1], c)
           Take(e) == [e EXCEPT !.waiting = @ \cup {c}]
           Refuse(e) == [e EXCEPT !.refused = @ \cup {c}]
<1>1. /\ policy.pc = "ephemeral" /\ policy' = Idle /\ ephemeral' = [ephemeral EXCEPT ![i] = o]
      /\ \E f \in {Take(engine[i]), Refuse(engine[i])} : engine' = [engine EXCEPT ![i] = f]
      /\ UNCHANGED <<sched, replicaOf, cached, stage, step>>
  BY DEF AdmitEphemeral
<1>2. i \in Replicas /\ c \in Req /\ replicaOf[c] = i
  BY <1>1 DEF PolicyOk, Types, Admitting
<1>3. o \in Option(CachedRollouts) /\ (o # <<>> => Own(AssignedTo(i), o[1].cand, o[1]))
  <2>1. CASE ephemeral[i] = <<>>
    BY <2>1, OptionIs
  <2>2. CASE ephemeral[i] # <<>>
    <3> DEFINE e == ephemeral[i][1]
    <3>1. e \in CachedRollouts
      BY <1>2, <2>2, OptionIs DEF Types
    <3>2. Own(AssignedTo(i), e.cand, e)
      BY <1>2, <2>2 DEF OwnOk
    <3>3. c \in AssignedTo(i)
      BY <1>2 DEF AssignedTo
    <3>4. o = Promoted(e, c)
      BY <2>2
    <3> HIDE DEF e, o, i, c
    <3> QED BY <1>2, <3>1, <3>2, <3>3, <3>4, PromotedIs
  <2> QED BY <2>1, <2>2
<1> HIDE DEF o
<1>4. policy' \in PolicyStates /\ policy'.pc = "idle"
  BY <1>1, IdleType
<1>5. /\ ephemeral' \in [Replicas -> Option(CachedRollouts)] /\ ephemeral'[i] = o
      /\ \A j \in Replicas \ {i} : ephemeral'[j] = ephemeral[j]
  BY <1>1, <1>2, <1>3 DEF Types
<1>12. PICK f \in {Take(engine[i]), Refuse(engine[i])} : engine' = [engine EXCEPT ![i] = f]
  BY <1>1
<1>13. /\ f \in Engines /\ EngineOk(f) /\ f.running = engine[i].running
       /\ f.waiting \cup f.refused = engine[i].waiting \cup engine[i].refused \cup {c}
  <2> DEFINE e == engine[i]
  <2>1. /\ e \in Engines /\ EngineOk(e) /\ c \in Req /\ c \notin e.running \cup e.waiting \cup e.refused
        /\ f \in {Take(e), Refuse(e)}
    BY <1>1, <1>2, <1>12 DEF GivenOk, Held, Admitting, Types
  <2> HIDE DEF e, c
  <2>2. CASE f = Take(e)
    BY <2>1, <2>2 DEF Engines, EngineOk
  <2>3. CASE f = Refuse(e)
    BY <2>1, <2>3 DEF Engines, EngineOk
  <2> QED BY <2>1, <2>2, <2>3 DEF e, c
<1>6. engine' \in [Replicas -> Engines] /\ \A j \in Replicas : EngineOk(engine'[j])
  BY <1>2, <1>12, <1>13 DEF Types
<1>7. Types'
  BY <1>1, <1>4, <1>5, <1>6 DEF Types
<1>8. PolicyOk'
  BY <1>4 DEF PolicyOk, Admitting
<1>9. InOrder'
  BY <1>1, <1>4 DEF InOrder, Asking
<1>10. OwnOk'
  <2>1. \A j : AssignedTo(j)' = AssignedTo(j)
    BY <1>1 DEF AssignedTo
  <2>2. \A j \in Replicas : ephemeral'[j] # <<>> => Own(AssignedTo(j), ephemeral'[j][1].cand, ephemeral'[j][1])
    BY <1>3, <1>5 DEF OwnOk
  <2>3. \A j \in Replicas : InFlight(sched'[j]) \subseteq AssignedTo(j)
    BY <1>1 DEF OwnOk
  <2> HIDE DEF i, c
  <2> QED BY <1>4, <2>1, <2>2, <2>3 DEF OwnOk
<1>11. GivenOk'
  <2>1. c \in AssignedTo(i)
    BY <1>2 DEF AssignedTo
  <2>2. \A j : AssignedTo(j)' = AssignedTo(j)
    BY <1>1 DEF AssignedTo
  <2>3. \A j \in Replicas : engine'[j] = IF j = i THEN f ELSE engine[j]
    BY <1>2, <1>12 DEF Types
  <2>4. Held' = {}
    BY <1>4 DEF Held, Admitting
  <2>5. \A j \in Replicas : engine[j].running \cup engine[j].waiting \cup engine[j].refused \subseteq AssignedTo(j)
    BY DEF GivenOk
  <2> HIDE DEF i, c
  <2> QED BY <1>13, <2>1, <2>2, <2>3, <2>4, <2>5 DEF GivenOk
<1> QED BY <1>7, <1>8, <1>9, <1>10, <1>11

LEMMA EngineStepRollout ==
  ASSUME RolloutInv, NEW i \in Replicas, EngineStep(i)
  PROVE  RolloutInv'
<1> USE DEF RolloutInv
<1>1. /\ UNCHANGED <<sched, mirror, ephemeral, policy, replicaOf>>
      /\ stage' = [stage EXCEPT ![i] = "absorb"]
  BY DEF EngineStep, routerVars
<1>2. PICK m \in StepOutputs, f \in Engines, c \in SUBSET AllHashes :
         /\ step' = [step EXCEPT ![i] = m] /\ engine' = [engine EXCEPT ![i] = f]
         /\ cached' = [cached EXCEPT ![i] = c] /\ EngineOk(f) /\ Stepped(engine[i], m, f)
  BY EngineStepIs DEF Types
<1>3. Types'
  BY <1>1, <1>2 DEF Types
<1>4. PolicyOk'
  BY <1>1 DEF PolicyOk
<1>5. InOrder'
  BY <1>1 DEF InOrder
<1>6. OwnOk'
  BY <1>1 DEF OwnOk, AssignedTo
<1>7. GivenOk'
  <2>1. /\ f.running \cup f.waiting \subseteq engine[i].running \cup engine[i].waiting
        /\ f.refused = engine[i].refused
    BY <1>2 DEF Stepped, Moved
  <2>2. \A j \in Replicas : engine'[j] = IF j = i THEN f ELSE engine[j]
    BY <1>2 DEF Types
  <2> QED BY <1>1, <2>1, <2>2 DEF GivenOk, Held, AssignedTo
<1> QED BY <1>3, <1>4, <1>5, <1>6, <1>7

LEMMA OnSseAbsorbRollout ==
  ASSUME RolloutInv, NEW i \in Replicas, OnSseAbsorb(i)
  PROVE  RolloutInv'
<1> USE DEF RolloutInv
<1> DEFINE s == Sync(sched[i], step[i])
<1>1. /\ UNCHANGED <<ephemeral, policy, replicaOf, cached, step, engine>>
      /\ stage' = [stage EXCEPT ![i] = "check"] /\ sched' = [sched EXCEPT ![i] = s]
  BY DEF OnSseAbsorb
<1>2. s \in Scheds /\ InFlight(s) \subseteq InFlight(sched[i])
  <2>1. sched[i] \in Scheds /\ step[i] \in StepOutputs
    BY DEF Types
  <2> QED BY <2>1, SyncInFlight
<1> HIDE DEF s
<1>3. sched' \in [Replicas -> Scheds] /\ sched'[i] = s /\ \A j \in Replicas \ {i} : sched'[j] = sched[j]
  BY <1>1, <1>2 DEF Types
<1>4. Types'
  BY <1>1, <1>3 DEF Types
<1>5. PolicyOk'
  BY <1>1 DEF PolicyOk
<1>6. InOrder'
  BY <1>1 DEF InOrder
<1>7. OwnOk'
  <2>1. \A j : AssignedTo(j)' = AssignedTo(j)
    BY <1>1 DEF AssignedTo
  <2>2. \A j \in Replicas : InFlight(sched'[j]) \subseteq AssignedTo(j)
    BY <1>2, <1>3 DEF OwnOk
  <2> QED BY <1>1, <2>1, <2>2 DEF OwnOk
<1>8. GivenOk'
  BY <1>1 DEF GivenOk, Held, AssignedTo
<1> QED BY <1>4, <1>5, <1>6, <1>7, <1>8

LEMMA OnSseCheckRollout ==
  ASSUME RolloutInv, NEW i \in Replicas, OnSseCheck(i)
  PROVE  RolloutInv'
<1> USE DEF RolloutInv
<1> DEFINE o == IF ephemeral[i] = <<>> THEN <<>> ELSE CrossChecked(ephemeral[i][1], step[i])
<1>1. /\ UNCHANGED <<sched, mirror, policy, replicaOf, cached, engine>>
      /\ stage' = [stage EXCEPT ![i] = "receive"] /\ step' = [step EXCEPT ![i] = NoOutput]
      /\ ephemeral' = [ephemeral EXCEPT ![i] = o]
  BY DEF OnSseCheck
<1>2. o \in Option(CachedRollouts) /\ (o # <<>> => Own(AssignedTo(i), o[1].cand, o[1]))
  <2>1. CASE ephemeral[i] = <<>>
    BY <2>1, OptionIs
  <2>2. CASE ephemeral[i] # <<>>
    <3> DEFINE e == ephemeral[i][1]
    <3>1. e \in CachedRollouts
      BY <2>2, OptionIs DEF Types
    <3>2. Own(AssignedTo(i), e.cand, e)
      BY <2>2 DEF OwnOk
    <3>3. o = CrossChecked(e, step[i])
      BY <2>2
    <3> HIDE DEF e, o
    <3> QED BY <3>1, <3>2, <3>3, CrossCheckedIs
  <2> QED BY <2>1, <2>2
<1> HIDE DEF o
<1>3. /\ ephemeral' \in [Replicas -> Option(CachedRollouts)] /\ ephemeral'[i] = o
      /\ \A j \in Replicas \ {i} : ephemeral'[j] = ephemeral[j]
  BY <1>1, <1>2 DEF Types
<1>4. Types'
  BY <1>1, <1>3, NoOutputType DEF Types
<1>5. PolicyOk'
  BY <1>1 DEF PolicyOk
<1>6. InOrder'
  BY <1>1 DEF InOrder
<1>7. OwnOk'
  <2>1. \A j : AssignedTo(j)' = AssignedTo(j)
    BY <1>1 DEF AssignedTo
  <2>2. \A j \in Replicas : ephemeral'[j] # <<>> => Own(AssignedTo(j), ephemeral'[j][1].cand, ephemeral'[j][1])
    BY <1>2, <1>3 DEF OwnOk
  <2> QED BY <1>1, <2>1, <2>2 DEF OwnOk
<1>8. GivenOk'
  BY <1>1 DEF GivenOk, Held, AssignedTo
<1> QED BY <1>4, <1>5, <1>6, <1>7, <1>8

LEMMA RolloutNext == RolloutInv /\ [Next]_vars => RolloutInv'
<1> SUFFICES ASSUME RolloutInv, [Next]_vars PROVE RolloutInv'
  OBVIOUS
<1>1. CASE UNCHANGED vars
  <2>1. UNCHANGED <<sched, mirror, ephemeral, policy, replicaOf, cached, stage, step, engine>>
    BY <1>1 DEF vars, routerVars
  <2>2. Types' /\ PolicyOk' /\ InOrder'
    BY <2>1 DEF RolloutInv, Types, PolicyOk, InOrder
  <2>3. OwnOk'
    BY <2>1 DEF RolloutInv, OwnOk, AssignedTo
  <2>4. GivenOk'
    BY <2>1 DEF RolloutInv, GivenOk, Held, AssignedTo
  <2> QED BY <2>2, <2>3, <2>4 DEF RolloutInv
<1>2. ASSUME NEW r \in Req, Schedule(r) PROVE RolloutInv'
  BY <1>2, ScheduleRollout
<1>3. CASE QueryTake
  BY <1>3, QueryTakeRollout
<1>4. CASE QuerySimulate
  BY <1>4, QuerySimulateRollout
<1>5. CASE QueryStore
  BY <1>5, QueryStoreRollout
<1>6. CASE Choose
  BY <1>6, ChooseRollout
<1>7. CASE AdmitSched
  BY <1>7, AdmitSchedRollout
<1>8. CASE AdmitMirror
  BY <1>8, AdmitMirrorRollout
<1>9. CASE AdmitEphemeral
  BY <1>9, AdmitEphemeralRollout
<1>10. ASSUME NEW i \in Replicas, EngineStep(i) PROVE RolloutInv'
  BY <1>10, EngineStepRollout
<1>11. ASSUME NEW i \in Replicas, OnSseAbsorb(i) PROVE RolloutInv'
  BY <1>11, OnSseAbsorbRollout
<1>12. ASSUME NEW i \in Replicas, OnSseCheck(i) PROVE RolloutInv'
  BY <1>12, OnSseCheckRollout
<1> QED BY <1>1, <1>2, <1>3, <1>4, <1>5, <1>6, <1>7, <1>8, <1>9, <1>10, <1>11, <1>12 DEF Next

LEMMA RolloutAlways == Spec => []RolloutInv
BY RolloutInit, RolloutNext, PTL DEF Spec

(* What a pointwise condition says of all the slots.                       *)
LEMMA SlotRequestsIs ==
  ASSUME NEW q \in Seq(Slots), NEW S, \A n \in 1..Len(q) : q[n].prefill \cup q[n].decode \subseteq S
  PROVE  SlotRequests(q) \subseteq S
<1>1. DOMAIN q = 1..Len(q)
  BY LenProperties
<1> QED BY <1>1 DEF SlotRequests

(***************************************************************************)
(* No rollout, cached or taken up again, carries a request of another      *)
(* replica but the candidate it is for: a candidate that was tried here    *)
(* and went elsewhere leaves nothing behind (pctx.rs, query and on_admit). *)
(***************************************************************************)
THEOREM SimulatorRolloutOwnRequests == Spec => []RolloutOwnRequests
<1>1. RolloutInv => RolloutOwnRequests
  <2> SUFFICES ASSUME RolloutInv, NEW i \in Replicas
      PROVE  /\ ephemeral[i] # <<>> =>
                  LET e == ephemeral[i][1] IN
                  SlotRequests(e.buffer.slots) \cup InFlight(e.tail) \subseteq AssignedTo(i) \cup {e.cand}
             /\ policy.pc = "simulate" /\ policy.at = i /\ policy.kept # <<>> =>
                  SlotRequests(policy.kept[1].buffer.slots) \cup InFlight(policy.kept[1].tail)
                    \subseteq AssignedTo(i)
    BY DEF RolloutOwnRequests
  <2>1. ASSUME ephemeral[i] # <<>>
        PROVE  SlotRequests(ephemeral[i][1].buffer.slots) \cup InFlight(ephemeral[i][1].tail)
                  \subseteq AssignedTo(i) \cup {ephemeral[i][1].cand}
    <3> DEFINE e == ephemeral[i][1]
    <3>1. e \in CachedRollouts
      BY <2>1, OptionIs DEF RolloutInv, Types
    <3>2. Of(AssignedTo(i) \cup {e.cand}, e.buffer, e.tail)
      BY <2>1 DEF RolloutInv, OwnOk, Own
    <3> HIDE DEF e
    <3>3. e.buffer.slots \in Seq(Slots)
      BY <3>1 DEF CachedRollouts, Buffers
    <3>4. SlotRequests(e.buffer.slots) \subseteq AssignedTo(i) \cup {e.cand}
      BY <3>2, <3>3, SlotRequestsIs DEF Of
    <3> QED BY <3>2, <3>4 DEF Of, e
  <2>2. ASSUME policy.pc = "simulate", policy.at = i, policy.kept # <<>>
        PROVE  SlotRequests(policy.kept[1].buffer.slots) \cup InFlight(policy.kept[1].tail)
                    \subseteq AssignedTo(i)
    <3> DEFINE e == policy.kept[1]
    <3>1. e \in Kepts
      BY <2>2, OptionIs DEF RolloutInv, Types, PolicyStates
    <3>2. Of(AssignedTo(i), e.buffer, e.tail)
      BY <2>2 DEF RolloutInv, OwnOk
    <3> HIDE DEF e
    <3>3. e.buffer.slots \in Seq(Slots)
      BY <3>1 DEF Kepts, Buffers
    <3>4. SlotRequests(e.buffer.slots) \subseteq AssignedTo(i)
      BY <3>2, <3>3, SlotRequestsIs DEF Of
    <3> QED BY <3>2, <3>4 DEF Of, e
  <2> QED BY <2>1, <2>2
<1> QED BY <1>1, RolloutAlways, PTL

(***************************************************************************)
(* A savepoint is beside a candidate, and what it recovers, slots and      *)
(* queues, is without it, after any number of steps popped off the head    *)
(* (pctx.rs:77-89).                                                        *)
(***************************************************************************)
THEOREM SimulatorSavepointRecovers == Spec => []SavepointRecovers
<1>1. RolloutInv => SavepointRecovers
  <2> SUFFICES ASSUME RolloutInv, NEW i \in Replicas, ephemeral[i] # <<>>, ephemeral[i][1].savepoint # <<>>
      PROVE  LET e == ephemeral[i][1]
                 s == e.savepoint[1]
             IN /\ e.cand # NoCandidate
                /\ s.idx \in 1..Len(e.buffer.slots)
                /\ e.cand \notin SlotRequests(SubSeq(e.buffer.slots, 1, s.idx)) \cup InFlight(s.tail)
    BY DEF SavepointRecovers
  <2> DEFINE e == ephemeral[i][1]
             s == e.savepoint[1]
             S == AssignedTo(i) \ {e.cand}
             q == e.buffer.slots
             v == SubSeq(q, 1, s.idx)
  <2>1. e \in CachedRollouts
    BY OptionIs DEF RolloutInv, Types
  <2>2. /\ e.cand # NoCandidate /\ s.idx \in 1..Len(q) /\ InFlight(s.tail) \subseteq S
        /\ \A n \in 1..s.idx : q[n].prefill \cup q[n].decode \subseteq S
    BY DEF RolloutInv, OwnOk, Own
  <2> HIDE DEF e, S
  <2>3. q \in Seq(Slots) /\ Len(q) \in Nat
    BY <2>1, LenProperties DEF CachedRollouts, Buffers
  <2> HIDE DEF s
  <2>4. s.idx \in Nat /\ \A n \in 1..s.idx : n \in 1..Len(q) /\ q[n] \in Slots
    <3> HIDE DEF q
    <3> QED BY <2>2, <2>3, LenProperties
  <2>5. v \in Seq(Slots) /\ Len(v) = s.idx /\ \A n \in 1..s.idx : v[n] = q[n]
    <3> HIDE DEF q
    <3> QED BY <2>2, <2>4, SubSeqProperties
  <2> HIDE DEF v, q
  <2>6. SlotRequests(v) \subseteq S
    BY <2>2, <2>5, SlotRequestsIs
  <2> QED BY <2>2, <2>6 DEF S, v, q, s, e
<1> QED BY <1>1, RolloutAlways, PTL

-----------------------------------------------------------------------------
(* The snapshot and the engine.                                            *)

View(s) == [running |-> s.running, waiting |-> Range(s.waiting), done |-> s.processed]

(* The candidate, once it is in the snapshot of replica i and not yet in   *)
(* its engine.                                                             *)
Admitted(i) == IF policy.pc \in {"mirror", "ephemeral"} /\ policy.at = i THEN {policy.cand} ELSE {}

(* What the snapshot of an engine e is to be, with the requests A on their *)
(* way to it and those it refused.                                         *)
Due(e, A) == [running |-> e.running, waiting |-> e.waiting \cup e.refused \cup A,
              done |-> e.done, shared |-> e.shared]

Same(v, g) ==
  /\ v.running = g.running /\ v.waiting = g.waiting
  /\ \A r \in g.running \cup g.waiting : Close(g, r, v.done[r])

(* A step, m, that a snapshot v has to absorb to be what is due.           *)
Absorbs(v, m, g) ==
  /\ Moved(v, m, g)
  /\ \A r \in g.running \cup g.waiting : r \notin Rids(m) =>
        Close(g, r, IF r \in Range(m.preempted) THEN 0 ELSE v.done[r])
  /\ \A k \in 1..Len(m.outputs) : ~m.outputs[k].finished =>
        LET o == m.outputs[k]
        IN IF o.state = "PREFILL"
           THEN g.done[o.rid] <= InputLength[o.rid] /\ Close(g, o.rid, o.prev + ChunkOf(m, k))
           ELSE o.rid \in v.running /\ Close(g, o.rid, v.done[o.rid] + 1)

(* A step's output is what the snapshot has to absorb to be what is due.   *)
SnapshotOk ==
  \A i \in Replicas :
    /\ sched[i].running \cap Range(sched[i].waiting) = {}
    /\ IF stage[i] = "absorb" THEN Absorbs(View(sched[i]), step[i], Due(engine[i], Admitted(i)))
       ELSE Same(View(sched[i]), Due(engine[i], Admitted(i)))

(* Nothing of a candidate is in a snapshot before its admission.           *)
FreshOk == policy.pc = "sched" => \A i \in Replicas : policy.cand \notin InFlight(sched[i])

ProgressInv == RolloutInv /\ SnapshotOk /\ FreshOk

(* Whatever a step says, the snapshot that absorbs it is what is due.      *)
LEMMA SyncExact ==
  ASSUME NEW s \in Scheds, NEW m \in StepOutputs, NEW g, s.running \cap Range(s.waiting) = {},
         Absorbs(View(s), m, g), g.done \in [Req -> Nat]
  PROVE  LET t == Sync(s, m)
         IN t.running \cap Range(t.waiting) = {} /\ Same(View(t), g)
<1> DEFINE t == SyncOutputs(s, m)
           u == PreemptAll(t, m.preempted)
           v == DropAll(u, m.aborted)
           R == Rids(m)
           Fin == FinishedIn(m)
           pre == Range(m.preempted)
           abo == Range(m.aborted)
           n == Len(m.outputs)
           W == Range(s.waiting)
<1>1. Sync(s, m) = v
  BY DEF Sync
<1>0. m.preempted \in Seq(Req) /\ m.aborted \in Seq(Req)
  BY DEF StepOutputs
<1>2. /\ Distinct(m) /\ R \subseteq s.running \cup W
      /\ pre \subseteq s.running \ R /\ abo \subseteq (s.running \cup W) \ R /\ pre \cap abo = {}
      /\ g.running = (s.running \cup R) \ (Fin \cup pre \cup abo)
      /\ g.waiting = (W \ (R \cup abo)) \cup pre
      /\ \A r \in g.running \cup g.waiting : r \notin R =>
            Close(g, r, IF r \in pre THEN 0 ELSE s.processed[r])
  BY DEF Absorbs, Moved, View
<1>3. ASSUME NEW k \in 1..n, ~m.outputs[k].finished
      PROVE  IF m.outputs[k].state = "PREFILL"
             THEN /\ g.done[m.outputs[k].rid] <= InputLength[m.outputs[k].rid]
                  /\ Close(g, m.outputs[k].rid, m.outputs[k].prev + ChunkOf(m, k))
             ELSE /\ m.outputs[k].rid \in s.running
                  /\ Close(g, m.outputs[k].rid, s.processed[m.outputs[k].rid] + 1)
  BY <1>3, Zenon DEF Absorbs, View
<1>4. /\ s.running \subseteq Req /\ W \subseteq Req /\ s.processed \in [Req -> Nat] /\ n \in Nat
  BY RangeBasics, LenProperties DEF Scheds, StepOutputs
<1>5. Fin \subseteq R
  <2>1. Range(m.outputs) = {m.outputs[k] : k \in 1..n}
    BY LenProperties DEF Range, StepOutputs
  <2> QED BY <2>1 DEF FinishedIn, Rids
<1>6. /\ t \in Scheds /\ t.running = (s.running \cup R) \ Fin /\ Range(t.waiting) = W \ R
      /\ \A q \in Req \ R : t.processed[q] = s.processed[q]
      /\ \A k \in 1..n : t.processed[m.outputs[k].rid] =
                            IF m.outputs[k].finished THEN 0 ELSE ProgressAfter(s, m, k)
  <2>1. \A k \in 1..n : m.outputs[k].rid \in InFlight(s)
    BY <1>2 DEF Rids, InFlight
  <2>2. t \in Scheds
    BY SyncOutputsInFlight
  <2> DEFINE rids == {m.outputs[k].rid : k \in 1..n}
  <2>3. rids = R
    BY DEF Rids
  <2>4. Distinct(m)
    BY <1>2
  <2>5. /\ t.running = (s.running \cup rids) \ Fin
        /\ Range(t.waiting) = W \ rids
        /\ \A q \in Req \ rids : t.processed[q] = s.processed[q]
        /\ \A k \in 1..n : t.processed[m.outputs[k].rid] =
                             IF m.outputs[k].finished THEN 0 ELSE ProgressAfter(s, m, k)
    BY <2>1, <2>4, SyncOutputsExact
  <2> HIDE DEF t, R, Fin, W, rids
  <2> QED BY <2>2, <2>3, <2>5
<1> HIDE DEF t
<1>7. /\ u \in Scheds /\ u.running = t.running \ pre /\ Range(u.waiting) = Range(t.waiting) \cup (pre \cap t.running)
      /\ \A r \in Req : u.processed[r] = IF r \in pre \cap t.running THEN 0 ELSE t.processed[r]
  <2>1. t \in Scheds
    BY <1>6
  <2> QED BY <2>1, <1>0, PreemptAllIs
<1> HIDE DEF u
<1>8. /\ v.running = u.running \ abo /\ Range(v.waiting) = Range(u.waiting) \ abo
      /\ \A r \in Req : v.processed[r] = IF r \in abo THEN 0 ELSE u.processed[r]
  BY <1>7, <1>0, DropAllIs
<1> HIDE DEF v
<1> HIDE DEF R, Fin, pre, abo, W
<1>9. v.running = g.running
  BY <1>2, <1>6, <1>7, <1>8
<1>10. pre \subseteq t.running
  BY <1>2, <1>5, <1>6
<1>11. Range(v.waiting) = g.waiting
  BY <1>2, <1>6, <1>7, <1>8, <1>10
<1>12. g.running \cap g.waiting = {} /\ g.running \cup g.waiting \subseteq Req
  <2>1. s.running \cap W = {}
    BY DEF W
  <2> QED BY <1>2, <1>4, <2>1
<1>13. ASSUME NEW r \in g.running \cup g.waiting PROVE Close(g, r, v.processed[r])
  <2>1. r \in Req /\ r \notin abo
    BY <1>2, <1>12
  <2>2. CASE r \in pre
    <3>1. r \notin R /\ u.processed[r] = 0
      BY <1>2, <1>7, <1>10, <2>1, <2>2
    <3> QED BY <1>2, <1>8, <2>1, <2>2, <3>1
  <2>3. CASE r \notin pre
    <3>1. v.processed[r] = t.processed[r]
      BY <1>7, <1>8, <2>1, <2>3
    <3>2. CASE r \notin R
      BY <1>2, <1>6, <2>1, <2>3, <3>1, <3>2
    <3>3. CASE r \in R
      <4>1. PICK k \in 1..n : r = m.outputs[k].rid
        BY <3>3 DEF R, Rids
      <4>2. r \notin Fin
        BY <1>2, <2>3, <3>3
      <4>3. ~m.outputs[k].finished
        <5>1. m.outputs[k] \in Range(m.outputs)
          BY LenProperties DEF Range, StepOutputs
        <5> QED BY <4>1, <4>2, <5>1 DEF Fin, FinishedIn
      <4>4. t.processed[r] = ProgressAfter(s, m, k)
        BY <1>6, <4>1, <4>3
      <4>5. Close(g, r, ProgressAfter(s, m, k))
        <5> DEFINE o == m.outputs[k]
                   end == o.prev + ChunkOf(m, k)
                   all == IF InputLength[o.rid] = 0 THEN 1 ELSE InputLength[o.rid]
        <5>1. o.rid = r /\ InputLength[r] \in Nat \ {0} /\ o.prev \in Nat
          BY <2>1, <4>1, OutputType, ReqAssumption
        <5>2. ProgressAfter(s, m, k) = IF o.state = "PREFILL" THEN (IF end < all THEN end ELSE all)
                               ELSE (IF o.rid \in s.running THEN s.processed[o.rid] ELSE InputLength[o.rid]) + 1
          BY DEF ProgressAfter
        <5>3. CASE o.state = "PREFILL"
          <6>1. ChunkOf(m, k) \in Nat
            BY <5>3, ChunkIs
          <6>2. Close(g, r, end) /\ g.done[r] <= InputLength[r]
            BY <1>3, <4>3, <5>1, <5>3
          <6>3. all = InputLength[r] /\ end \in Nat /\ g.done[r] \in Nat
            BY <2>1, <5>1, <6>1
          <6> HIDE DEF o, end, all
          <6>4. ProgressAfter(s, m, k) = IF end < all THEN end ELSE all
            BY <5>2, <5>3
          <6>5. CASE end < all
            BY <6>2, <6>4, <6>5
          <6>6. CASE ~(end < all) /\ r \in g.shared
            <7>1. ProgressAfter(s, m, k) = InputLength[r] /\ InputLength[r] <= end
              BY <5>1, <6>3, <6>4, <6>6
            <7>2. end < g.done[r] + TokenBudget /\ g.done[r] < end + TokenBudget
              BY <6>2, <6>6 DEF Close
            <7>3. InputLength[r] < g.done[r] + TokenBudget /\ g.done[r] < InputLength[r] + TokenBudget
              BY <5>1, <6>2, <6>3, <7>1, <7>2, RolloutAssumption
            <7> QED BY <6>6, <7>1, <7>3 DEF Close
          <6>7. CASE ~(end < all) /\ r \notin g.shared
            <7>1. end = g.done[r]
              BY <6>2, <6>7 DEF Close
            <7>2. InputLength[r] = g.done[r]
              BY <5>1, <6>2, <6>3, <6>7, <7>1
            <7> QED BY <6>3, <6>4, <6>7, <7>2 DEF Close
          <6> QED BY <6>5, <6>6, <6>7
        <5>4. CASE o.state # "PREFILL"
          <6>1. r \in s.running /\ Close(g, r, s.processed[r] + 1)
            BY <1>3, <4>3, <5>1, <5>4
          <6> HIDE DEF o, end, all
          <6> QED BY <5>1, <5>2, <5>4, <6>1
        <5> QED BY <5>3, <5>4
      <4> QED BY <3>1, <4>4, <4>5
    <3> QED BY <3>2, <3>3
  <2> QED BY <2>2, <2>3
<1>14. Same(View(v), g)
  BY <1>9, <1>11, <1>13 DEF Same, View
<1> QED BY <1>1, <1>9, <1>11, <1>12, <1>14

(* A step of the engine is a step from what the snapshot has.              *)
LEMMA StepDue ==
  ASSUME NEW s \in Scheds, NEW e \in Engines, NEW f \in Engines, EngineOk(e), EngineOk(f), NEW m,
         NEW A \in SUBSET Req, A \cap (e.running \cup e.waiting) = {},
         Same(View(s), Due(e, A)), Stepped(e, m, f)
  PROVE  Absorbs(View(s), m, Due(f, A))
<1> DEFINE R == Rids(m)
           Fin == FinishedIn(m)
           pre == Range(m.preempted)
           abo == Range(m.aborted)
           B == A \cup e.refused
           n == Len(m.outputs)
           g == Due(f, A)
           v == View(s)
           x == s.processed
<1>1. /\ v.running = e.running /\ v.waiting = e.waiting \cup B /\ v.done = x
      /\ \A r \in e.running \cup e.waiting \cup B : Close(e, r, x[r])
  BY DEF Same, View, Due, Close
<1>2. /\ Distinct(m) /\ R \subseteq e.running \cup e.waiting
      /\ pre \subseteq e.running \ R /\ abo \subseteq (e.running \cup e.waiting) \ R /\ pre \cap abo = {}
      /\ f.running = (e.running \cup R) \ (Fin \cup pre \cup abo)
      /\ f.waiting = (e.waiting \ (R \cup abo)) \cup pre /\ f.refused = e.refused
      /\ \A r \in f.running \cup f.waiting : r \notin R =>
            /\ r \in pre => f.done[r] = 0
            /\ r \notin pre => f.done[r] = e.done[r] /\ (r \in f.shared <=> r \in e.shared)
  BY Zenon DEF Stepped, Moved
<1>3. \A k \in 1..n : ~m.outputs[k].finished =>
        LET o == m.outputs[k]
        IN IF o.state = "PREFILL"
           THEN f.done[o.rid] <= InputLength[o.rid] /\ Close(f, o.rid, o.prev + ChunkOf(m, k))
           ELSE /\ o.rid \in e.running /\ f.done[o.rid] = e.done[o.rid] + 1
                /\ o.rid \in f.shared <=> o.rid \in e.shared
  BY Zenon DEF Stepped
<1>4. /\ g.running = f.running /\ g.waiting = f.waiting \cup B /\ g.done = f.done /\ g.shared = f.shared
      /\ \A r, y : Close(g, r, y) <=> Close(f, r, y)
  BY <1>2 DEF Due, Close
<1>5. /\ B \subseteq Req /\ B \cap (e.running \cup e.waiting) = {} /\ e.running \subseteq Req
      /\ e.shared \subseteq e.running /\ f.shared \subseteq f.running
  BY DEF EngineOk, Engines
<1>11. \A r \in Req : e.done[r] \in Nat /\ x[r] \in Nat
  BY DEF Engines, Scheds
<1>12. /\ \A r \in Req : r \notin e.running => e.done[r] = 0
       /\ \A r \in Req : r \notin f.running => f.done[r] = 0
  BY DEF EngineOk
<1> HIDE DEF g, v, x, R, Fin, pre, abo, B
<1>6. Moved(v, m, g)
  <2>1. /\ R \subseteq v.running \cup v.waiting /\ pre \subseteq v.running \ R
        /\ abo \subseteq (v.running \cup v.waiting) \ R
        /\ g.running = (v.running \cup R) \ (Fin \cup pre \cup abo)
    BY <1>1, <1>2, <1>4
  <2>2. g.waiting = (v.waiting \ (R \cup abo)) \cup pre
    BY <1>1, <1>2, <1>4, <1>5
  <2> QED BY <1>2, <2>1, <2>2, Zenon DEF Moved, R, Fin, pre, abo
<1>7. \A r \in B : f.done[r] = 0 /\ e.done[r] = 0 /\ x[r] = 0 /\ r \notin pre /\ r \notin f.shared
  <2> SUFFICES ASSUME NEW r \in B
               PROVE  f.done[r] = 0 /\ e.done[r] = 0 /\ x[r] = 0 /\ r \notin pre /\ r \notin f.shared
    OBVIOUS
  <2>1. r \notin e.running /\ r \notin f.running /\ r \notin pre /\ r \in Req
    BY <1>2, <1>5
  <2>2. f.done[r] = 0 /\ e.done[r] = 0 /\ r \notin f.shared /\ r \notin e.shared
    BY <1>5, <1>12, <2>1
  <2>3. Close(e, r, x[r])
    BY <1>1
  <2> QED BY <2>1, <2>2, <2>3 DEF Close
<1>8. ASSUME NEW r \in g.running \cup g.waiting, r \notin R
      PROVE  Close(g, r, IF r \in pre THEN 0 ELSE v.done[r])
  <2>1. CASE r \in B
    BY <1>1, <1>4, <1>7, <2>1 DEF Close
  <2>2. CASE r \notin B
    <3>1. r \in f.running \cup f.waiting /\ r \in e.running \cup e.waiting
      BY <1>2, <1>4, <1>8, <2>2
    <3>2. CASE r \in pre
      <4>1. r \notin f.running /\ f.done[r] = 0
        BY <1>2, <1>8, <3>1, <3>2
      <4> QED BY <1>4, <1>5, <3>2, <4>1 DEF Close
    <3>3. CASE r \notin pre
      <4>1. f.done[r] = e.done[r] /\ (r \in f.shared <=> r \in e.shared) /\ Close(e, r, x[r])
        BY <1>1, <1>2, <1>8, <3>1, <3>3
      <4>2. Close(f, r, x[r])
        BY <4>1 DEF Close
      <4> QED BY <1>1, <1>4, <3>3, <4>2
    <3> QED BY <3>2, <3>3
  <2> QED BY <2>1, <2>2
<1>9. ASSUME NEW k \in 1..n, ~m.outputs[k].finished
      PROVE  LET o == m.outputs[k]
             IN IF o.state = "PREFILL"
                THEN g.done[o.rid] <= InputLength[o.rid] /\ Close(g, o.rid, o.prev + ChunkOf(m, k))
                ELSE o.rid \in v.running /\ Close(g, o.rid, v.done[o.rid] + 1)
  <2> DEFINE r == m.outputs[k].rid
  <2>1. CASE m.outputs[k].state = "PREFILL"
    BY <1>3, <1>4, <1>9, <2>1
  <2>2. CASE m.outputs[k].state # "PREFILL"
    <3>1. r \in e.running /\ f.done[r] = e.done[r] + 1 /\ (r \in f.shared <=> r \in e.shared)
      BY <1>3, <1>9, <2>2
    <3> HIDE DEF r
    <3>0. r \in Req /\ r \in e.running \cup e.waiting \cup B
      BY <1>5, <3>1
    <3>2. Close(e, r, x[r]) /\ e.done[r] \in Nat /\ x[r] \in Nat
      <4>1. Close(e, r, x[r])
        BY <1>1, <3>0
      <4>2. e.done[r] \in Nat /\ x[r] \in Nat
        BY <1>11, <3>0
      <4> QED BY <4>1, <4>2
    <3>3. Close(f, r, x[r] + 1)
      <4>1. CASE r \in f.shared
        <5>1. x[r] < e.done[r] + TokenBudget /\ e.done[r] < x[r] + TokenBudget
          BY <3>1, <3>2, <4>1 DEF Close
        <5>2. x[r] + 1 < f.done[r] + TokenBudget /\ f.done[r] < (x[r] + 1) + TokenBudget
          BY <3>1, <3>2, <5>1, RolloutAssumption
        <5> QED BY <4>1, <5>2 DEF Close
      <4>2. CASE r \notin f.shared
        BY <3>1, <3>2, <4>2 DEF Close
      <4> QED BY <4>1, <4>2
    <3>4. r \in v.running /\ Close(g, r, v.done[r] + 1)
      BY <1>1, <1>4, <3>1, <3>3
    <3> QED BY <2>2, <3>4 DEF r
  <2> QED BY <2>1, <2>2
<1>10. Absorbs(v, m, g)
  BY <1>6, <1>8, <1>9, Zenon DEF Absorbs, R, pre, n
<1> QED BY <1>10 DEF v, g

(* A candidate is admitted to a snapshot that has a step to absorb.        *)
LEMMA AdmitDue ==
  ASSUME NEW s \in Scheds, NEW c \in Req, c \notin InFlight(s), NEW e \in Engines, EngineOk(e),
         c \notin e.running \cup e.waiting \cup e.refused
  PROVE  LET t == Admit(s, c, 0)
         IN /\ \A m : Absorbs(View(s), m, Due(e, {})) => Absorbs(View(t), m, Due(e, {c}))
            /\ Same(View(s), Due(e, {})) => Same(View(t), Due(e, {c}))
<1> DEFINE t == Admit(s, c, 0)
           v == View(s)
           w == View(t)
           g == Due(e, {})
           h == Due(e, {c})
<1>1. /\ v.running = s.running /\ v.waiting = Range(s.waiting) /\ v.done = s.processed
      /\ w.running = t.running /\ w.waiting = Range(t.waiting) /\ w.done = t.processed
      /\ g.running = e.running /\ g.waiting = e.waiting \cup e.refused /\ g.done = e.done
      /\ h.running = e.running /\ h.waiting = e.waiting \cup e.refused \cup {c} /\ h.done = e.done
      /\ g.shared = e.shared /\ h.shared = e.shared
  BY DEF View, Due
<1>2. /\ t.running = s.running /\ Range(t.waiting) = Range(s.waiting) \cup {c}
      /\ t.processed = [s.processed EXCEPT ![c] = 0]
  BY AdmitIs
<1> HIDE DEF t, v, w, g, h
<1>3. /\ w.running = v.running /\ w.waiting = v.waiting \cup {c} /\ c \notin v.running \cup v.waiting
      /\ w.done[c] = 0 /\ \A r : r # c => w.done[r] = v.done[r]
  <2>1. s.processed \in [Req -> Nat]
    BY DEF Scheds
  <2>2. w.done = [v.done EXCEPT ![c] = 0] /\ v.done \in [Req -> Nat]
    BY <1>1, <1>2, <2>1
  <2>3. w.done[c] = 0 /\ \A r : r # c => w.done[r] = v.done[r]
    BY <2>2
  <2>4. c \notin v.running \cup v.waiting
    BY <1>1 DEF InFlight
  <2> QED BY <1>1, <1>2, <2>3, <2>4
<1>4. /\ h.running = g.running /\ h.waiting = g.waiting \cup {c} /\ h.done = g.done /\ h.shared = g.shared
      /\ c \notin g.running \cup g.waiting /\ Close(h, c, 0) /\ \A r, y : Close(h, r, y) <=> Close(g, r, y)
  BY <1>1 DEF EngineOk, Close
<1>5. ASSUME Same(v, g) PROVE Same(w, h)
  BY <1>3, <1>4, <1>5 DEF Same
<1>6. ASSUME NEW m, Absorbs(v, m, g) PROVE Absorbs(w, m, h)
  <2> DEFINE R == Rids(m)
             Fin == FinishedIn(m)
             pre == Range(m.preempted)
             abo == Range(m.aborted)
             n == Len(m.outputs)
  <2>1. /\ Distinct(m) /\ R \subseteq v.running \cup v.waiting
        /\ pre \subseteq v.running \ R /\ abo \subseteq (v.running \cup v.waiting) \ R /\ pre \cap abo = {}
        /\ g.running = (v.running \cup R) \ (Fin \cup pre \cup abo)
        /\ g.waiting = (v.waiting \ (R \cup abo)) \cup pre
        /\ \A r \in g.running \cup g.waiting : r \notin R => Close(g, r, IF r \in pre THEN 0 ELSE v.done[r])
    BY <1>6 DEF Absorbs, Moved
  <2>2. \A k \in 1..n : ~m.outputs[k].finished =>
          LET o == m.outputs[k]
          IN IF o.state = "PREFILL"
             THEN g.done[o.rid] <= InputLength[o.rid] /\ Close(g, o.rid, o.prev + ChunkOf(m, k))
             ELSE o.rid \in v.running /\ Close(g, o.rid, v.done[o.rid] + 1)
    BY <1>6, Zenon DEF Absorbs
  <2>3. \A k \in 1..n : m.outputs[k].rid \in R
    BY DEF Rids
  <2> HIDE DEF R, Fin, pre, abo
  <2>4. c \notin R \cup abo \cup pre
    BY <1>3, <2>1
  <2>5. /\ R \subseteq w.running \cup w.waiting
        /\ pre \subseteq w.running \ R /\ abo \subseteq (w.running \cup w.waiting) \ R
        /\ h.running = (w.running \cup R) \ (Fin \cup pre \cup abo)
        /\ h.waiting = (w.waiting \ (R \cup abo)) \cup pre
    BY <1>3, <1>4, <2>1, <2>4
  <2>6. ASSUME NEW r \in h.running \cup h.waiting, r \notin R
        PROVE  Close(h, r, IF r \in pre THEN 0 ELSE w.done[r])
    BY <1>3, <1>4, <2>1, <2>4, <2>6
  <2>7. ASSUME NEW k \in 1..n, ~m.outputs[k].finished
        PROVE  LET o == m.outputs[k]
               IN IF o.state = "PREFILL"
                  THEN h.done[o.rid] <= InputLength[o.rid] /\ Close(h, o.rid, o.prev + ChunkOf(m, k))
                  ELSE o.rid \in w.running /\ Close(h, o.rid, w.done[o.rid] + 1)
    <3>1. m.outputs[k].rid # c
      BY <2>3, <2>4
    <3> QED BY <1>3, <1>4, <2>2, <2>7, <3>1
  <2>8. Moved(w, m, h)
    BY <2>1, <2>5, Zenon DEF Moved, R, Fin, pre, abo
  <2> QED BY <2>6, <2>7, <2>8, Zenon DEF Absorbs, R, pre
<1> QED BY <1>5, <1>6 DEF v, w, g, h, t

LEMMA ProgressInit == Init => ProgressInv
<1> SUFFICES ASSUME Init PROVE ProgressInv
  OBVIOUS
<1>1. policy.pc = "idle"
  BY IdleType DEF Init
<1>2. FreshOk
  BY <1>1 DEF FreshOk
<1>3. ASSUME NEW i \in Replicas
      PROVE  /\ sched[i].running \cap Range(sched[i].waiting) = {} /\ stage[i] # "absorb"
             /\ Same(View(sched[i]), Due(engine[i], Admitted(i)))
  <2>1. sched[i] = EmptySched /\ stage[i] = "receive"
    BY DEF Init
  <2>2. engine[i].running = {} /\ engine[i].waiting = {} /\ engine[i].refused = {}
    BY DEF Init, NewEngine
  <2>3. Admitted(i) = {}
    BY <1>1 DEF Admitted
  <2>4. EmptySched.running = {} /\ Range(EmptySched.waiting) = {}
    BY EmptySchedType DEF EmptySched, InFlight
  <2> QED BY <2>1, <2>2, <2>3, <2>4 DEF Same, View, Due
<1>4. SnapshotOk
  BY <1>3 DEF SnapshotOk
<1> QED BY <1>2, <1>4, RolloutInit DEF ProgressInv

(* What leaves snapshots and engines alone, and who is on the way.         *)
LEMMA SnapshotUnchanged ==
  ASSUME SnapshotOk, UNCHANGED <<sched, stage, step, engine>>,
         \A i \in Replicas : Admitted(i)' = Admitted(i)
  PROVE  SnapshotOk'
BY DEF SnapshotOk

(* The steps of the policy before the admission.                           *)
LEMMA AskProgress ==
  ASSUME ProgressInv, NEW r \in Req, Schedule(r) \/ QueryTake \/ QuerySimulate \/ QueryStore
  PROVE  SnapshotOk' /\ FreshOk'
<1>1. UNCHANGED <<sched, stage, step, engine>>
  BY DEF Schedule, QueryTake, QuerySimulate, QueryStore
<1>2. policy.pc \notin Admitting /\ policy'.pc \notin Admitting
  <2>1. policy \in PolicyStates
    BY DEF ProgressInv, RolloutInv, Types
  <2>2. CASE Schedule(r)
    BY <2>2, IdleType DEF Schedule, PolicyStates, Admitting
  <2>3. CASE QueryTake
    BY <2>1, <2>3 DEF QueryTake, PolicyStates, Admitting
  <2>4. CASE QuerySimulate
    BY <2>1, <2>4 DEF QuerySimulate, PolicyStates, Admitting
  <2>5. CASE QueryStore
    BY <2>1, <2>5 DEF QueryStore, PolicyStates, Admitting
  <2> QED BY <2>2, <2>3, <2>4, <2>5
<1>3. \A i \in Replicas : Admitted(i)' = Admitted(i)
  BY <1>2 DEF Admitted, Admitting
<1> QED BY <1>1, <1>2, <1>3, SnapshotUnchanged DEF ProgressInv, FreshOk, Admitting

LEMMA ChooseProgress ==
  ASSUME ProgressInv, Choose
  PROVE  SnapshotOk' /\ FreshOk'
<1> DEFINE c == policy.cand
<1>1. policy.pc = "choose" /\ c \in Req /\ policy \in PolicyStates
  BY DEF Choose, ProgressInv, RolloutInv, Types, PolicyOk
<1>2. policy'.pc = "sched" /\ policy'.cand = c /\ UNCHANGED <<sched, stage, step, engine>>
  BY <1>1 DEF Choose, PolicyStates
<1>3. \A i \in Replicas : Admitted(i)' = Admitted(i)
  BY <1>1, <1>2 DEF Admitted
<1>4. replicaOf[c] = 0
  <2>1. PICK k \in Nat : {q \in Req : replicaOf[q] # 0} = 1..k /\ c = k + 1
    BY <1>1 DEF ProgressInv, RolloutInv, InOrder, Asking
  <2> QED BY <1>1, <2>1
<1>5. \A i \in Replicas : c \notin InFlight(sched[i])
  BY <1>4 DEF ProgressInv, RolloutInv, OwnOk, AssignedTo, Replicas
<1> HIDE DEF c
<1>6. FreshOk'
  BY <1>2, <1>5 DEF FreshOk
<1> QED BY <1>2, <1>3, <1>6, SnapshotUnchanged DEF ProgressInv

LEMMA AdmitSchedProgress ==
  ASSUME ProgressInv, AdmitSched
  PROVE  SnapshotOk' /\ FreshOk'
<1> DEFINE i == policy.at
           c == policy.cand
           s == sched[i]
           t == Admit(s, c, 0)
           e == engine[i]
<1>1. policy.pc = "sched" /\ policy \in PolicyStates /\ i \in Replicas /\ c \in Req
  BY DEF AdmitSched, ProgressInv, RolloutInv, Types, PolicyOk
<1>2. /\ policy'.pc = "mirror" /\ policy'.at = i /\ policy'.cand = c
      /\ sched' = [sched EXCEPT ![i] = t] /\ UNCHANGED <<stage, step, engine>>
  BY <1>1 DEF AdmitSched, PolicyStates
<1>3. s \in Scheds /\ e \in Engines /\ EngineOk(e)
  BY <1>1 DEF ProgressInv, RolloutInv, Types
<1>4. c \notin InFlight(s) /\ c \notin e.running \cup e.waiting \cup e.refused
  BY <1>1 DEF ProgressInv, RolloutInv, FreshOk, GivenOk, Held, Admitting
<1>5. /\ \A j \in Replicas : Admitted(j) = {}
      /\ \A j \in Replicas : Admitted(j)' = IF j = i THEN {c} ELSE {}
  BY <1>1, <1>2 DEF Admitted
<1>6. sched'[i] = t /\ \A j \in Replicas \ {i} : sched'[j] = sched[j]
  BY <1>1, <1>2 DEF ProgressInv, RolloutInv, Types
<1> HIDE DEF c, i, s, e, t
<1>7. /\ \A m : Absorbs(View(s), m, Due(e, {})) => Absorbs(View(t), m, Due(e, {c}))
      /\ Same(View(s), Due(e, {})) => Same(View(t), Due(e, {c}))
  BY <1>1, <1>3, <1>4, AdmitDue DEF t
<1>8. s.running \cap Range(s.waiting) = {} /\
      IF stage[i] = "absorb" THEN Absorbs(View(s), step[i], Due(e, {})) ELSE Same(View(s), Due(e, {}))
  BY <1>1, <1>5 DEF ProgressInv, SnapshotOk, s, e
<1>9. t.running \cap Range(t.waiting) = {}
  <2>1. t.running = s.running /\ Range(t.waiting) = Range(s.waiting) \cup {c}
    BY <1>1, <1>3, AdmitIs DEF t
  <2> QED BY <1>4, <1>8, <2>1 DEF InFlight
<1>10. ASSUME NEW j \in Replicas
       PROVE  (/\ sched[j].running \cap Range(sched[j].waiting) = {}
               /\ IF stage[j] = "absorb" THEN Absorbs(View(sched[j]), step[j], Due(engine[j], Admitted(j)))
                  ELSE Same(View(sched[j]), Due(engine[j], Admitted(j))))'
  <2>1. CASE j = i
    <3>1. sched'[j] = t /\ engine'[j] = e /\ stage'[j] = stage[j] /\ step'[j] = step[j] /\ Admitted(j)' = {c}
      BY <1>2, <1>5, <1>6, <2>1 DEF e
    <3>2. IF stage[j] = "absorb" THEN Absorbs(View(t), step[j], Due(e, {c})) ELSE Same(View(t), Due(e, {c}))
      BY <1>7, <1>8, <2>1
    <3> QED BY <1>9, <3>1, <3>2
  <2>2. CASE j # i
    <3>1. sched'[j] = sched[j] /\ Admitted(j)' = Admitted(j)
      BY <1>5, <1>6, <2>2
    <3> QED BY <1>2, <3>1 DEF ProgressInv, SnapshotOk
  <2> QED BY <2>1, <2>2
<1> QED BY <1>2, <1>10 DEF SnapshotOk, FreshOk

LEMMA AdmitMirrorProgress ==
  ASSUME ProgressInv, AdmitMirror
  PROVE  SnapshotOk' /\ FreshOk'
<1>1. policy.pc = "mirror" /\ policy \in PolicyStates
  BY DEF AdmitMirror, ProgressInv, RolloutInv, Types
<1>2. /\ policy'.pc = "ephemeral" /\ policy'.at = policy.at /\ policy'.cand = policy.cand
      /\ UNCHANGED <<sched, stage, step, engine>>
  BY <1>1 DEF AdmitMirror, PolicyStates
<1>3. \A i \in Replicas : Admitted(i)' = Admitted(i)
  BY <1>1, <1>2 DEF Admitted
<1> QED BY <1>2, <1>3, SnapshotUnchanged DEF ProgressInv, FreshOk

LEMMA AdmitEphemeralProgress ==
  ASSUME ProgressInv, AdmitEphemeral
  PROVE  SnapshotOk' /\ FreshOk'
<1> DEFINE i == policy.at
           c == policy.cand
<1>1. policy.pc = "ephemeral" /\ policy \in PolicyStates /\ i \in Replicas /\ c \in Req
  BY DEF AdmitEphemeral, ProgressInv, RolloutInv, Types, PolicyOk
<1>2. /\ policy'.pc = "idle" /\ UNCHANGED <<sched, stage, step>>
      /\ \/ engine' = [engine EXCEPT ![i].waiting = @ \cup {c}]
         \/ engine' = [engine EXCEPT ![i].refused = @ \cup {c}]
  BY IdleType DEF AdmitEphemeral
<1>3. /\ \A j \in Replicas : Admitted(j)' = {}
      /\ Admitted(i) = {c} /\ \A j \in Replicas \ {i} : Admitted(j) = {}
  BY <1>1, <1>2 DEF Admitted
<1>4. engine \in [Replicas -> Engines]
  BY DEF ProgressInv, RolloutInv, Types
<1> HIDE DEF c, i
<1>5. \A j \in Replicas : Due(engine[j], Admitted(j))' = Due(engine[j], Admitted(j))
  <2>1. /\ engine'[i].running = engine[i].running /\ engine'[i].done = engine[i].done
        /\ engine'[i].shared = engine[i].shared
        /\ engine'[i].waiting \cup engine'[i].refused = engine[i].waiting \cup engine[i].refused \cup {c}
    <3>1. engine[i] \in Engines
      BY <1>1, <1>4
    <3>2. CASE engine' = [engine EXCEPT ![i].waiting = @ \cup {c}]
      <4>1. engine'[i] = [engine[i] EXCEPT !.waiting = engine[i].waiting \cup {c}]
        BY <1>1, <1>4, <3>2
      <4> QED BY <3>1, <4>1 DEF Engines
    <3>3. CASE engine' = [engine EXCEPT ![i].refused = @ \cup {c}]
      <4>1. engine'[i] = [engine[i] EXCEPT !.refused = engine[i].refused \cup {c}]
        BY <1>1, <1>4, <3>3
      <4> QED BY <3>1, <4>1 DEF Engines
    <3> QED BY <1>2, <3>2, <3>3
  <2>2. \A j \in Replicas \ {i} : engine'[j] = engine[j]
    BY <1>1, <1>2, <1>4
  <2> QED BY <1>1, <1>3, <2>1, <2>2 DEF Due
<1> QED BY <1>2, <1>5 DEF ProgressInv, SnapshotOk, FreshOk

LEMMA EngineStepProgress ==
  ASSUME ProgressInv, NEW i \in Replicas, EngineStep(i)
  PROVE  SnapshotOk' /\ FreshOk'
<1> DEFINE s == sched[i]
           e == engine[i]
           A == Admitted(i)
<1>1. /\ UNCHANGED <<sched, policy>> /\ stage[i] = "receive" /\ stage' = [stage EXCEPT ![i] = "absorb"]
  BY DEF EngineStep, routerVars
<1>2. PICK m \in StepOutputs, f \in Engines, c \in SUBSET AllHashes :
         /\ step' = [step EXCEPT ![i] = m] /\ engine' = [engine EXCEPT ![i] = f]
         /\ EngineOk(f) /\ Stepped(engine[i], m, f)
  BY EngineStepIs DEF ProgressInv, RolloutInv, Types
<1>3. s \in Scheds /\ e \in Engines /\ EngineOk(e)
  BY DEF ProgressInv, RolloutInv, Types
<1>4. A \in SUBSET Req /\ A \cap (e.running \cup e.waiting) = {}
  <2>1. policy.pc \in Admitting => policy.cand \in Req
    BY DEF ProgressInv, RolloutInv, PolicyOk, Admitting
  <2> QED BY <2>1 DEF ProgressInv, RolloutInv, GivenOk, Held, Admitted, Admitting
<1>5. s.running \cap Range(s.waiting) = {} /\ Same(View(s), Due(e, A))
  BY <1>1 DEF ProgressInv, SnapshotOk
<1>6. \A j \in Replicas : Admitted(j)' = Admitted(j)
  BY <1>1 DEF Admitted
<1>7. /\ stage'[i] = "absorb" /\ step'[i] = m /\ engine'[i] = f
      /\ \A j \in Replicas \ {i} : stage'[j] = stage[j] /\ step'[j] = step[j] /\ engine'[j] = engine[j]
  BY <1>1, <1>2 DEF ProgressInv, RolloutInv, Types
<1> HIDE DEF s, e, A
<1>8. Absorbs(View(s), m, Due(f, A))
  BY <1>2, <1>3, <1>4, <1>5, StepDue DEF e
<1>9. SnapshotOk'
  <2> SUFFICES ASSUME NEW j \in Replicas
      PROVE  (/\ sched[j].running \cap Range(sched[j].waiting) = {}
              /\ IF stage[j] = "absorb" THEN Absorbs(View(sched[j]), step[j], Due(engine[j], Admitted(j)))
                 ELSE Same(View(sched[j]), Due(engine[j], Admitted(j))))'
    BY DEF SnapshotOk
  <2>1. CASE j = i
    BY <1>1, <1>5, <1>6, <1>7, <1>8, <2>1 DEF s, A
  <2>2. CASE j # i
    BY <1>1, <1>6, <1>7, <2>2 DEF ProgressInv, SnapshotOk
  <2> QED BY <2>1, <2>2
<1> QED BY <1>1, <1>9 DEF ProgressInv, FreshOk

LEMMA OnSseAbsorbProgress ==
  ASSUME ProgressInv, NEW i \in Replicas, OnSseAbsorb(i)
  PROVE  SnapshotOk' /\ FreshOk'
<1> DEFINE s == sched[i]
           t == Sync(s, step[i])
           g == Due(engine[i], Admitted(i))
<1>1. /\ UNCHANGED <<policy, step, engine>> /\ stage[i] = "absorb"
      /\ stage' = [stage EXCEPT ![i] = "check"] /\ sched' = [sched EXCEPT ![i] = t]
  BY DEF OnSseAbsorb
<1>2. s \in Scheds /\ step[i] \in StepOutputs /\ g.done \in [Req -> Nat]
  BY DEF ProgressInv, RolloutInv, Types, Engines, Due
<1>3. s.running \cap Range(s.waiting) = {} /\ Absorbs(View(s), step[i], g)
  BY <1>1 DEF ProgressInv, SnapshotOk
<1>4. \A j \in Replicas : Admitted(j)' = Admitted(j)
  BY <1>1 DEF Admitted
<1>5. /\ stage'[i] = "check" /\ sched'[i] = t
      /\ \A j \in Replicas \ {i} : stage'[j] = stage[j] /\ sched'[j] = sched[j]
  BY <1>1 DEF ProgressInv, RolloutInv, Types
<1> HIDE DEF s, g
<1>6. InFlight(t) \subseteq InFlight(s)
  BY <1>2, SyncInFlight
<1>7. t.running \cap Range(t.waiting) = {} /\ Same(View(t), g)
  BY <1>2, <1>3, SyncExact
<1> HIDE DEF t
<1>8. SnapshotOk'
  <2> SUFFICES ASSUME NEW j \in Replicas
      PROVE  (/\ sched[j].running \cap Range(sched[j].waiting) = {}
              /\ IF stage[j] = "absorb" THEN Absorbs(View(sched[j]), step[j], Due(engine[j], Admitted(j)))
                 ELSE Same(View(sched[j]), Due(engine[j], Admitted(j))))'
    BY DEF SnapshotOk
  <2>1. CASE j = i
    BY <1>1, <1>4, <1>5, <1>7, <2>1 DEF g
  <2>2. CASE j # i
    BY <1>1, <1>4, <1>5, <2>2 DEF ProgressInv, SnapshotOk
  <2> QED BY <2>1, <2>2
<1>9. FreshOk'
  BY <1>1, <1>5, <1>6 DEF ProgressInv, FreshOk, s
<1> QED BY <1>8, <1>9

LEMMA OnSseCheckProgress ==
  ASSUME ProgressInv, NEW i \in Replicas, OnSseCheck(i)
  PROVE  SnapshotOk' /\ FreshOk'
<1>1. /\ UNCHANGED <<sched, policy, engine>> /\ stage[i] = "check"
      /\ stage' = [stage EXCEPT ![i] = "receive"] /\ step' = [step EXCEPT ![i] = NoOutput]
  BY DEF OnSseCheck
<1>2. \A j \in Replicas : Admitted(j)' = Admitted(j)
  BY <1>1 DEF Admitted
<1>3. /\ stage'[i] = "receive"
      /\ \A j \in Replicas \ {i} : stage'[j] = stage[j] /\ step'[j] = step[j]
  BY <1>1 DEF ProgressInv, RolloutInv, Types
<1>4. SnapshotOk'
  <2> SUFFICES ASSUME NEW j \in Replicas
      PROVE  (/\ sched[j].running \cap Range(sched[j].waiting) = {}
              /\ IF stage[j] = "absorb" THEN Absorbs(View(sched[j]), step[j], Due(engine[j], Admitted(j)))
                 ELSE Same(View(sched[j]), Due(engine[j], Admitted(j))))'
    BY DEF SnapshotOk
  <2>1. CASE j = i
    BY <1>1, <1>2, <1>3, <2>1 DEF ProgressInv, SnapshotOk
  <2>2. CASE j # i
    BY <1>1, <1>2, <1>3, <2>2 DEF ProgressInv, SnapshotOk
  <2> QED BY <2>1, <2>2
<1> QED BY <1>1, <1>4 DEF ProgressInv, FreshOk

LEMMA ProgressNext == ProgressInv /\ [Next]_vars => ProgressInv'
<1> SUFFICES ASSUME ProgressInv, [Next]_vars PROVE SnapshotOk' /\ FreshOk'
  BY RolloutNext DEF ProgressInv
<1>1. CASE UNCHANGED vars
  <2>1. UNCHANGED <<sched, policy, stage, step, engine>>
    BY <1>1 DEF vars, routerVars
  <2>2. \A i \in Replicas : Admitted(i)' = Admitted(i)
    BY <2>1 DEF Admitted
  <2> QED BY <2>1, <2>2, SnapshotUnchanged DEF ProgressInv, FreshOk
<1>2. ASSUME NEW r \in Req, Schedule(r) PROVE SnapshotOk' /\ FreshOk'
  BY <1>2, AskProgress
<1>3. CASE QueryTake \/ QuerySimulate \/ QueryStore
  <2>1. policy.cand \in Req
    BY <1>3 DEF QueryTake, QuerySimulate, QueryStore, ProgressInv, RolloutInv, PolicyOk
  <2> QED BY <1>3, <2>1, AskProgress
<1>4. CASE Choose
  BY <1>4, ChooseProgress
<1>5. CASE AdmitSched
  BY <1>5, AdmitSchedProgress
<1>6. CASE AdmitMirror
  BY <1>6, AdmitMirrorProgress
<1>7. CASE AdmitEphemeral
  BY <1>7, AdmitEphemeralProgress
<1>8. ASSUME NEW i \in Replicas, EngineStep(i) PROVE SnapshotOk' /\ FreshOk'
  BY <1>8, EngineStepProgress
<1>9. ASSUME NEW i \in Replicas, OnSseAbsorb(i) PROVE SnapshotOk' /\ FreshOk'
  BY <1>9, OnSseAbsorbProgress
<1>10. ASSUME NEW i \in Replicas, OnSseCheck(i) PROVE SnapshotOk' /\ FreshOk'
  BY <1>10, OnSseCheckProgress
<1> QED BY <1>1, <1>2, <1>3, <1>4, <1>5, <1>6, <1>7, <1>8, <1>9, <1>10 DEF Next

LEMMA ProgressAlways == Spec => []ProgressInv
BY ProgressInit, ProgressNext, PTL DEF Spec

(***************************************************************************)
(* However admissions fall between the steps of an engine, whatever it     *)
(* refuses, preempts, aborts and finishes, and however it shares a step    *)
(* between prompts, the snapshot that has absorbed every output has the    *)
(* engine's requests in the engine's queues, and the refused ones with     *)
(* those that wait.  Its progress is the engine's for a request that had   *)
(* its last prefill step to itself, and less than a step's budget off for  *)
(* another (sched.rs, sync).                                               *)
(***************************************************************************)
THEOREM SimulatorProgressExact == Spec => []ProgressExact
<1>1. ProgressInv => ProgressExact
  <2> SUFFICES ASSUME ProgressInv, NEW i \in Replicas, stage[i] # "absorb"
               PROVE  /\ sched[i].running = engine[i].running
                      /\ Range(sched[i].waiting) = engine[i].waiting \cup Admitted(i) \cup engine[i].refused
                      /\ \A r \in InFlight(sched[i]) : Close(engine[i], r, sched[i].processed[r])
    BY DEF ProgressExact, Admitted
  <2>1. Same(View(sched[i]), Due(engine[i], Admitted(i)))
    BY DEF ProgressInv, SnapshotOk
  <2> DEFINE e == engine[i]
             s == sched[i]
  <2>2. /\ s.running = e.running /\ Range(s.waiting) = e.waiting \cup e.refused \cup Admitted(i)
        /\ \A r \in s.running \cup Range(s.waiting) : Close(Due(e, Admitted(i)), r, s.processed[r])
    BY <2>1 DEF Same, View, Due
  <2>3. \A r, y : Close(Due(e, Admitted(i)), r, y) <=> Close(e, r, y)
    BY DEF Close, Due
  <2> QED BY <2>2, <2>3 DEF InFlight
<1> QED BY <1>1, ProgressAlways, PTL

-----------------------------------------------------------------------------
(* The mirror.                                                             *)

LEMMA HashesType == \A r \in Req : Hashes[r] \in Seq(AllHashes)
<1> SUFFICES ASSUME NEW r \in Req PROVE Hashes[r] \in Seq(AllHashes)
  OBVIOUS
<1>1. Hashes[r] \in Seq(Range(Hashes[r]))
  BY HashesAssumption
<1>2. Range(Hashes[r]) \subseteq AllHashes
  BY DEF AllHashes
<1> QED BY <1>1, <1>2

(* A sequence is a prefix of another when it says the same, as far as it   *)
(* goes.                                                                   *)
LEMMA PrefixIs ==
  ASSUME NEW A, NEW p \in Seq(A), NEW q \in Seq(A)
  PROVE  /\ IsPrefix(p, q) <=> Len(p) <= Len(q) /\ \A k \in 1..Len(p) : p[k] = q[k]
         /\ IsPrefix(p, q) => p = SubSeq(q, 1, Len(p))
<1>1. /\ SubSeq(p, 1, Len(p)) \in Seq(A) /\ Len(SubSeq(p, 1, Len(p))) = Len(p)
      /\ \A k \in 1..Len(p) : SubSeq(p, 1, Len(p))[k] = p[k]
  BY LenProperties, SubSeqProperties
<1>2. SubSeq(p, 1, Len(p)) = p
  BY <1>1, SeqEqual
<1>3. ASSUME Len(p) <= Len(q)
      PROVE  /\ SubSeq(q, 1, Len(p)) \in Seq(A) /\ Len(SubSeq(q, 1, Len(p))) = Len(p)
             /\ \A k \in 1..Len(p) : SubSeq(q, 1, Len(p))[k] = q[k]
  BY <1>3, LenProperties, SubSeqProperties
<1>4. ASSUME Len(p) <= Len(q), \A k \in 1..Len(p) : p[k] = q[k] PROVE p = SubSeq(q, 1, Len(p))
  BY <1>3, <1>4, SeqEqual
<1> QED BY <1>2, <1>3, <1>4 DEF IsPrefix

LEMMA PrefixTransitive ==
  ASSUME NEW A, NEW p \in Seq(A), NEW q \in Seq(A), NEW s \in Seq(A), IsPrefix(p, q), IsPrefix(q, s)
  PROVE  IsPrefix(p, s)
<1>1. Len(p) \in Nat /\ Len(q) \in Nat /\ Len(s) \in Nat
  BY LenProperties
<1>2. Len(p) <= Len(q) /\ Len(q) <= Len(s)
  BY PrefixIs
<1>3. (\A k \in 1..Len(p) : p[k] = q[k]) /\ (\A k \in 1..Len(q) : q[k] = s[k])
  BY PrefixIs
<1>4. Len(p) <= Len(s) /\ \A k \in 1..Len(p) : p[k] = s[k]
  BY <1>1, <1>2, <1>3
<1> QED BY <1>4, PrefixIs

(* The nodes down a prompt are its prefixes, the root left out.            *)
LEMMA PathIs ==
  ASSUME NEW A, NEW s \in Seq(A)
  PROVE  /\ \A p \in PathOf(s) : /\ p \in Seq(A) /\ p # <<>> /\ IsPrefix(p, s) /\ IsPrefix(p, p)
                                 /\ p[1] \in Range(s)
         /\ \A p \in Seq(A) : p # <<>> /\ IsPrefix(p, s) => p \in PathOf(s)
<1>1. Len(s) \in Nat
  BY LenProperties
<1>2. ASSUME NEW p \in PathOf(s)
      PROVE  /\ p \in Seq(A) /\ p # <<>> /\ IsPrefix(p, s) /\ IsPrefix(p, p) /\ p[1] \in Range(s)
  <2>1. PICK n \in 1..Len(s) : p = SubSeq(s, 1, n)
    BY DEF PathOf
  <2>2. p \in Seq(A) /\ Len(p) = n /\ \A k \in 1..n : p[k] = s[k]
    BY <1>1, <2>1, SubSeqProperties
  <2>3. IsPrefix(p, s) /\ IsPrefix(p, p)
    BY <1>1, <2>2, PrefixIs
  <2>4. p[1] = s[1] /\ 1 \in 1..Len(s)
    BY <1>1, <2>2
  <2>5. p # <<>>
    BY <2>2
  <2> QED BY <2>2, <2>3, <2>4, <2>5, LenProperties DEF Range
<1>3. ASSUME NEW p \in Seq(A), p # <<>>, IsPrefix(p, s) PROVE p \in PathOf(s)
  <2>1. p = SubSeq(s, 1, Len(p)) /\ Len(p) <= Len(s)
    BY <1>3, PrefixIs
  <2>2. Len(p) \in Nat /\ Len(p) # 0
    BY <1>3, LenProperties, EmptySeq
  <2>3. Len(p) \in 1..Len(s)
    BY <1>1, <2>1, <2>2
  <2> QED BY <2>1, <2>3 DEF PathOf
<1> QED BY <1>2, <1>3

PathsFor(C) == UNION {PathOf(Hashes[r]) : r \in C}

HashesFor(C) == UNION {Range(Hashes[r]) : r \in C}

PathOwners(C, p) == {r \in C : IsPrefix(p, Hashes[r])}

HashOwners(C, h) == {r \in C : h \in Range(Hashes[r])}

(* A mirror holds what its claims say, but for what is under the hashes E. *)
ExactBut(mir, E) ==
  /\ mir.claims \subseteq Req
  /\ Paths(mir.tree) = {p \in PathsFor(mir.claims) : p[1] \notin E}
  /\ \A p \in Paths(mir.tree) : mir.tree.owners[p] = PathOwners(mir.claims, p)
  /\ DOMAIN mir.tree.hash_owners = HashesFor(mir.claims) \ E
  /\ \A h \in DOMAIN mir.tree.hash_owners : mir.tree.hash_owners[h] = HashOwners(mir.claims, h)

(* A node is there exactly when a claim has it for a prefix.               *)
LEMMA PathsForIs ==
  ASSUME NEW C \in SUBSET Req
  PROVE  /\ \A p \in PathsFor(C) : /\ p \in Seq(AllHashes) /\ p # <<>> /\ IsPrefix(p, p)
                                   /\ PathOwners(C, p) # {}
         /\ \A p \in Seq(AllHashes), r \in C : p # <<>> /\ IsPrefix(p, Hashes[r]) =>
               p \in PathOf(Hashes[r]) /\ p \in PathsFor(C)
         /\ \A r \in C : \A p \in PathOf(Hashes[r]) :
               p \in Seq(AllHashes) /\ p # <<>> /\ IsPrefix(p, Hashes[r]) /\ p[1] \in Range(Hashes[r])
<1>1. \A r \in C :
        /\ \A p \in PathOf(Hashes[r]) :
              p \in Seq(AllHashes) /\ p # <<>> /\ IsPrefix(p, Hashes[r]) /\ IsPrefix(p, p)
              /\ p[1] \in Range(Hashes[r])
        /\ \A p \in Seq(AllHashes) : p # <<>> /\ IsPrefix(p, Hashes[r]) => p \in PathOf(Hashes[r])
  BY HashesType, PathIs
<1>2. \A p : p \in PathsFor(C) <=> \E r \in C : p \in PathOf(Hashes[r])
  BY DEF PathsFor
<1> QED BY <1>1, <1>2 DEF PathOwners

(* A removal takes away what no other claim has.                           *)
LEMMA RemoveExact ==
  ASSUME NEW mir, NEW E, ExactBut(mir, E), NEW r \in Req
  PROVE  LET out == RemoveRequest(mir, r)
         IN out.claims = mir.claims \ {r} /\ ExactBut(out, E)
<1> DEFINE t == mir.tree
           C == mir.claims
           D == C \ {r}
           H == Hashes[r]
           out == RemoveRequest(mir, r)
<1>1. CASE r \notin C
  <2>1. out = mir /\ D = C
    BY <1>1 DEF RemoveRequest
  <2> QED BY <2>1
<1>2. CASE r \in C
  <2> DEFINE owners == StripOwnerAlongPath(t.owners, H, r)
             gone == {p \in PathOf(H) \cap DOMAIN owners :
                        \A q \in DOMAIN owners : IsPrefix(p, q) => IsPrefix(q, H) /\ owners[q] = {}}
             left == [h \in DOMAIN t.hash_owners |->
                        IF h \in Range(H) THEN t.hash_owners[h] \ {r} ELSE t.hash_owners[h]]
             kept == {p \in DOMAIN owners : p \notin gone}
             held == {h \in DOMAIN left : h \in Range(H) => left[h] # {}}
  <2>1. /\ out.claims = D
        /\ out.tree.owners = [p \in kept |-> owners[p]]
        /\ out.tree.hash_owners = [h \in held |-> left[h]]
    <3>1. out = [tree |-> RemoveByHashes(t, H, r), claims |-> D]
      BY <1>2 DEF RemoveRequest
    <3>2. PruneEmpty(owners, H) = [p \in kept |-> owners[p]]
      BY DEF PruneEmpty, RestrictDomain, Restrict
    <3>3. RestrictDomain(left, LAMBDA h : h \in Range(H) => left[h] # {}) = [h \in held |-> left[h]]
      BY DEF RestrictDomain, Restrict
    <3>4. RemoveByHashes(t, H, r) = [owners |-> PruneEmpty(owners, H),
             hash_owners |-> RestrictDomain(left, LAMBDA h : h \in Range(H) => left[h] # {})]
      BY DEF RemoveByHashes
    <3> HIDE DEF out, owners, kept, left, held
    <3> QED BY <3>1, <3>2, <3>3, <3>4
  <2>2. /\ C \subseteq Req /\ D \subseteq Req
        /\ DOMAIN t.owners = {p \in PathsFor(C) : p[1] \notin E}
        /\ \A p \in DOMAIN t.owners : t.owners[p] = PathOwners(C, p)
        /\ DOMAIN t.hash_owners = HashesFor(C) \ E
        /\ \A h \in DOMAIN t.hash_owners : t.hash_owners[h] = HashOwners(C, h)
    BY DEF ExactBut, Paths
  <2>3. \A p \in PathsFor(C) : p \in Seq(AllHashes) /\ p # <<>> /\ IsPrefix(p, p)
    BY <2>2, PathsForIs
  <2>4. DOMAIN owners = DOMAIN t.owners /\ \A p \in DOMAIN t.owners : owners[p] = PathOwners(D, p)
    <3>1. DOMAIN owners = DOMAIN t.owners
      BY DEF StripOwnerAlongPath
    <3>2. ASSUME NEW p \in DOMAIN t.owners PROVE owners[p] = PathOwners(D, p)
      <4>1. owners[p] = IF p \in PathOf(H) THEN t.owners[p] \ {r} ELSE t.owners[p]
        BY DEF StripOwnerAlongPath
      <4>2. p \in PathOf(H) <=> IsPrefix(p, H)
        <5>1. p \in Seq(AllHashes) /\ p # <<>>
          BY <2>2, <2>3
        <5> QED BY <1>2, <2>2, <5>1, PathsForIs
      <4> HIDE DEF owners
      <4> QED BY <2>2, <4>1, <4>2 DEF PathOwners
    <3> QED BY <3>1, <3>2
  <2>5. DOMAIN left = DOMAIN t.hash_owners /\ \A h \in DOMAIN left : left[h] = HashOwners(D, h)
    <3>1. \A h \in DOMAIN left : left[h] = IF h \in Range(H) THEN HashOwners(C, h) \ {r} ELSE HashOwners(C, h)
      BY <2>2
    <3> QED BY <3>1 DEF HashOwners
  <2> HIDE DEF owners, left
  <2>6. PathsFor(D) \subseteq PathsFor(C) /\ HashesFor(D) \subseteq HashesFor(C)
    BY DEF PathsFor, HashesFor
  <2>7. ASSUME NEW p \in kept PROVE p \in PathsFor(D)
    <3>1. p \in Seq(AllHashes) /\ p # <<>> /\ p \in PathsFor(C)
      BY <2>2, <2>3, <2>4
    <3>2. CASE p \notin PathOf(H)
      BY <3>1, <3>2 DEF PathsFor
    <3>3. CASE p \in PathOf(H)
      <4>1. PICK q \in DOMAIN owners : IsPrefix(p, q) /\ (~IsPrefix(q, H) \/ owners[q] # {})
        BY <3>3
      <4>2. q \in Seq(AllHashes) /\ q \in PathsFor(C)
        BY <2>2, <2>3, <2>4
      <4>3. PICK c \in D : IsPrefix(q, Hashes[c])
        <5>1. CASE owners[q] # {}
          BY <2>4, <5>1 DEF PathOwners
        <5>2. CASE ~IsPrefix(q, H)
          <6>1. PathOwners(C, q) # {}
            BY <2>2, <4>2, PathsForIs
          <6> QED BY <5>2, <6>1 DEF PathOwners
        <5> QED BY <4>1, <5>1, <5>2
      <4>4. IsPrefix(p, Hashes[c])
        <5>1. Hashes[c] \in Seq(AllHashes)
          BY <2>2, HashesType
        <5> QED BY <3>1, <4>1, <4>2, <4>3, <5>1, PrefixTransitive
      <4> QED BY <2>2, <3>1, <4>4, PathsForIs
    <3> QED BY <3>2, <3>3
  <2>8. ASSUME NEW p \in PathsFor(D), p[1] \notin E PROVE p \in kept
    <3>1. p \in DOMAIN owners
      BY <2>2, <2>4, <2>6, <2>8
    <3>2. IsPrefix(p, p) /\ PathOwners(D, p) # {}
      BY <2>2, PathsForIs
    <3> QED BY <2>4, <3>1, <3>2
  <2>9. kept = {p \in PathsFor(D) : p[1] \notin E}
    BY <2>2, <2>4, <2>7, <2>8
  <2>10. held = HashesFor(D) \ E
    <3>1. ASSUME NEW h \in HashesFor(C) PROVE h \in HashesFor(D) <=> (h \in Range(H) => HashOwners(D, h) # {})
      BY DEF HashesFor, HashOwners
    <3> HIDE DEF D, C, H
    <3> QED BY <2>2, <2>5, <2>6, <3>1
  <2> HIDE DEF kept, held, out, D
  <2>11. DOMAIN out.tree.owners = kept /\ \A p \in kept : out.tree.owners[p] = PathOwners(D, p)
    <3>1. kept \subseteq DOMAIN owners
      BY DEF kept
    <3> QED BY <2>1, <2>4, <3>1
  <2>12. DOMAIN out.tree.hash_owners = held /\ \A h \in held : out.tree.hash_owners[h] = HashOwners(D, h)
    <3>1. held \subseteq DOMAIN left
      BY DEF held
    <3> QED BY <2>1, <2>5, <3>1
  <2>13. ExactBut(out, E)
    BY <2>1, <2>2, <2>9, <2>10, <2>11, <2>12 DEF ExactBut, Paths
  <2> QED BY <2>1, <2>13 DEF out, D
<1> QED BY <1>1, <1>2

(* An insertion puts the prompt of the request in.                         *)
LEMMA InsertExact ==
  ASSUME NEW mir, ExactBut(mir, {}), NEW r \in Req
  PROVE  LET out == InsertRequest(mir, r)
         IN out.claims \subseteq mir.claims \cup {r} /\ ExactBut(out, {})
<1> DEFINE H == Hashes[r]
           out == InsertRequest(mir, r)
           old == RemoveRequest(mir, r)
           t == old.tree
           D == mir.claims \ {r}
           C == mir.claims \cup {r}
<1>1. CASE H = <<>>
  BY <1>1 DEF InsertRequest
<1>2. CASE H # <<>>
  <2>1. old.claims = D /\ ExactBut(old, {})
    BY RemoveExact
  <2> HIDE DEF old
  <2>2. /\ mir.claims \subseteq Req /\ D \subseteq Req /\ C \subseteq Req
        /\ DOMAIN t.owners = PathsFor(D)
        /\ \A p \in DOMAIN t.owners : t.owners[p] = PathOwners(D, p)
        /\ DOMAIN t.hash_owners = HashesFor(D)
        /\ \A h \in DOMAIN t.hash_owners : t.hash_owners[h] = HashOwners(D, h)
    BY <2>1 DEF ExactBut, Paths
  <2> DEFINE ps == DOMAIN t.owners \cup PathOf(H)
             hs == DOMAIN t.hash_owners \cup Range(H)
  <2>3. /\ out.claims = C
        /\ out.tree.owners = [p \in ps |-> (IF p \in DOMAIN t.owners THEN t.owners[p] ELSE {})
                                           \cup (IF p \in PathOf(H) THEN {r} ELSE {})]
        /\ out.tree.hash_owners = [h \in hs |-> OwnersOf(t, h) \cup (IF h \in Range(H) THEN {r} ELSE {})]
    BY <1>2 DEF InsertRequest, InsertHashes, Paths, old
  <2>4. ps = PathsFor(C) /\ hs = HashesFor(C)
    BY <2>2 DEF PathsFor, HashesFor
  <2>5. ASSUME NEW p \in ps PROVE out.tree.owners[p] = PathOwners(C, p)
    <3>1. p \in Seq(AllHashes) /\ p # <<>>
      BY <2>2, <2>4, PathsForIs
    <3>2. p \in PathOf(H) <=> IsPrefix(p, H)
      BY <2>2, <3>1, PathsForIs
    <3>3. p \notin DOMAIN t.owners => PathOwners(D, p) = {}
      BY <2>2, <3>1, PathsForIs DEF PathOwners
    <3>4. out.tree.owners[p] = (IF p \in DOMAIN t.owners THEN t.owners[p] ELSE {})
                               \cup (IF p \in PathOf(H) THEN {r} ELSE {})
      BY <2>3
    <3>5. out.tree.owners[p] = PathOwners(D, p) \cup (IF IsPrefix(p, H) THEN {r} ELSE {})
      BY <2>2, <3>2, <3>3, <3>4
    <3> HIDE DEF out
    <3> QED BY <3>5 DEF PathOwners
  <2>6. ASSUME NEW h \in hs PROVE out.tree.hash_owners[h] = HashOwners(C, h)
    <3>1. OwnersOf(t, h) = HashOwners(D, h)
      <4>1. h \notin HashesFor(D) => HashOwners(D, h) = {}
        BY DEF HashesFor, HashOwners
      <4> QED BY <2>2, <4>1 DEF OwnersOf
    <3>2. out.tree.hash_owners[h] = HashOwners(D, h) \cup (IF h \in Range(H) THEN {r} ELSE {})
      BY <2>3, <3>1
    <3> HIDE DEF out
    <3> QED BY <3>2 DEF HashOwners
  <2>7. DOMAIN out.tree.owners = ps /\ DOMAIN out.tree.hash_owners = hs
    BY <2>3
  <2>8. \A p \in PathsFor(C) : p[1] \notin {}
    OBVIOUS
  <2> HIDE DEF out, ps, hs, C
  <2>9. ExactBut(out, {})
    BY <2>2, <2>3, <2>4, <2>5, <2>6, <2>7, <2>8 DEF ExactBut, Paths
  <2> QED BY <2>3, <2>9 DEF out, C
<1> QED BY <1>1, <1>2

(* What an eviction takes away has no request in flight.                   *)
Unclaimed(E, C, s) == \A r \in C : Range(Hashes[r]) \cap E # {} => r \notin InFlight(s)

LEMMA EvictExact ==
  ASSUME NEW mir, NEW E, NEW s, ExactBut(mir, E), Unclaimed(E, mir.claims, s), NEW h
  PROVE  LET out == EvictIfOrphan(mir, h, s)
         IN out.claims = mir.claims /\ \E F : ExactBut(out, F) /\ Unclaimed(F, mir.claims, s)
<1> DEFINE t == mir.tree
           C == mir.claims
           F == E \cup {h}
           out == EvictIfOrphan(mir, h, s)
<1>1. CASE OwnersOf(t, h) \cap InFlight(s) # {} \/ <<h>> \notin Paths(t)
  <2>1. CASE OwnersOf(t, h) \cap InFlight(s) # {}
    BY <2>1 DEF EvictIfOrphan
  <2>2. CASE OwnersOf(t, h) \cap InFlight(s) = {} /\ <<h>> \notin Paths(t)
    <3>1. out = [mir EXCEPT !.tree = t]
      BY <2>2 DEF EvictIfOrphan, EvictOrphanHash
    <3>2. out.tree = t /\ out.claims = C
      BY <3>1
    <3> HIDE DEF out
    <3>3. ExactBut(out, E)
      BY <3>2 DEF ExactBut
    <3> QED BY <3>2, <3>3 DEF out
  <2> QED BY <1>1, <2>1, <2>2
<1>2. CASE OwnersOf(t, h) \cap InFlight(s) = {} /\ <<h>> \in Paths(t)
  <2> DEFINE ps == {p \in DOMAIN t.owners : p[1] # h}
             hs == {g \in DOMAIN t.hash_owners : g # h}
  <2>1. /\ out.claims = C
        /\ out.tree.owners = [p \in ps |-> t.owners[p]]
        /\ out.tree.hash_owners = [g \in hs |-> t.hash_owners[g]]
    <3>1. out = [mir EXCEPT !.tree = EvictOrphanHash(t, h)]
      BY <1>2 DEF EvictIfOrphan
    <3>2. EvictOrphanHash(t, h) = [owners |-> [p \in ps |-> t.owners[p]], hash_owners |-> [g \in hs |-> t.hash_owners[g]]]
      BY <1>2 DEF EvictOrphanHash, RestrictDomain, Restrict
    <3> HIDE DEF out
    <3> QED BY <3>1, <3>2
  <2>2. /\ C \subseteq Req
        /\ DOMAIN t.owners = {p \in PathsFor(C) : p[1] \notin E}
        /\ \A p \in DOMAIN t.owners : t.owners[p] = PathOwners(C, p)
        /\ DOMAIN t.hash_owners = HashesFor(C) \ E
        /\ \A g \in DOMAIN t.hash_owners : t.hash_owners[g] = HashOwners(C, g)
    BY DEF ExactBut, Paths
  <2>3. h \notin E
    <3>1. <<h>>[1] = h
      OBVIOUS
    <3> QED BY <1>2, <2>2, <3>1 DEF Paths
  <2>4. \A r \in C : h \in Range(Hashes[r]) => r \notin InFlight(s)
    <3>1. \A r \in C : h \in Range(Hashes[r]) => h \in HashesFor(C) /\ r \in HashOwners(C, h)
      BY DEF HashesFor, HashOwners
    <3> QED BY <1>2, <2>2, <2>3, <3>1 DEF OwnersOf
  <2>5. Unclaimed(F, C, s)
    BY <2>4 DEF Unclaimed
  <2>6. ps = {p \in PathsFor(C) : p[1] \notin F} /\ hs = HashesFor(C) \ F
    BY <2>2
  <2>7. /\ DOMAIN out.tree.owners = ps /\ \A p \in ps : out.tree.owners[p] = PathOwners(C, p)
        /\ DOMAIN out.tree.hash_owners = hs /\ \A g \in hs : out.tree.hash_owners[g] = HashOwners(C, g)
    BY <2>1, <2>2
  <2> HIDE DEF out, ps, hs, F, C
  <2>8. ExactBut(out, F)
    BY <2>1, <2>2, <2>6, <2>7 DEF ExactBut, Paths
  <2> QED BY <2>1, <2>5, <2>8 DEF out, C
<1> QED BY <1>1, <1>2

(* Induction over the subsets of a finite set, the chosen element last.    *)
LEMMA ChosenInduction ==
  ASSUME NEW S, IsFiniteSet(S), NEW G, {} \in G,
         \A T \in SUBSET S : T # {} /\ T \ {Chosen(T)} \in G => T \in G
  PROVE  SUBSET S \subseteq G
<1> DEFINE K == {n \in Nat : \A T \in SUBSET S : Cardinality(T) = n => T \in G}
<1>1. \A T \in SUBSET S : /\ Cardinality(T) \in Nat /\ (Cardinality(T) = 0 <=> T = {})
                          /\ T # {} => Cardinality(T \ {Chosen(T)}) = Cardinality(T) - 1
  BY FS_Subset, FS_CardinalityType, FS_RemoveElement, FS_EmptySet DEF Chosen
<1>2. 0 \in K
  BY <1>1
<1>3. ASSUME NEW n \in Nat, n \in K PROVE n + 1 \in K
  <2> SUFFICES ASSUME NEW T \in SUBSET S, Cardinality(T) = n + 1 PROVE T \in G
    OBVIOUS
  <2>1. T # {}
    <3>1. Cardinality(T) # 0
      OBVIOUS
    <3> QED BY <1>1, <3>1
  <2>2. Cardinality(T \ {Chosen(T)}) = n /\ T \ {Chosen(T)} \in SUBSET S
    BY <1>1, <2>1
  <2> QED BY <1>3, <2>1, <2>2
<1>4. Nat \subseteq K
  <2> HIDE DEF K
  <2> QED BY <1>2, <1>3, NatSetInduction
<1> QED BY <1>1, <1>4

(* What is done to a mirror with each element of a set: an eviction, with  *)
(* the queues s, or a removal.                                             *)
FoldStep(evict, s, x, mir) == IF evict THEN EvictIfOrphan(mir, x, s) ELSE RemoveRequest(mir, x)

IsFold(g, evict, s, mir, S) ==
  g = [T \in SUBSET S |-> IF T = {} THEN mir ELSE FoldStep(evict, s, Chosen(T), g[T \ {Chosen(T)}])]

LEMMA FoldExists ==
  ASSUME NEW S, IsFiniteSet(S), NEW evict, NEW s, NEW mir
  PROVE  \E g : IsFold(g, evict, s, mir, S)
<1> DEFINE Level(n) == {T \in SUBSET S : Cardinality(T) <= n}
           Part(g, n) == \A T \in Level(n) :
                           g[T] = IF T = {} THEN mir ELSE FoldStep(evict, s, Chosen(T), g[T \ {Chosen(T)}])
           G == {n \in Nat : \E g : Part(g, n)}
<1>1. \A T \in SUBSET S : /\ IsFiniteSet(T) /\ Cardinality(T) \in Nat /\ (Cardinality(T) = 0 <=> T = {})
                          /\ T # {} => /\ Chosen(T) \in T /\ T \ {Chosen(T)} \in SUBSET S
                                       /\ Cardinality(T \ {Chosen(T)}) = Cardinality(T) - 1
  BY FS_Subset, FS_CardinalityType, FS_RemoveElement, FS_EmptySet DEF Chosen
<1>2. 0 \in G
  <2>1. ASSUME NEW T \in Level(0) PROVE T = {}
    <3>1. Cardinality(T) \in Nat /\ Cardinality(T) <= 0 /\ (Cardinality(T) = 0 => T = {})
      BY <1>1
    <3> QED BY <3>1
  <2>2. Part([T \in SUBSET S |-> mir], 0)
    BY <2>1
  <2> HIDE DEF Part
  <2> QED BY <2>2
<1>3. ASSUME NEW n \in Nat, n \in G PROVE n + 1 \in G
  <2>1. PICK g : Part(g, n)
    BY <1>3
  <2> DEFINE h == [T \in SUBSET S |-> IF T \in Level(n) THEN g[T]
                                     ELSE FoldStep(evict, s, Chosen(T), g[T \ {Chosen(T)}])]
  <2>2. ASSUME NEW T \in Level(n + 1)
        PROVE  h[T] = IF T = {} THEN mir ELSE FoldStep(evict, s, Chosen(T), h[T \ {Chosen(T)}])
    <3>1. T # {} => T \ {Chosen(T)} \in Level(n) /\ h[T \ {Chosen(T)}] = g[T \ {Chosen(T)}]
      BY <1>1
    <3>2. {} \in Level(n)
      BY FS_EmptySet
    <3> QED BY <3>1, <3>2, <2>1
  <2>3. Part(h, n + 1)
    BY <2>2
  <2> HIDE DEF Part
  <2> QED BY <2>3
<1>4. Cardinality(S) \in G
  <2> HIDE DEF G
  <2> QED BY <1>1, <1>2, <1>3, NatSetInduction
<1>5. PICK g : Part(g, Cardinality(S))
  BY <1>4
<1>6. Level(Cardinality(S)) = SUBSET S
  BY FS_Subset
<1> DEFINE h == [T \in SUBSET S |-> g[T]]
<1>7. \A T \in SUBSET S : h[T] = IF T = {} THEN mir ELSE FoldStep(evict, s, Chosen(T), h[T \ {Chosen(T)}])
  BY <1>1, <1>5, <1>6
<1>8. IsFold(h, evict, s, mir, S)
  <2>1. h = [T \in SUBSET S |-> h[T]]
    OBVIOUS
  <2> HIDE DEF h
  <2> QED BY <1>7, <2>1 DEF IsFold
<1> QED BY <1>8

(* The folds of ApplySse follow a function of the subsets.                 *)
LEMMA FoldIs ==
  ASSUME NEW S, IsFiniteSet(S), NEW s, NEW mir
  PROVE  /\ \E g : FoldSet(LAMBDA h, x : EvictIfOrphan(x, h, s), mir, S) = g[S] /\ IsFold(g, TRUE, s, mir, S)
         /\ \E g : FoldSet(LAMBDA r, x : RemoveRequest(x, r), mir, S) = g[S] /\ IsFold(g, FALSE, s, mir, S)
<1> DEFINE Evicts(g) == g = [T \in SUBSET S |-> IF T = {} THEN mir
                                                ELSE EvictIfOrphan(g[T \ {Chosen(T)}], Chosen(T), s)]
           Removes(g) == g = [T \in SUBSET S |-> IF T = {} THEN mir
                                                 ELSE RemoveRequest(g[T \ {Chosen(T)}], Chosen(T))]
<1>1. /\ FoldSet(LAMBDA h, x : EvictIfOrphan(x, h, s), mir, S) = (CHOOSE g : Evicts(g))[S]
      /\ FoldSet(LAMBDA r, x : RemoveRequest(x, r), mir, S) = (CHOOSE g : Removes(g))[S]
  BY DEF FoldSet, MapThenFoldSet, Chosen
<1>2. \A g : Evicts(g) <=> IsFold(g, TRUE, s, mir, S)
  BY DEF IsFold, FoldStep
<1>3. \A g : Removes(g) <=> IsFold(g, FALSE, s, mir, S)
  BY DEF IsFold, FoldStep
<1> HIDE DEF Evicts, Removes
<1>4. (\E g : Evicts(g)) /\ (\E g : Removes(g))
  BY <1>2, <1>3, FoldExists
<1>5. Evicts(CHOOSE g : Evicts(g)) /\ Removes(CHOOSE g : Removes(g))
  BY <1>4
<1> QED BY <1>1, <1>2, <1>3, <1>5

LEMMA EvictAllExact ==
  ASSUME NEW S, IsFiniteSet(S), NEW s, NEW mir, ExactBut(mir, {})
  PROVE  LET out == FoldSet(LAMBDA h, x : EvictIfOrphan(x, h, s), mir, S)
         IN out.claims = mir.claims /\ \E E : ExactBut(out, E) /\ Unclaimed(E, mir.claims, s)
<1> DEFINE C == mir.claims
           Fine(v) == v.claims = C /\ \E E : ExactBut(v, E) /\ Unclaimed(E, C, s)
<1>1. PICK g : FoldSet(LAMBDA h, x : EvictIfOrphan(x, h, s), mir, S) = g[S] /\ IsFold(g, TRUE, s, mir, S)
  BY FoldIs
<1>2. g[{}] = mir /\ \A T \in SUBSET S : T # {} => g[T] = EvictIfOrphan(g[T \ {Chosen(T)}], Chosen(T), s)
  BY <1>1 DEF IsFold, FoldStep
<1>3. Fine(mir)
  BY DEF Unclaimed
<1>4. ASSUME NEW v, Fine(v), NEW h PROVE Fine(EvictIfOrphan(v, h, s))
  <2>1. PICK E : v.claims = C /\ ExactBut(v, E) /\ Unclaimed(E, C, s)
    BY <1>4
  <2> HIDE DEF C
  <2> QED BY <2>1, EvictExact
<1> HIDE DEF Fine
<1> DEFINE G == {T \in SUBSET S : Fine(g[T])}
<1>5. {} \in G /\ \A T \in SUBSET S : T # {} /\ T \ {Chosen(T)} \in G => T \in G
  BY <1>2, <1>3, <1>4
<1>6. S \in G
  <2> HIDE DEF G
  <2> QED BY <1>5, ChosenInduction
<1> QED BY <1>1, <1>6 DEF Fine

LEMMA RemoveAllExact ==
  ASSUME NEW S \in SUBSET Req, NEW mir, NEW E, ExactBut(mir, E)
  PROVE  LET out == FoldSet(LAMBDA r, x : RemoveRequest(x, r), mir, S)
         IN out.claims = mir.claims \ S /\ ExactBut(out, E)
<1> DEFINE Fine(T, v) == v.claims = mir.claims \ T /\ ExactBut(v, E)
<1>0. IsFiniteSet(S)
  BY ReqAssumption, FS_Subset
<1>1. PICK g : FoldSet(LAMBDA r, x : RemoveRequest(x, r), mir, S) = g[S] /\ IsFold(g, FALSE, 0, mir, S)
  BY <1>0, FoldIs
<1>2. g[{}] = mir /\ \A T \in SUBSET S : T # {} => g[T] = RemoveRequest(g[T \ {Chosen(T)}], Chosen(T))
  BY <1>1 DEF IsFold, FoldStep
<1>3. Fine({}, mir)
  OBVIOUS
<1>4. ASSUME NEW v, NEW T \in SUBSET S, T # {}, Fine(T \ {Chosen(T)}, v)
      PROVE  Fine(T, RemoveRequest(v, Chosen(T)))
  <2>1. Chosen(T) \in T
    BY <1>4 DEF Chosen
  <2>2. Chosen(T) \in Req
    BY <2>1
  <2> DEFINE r == Chosen(T)
  <2> HIDE DEF r
  <2>3. LET out == RemoveRequest(v, r) IN out.claims = v.claims \ {r} /\ ExactBut(out, E)
    BY <1>4, <2>2, RemoveExact DEF r
  <2> QED BY <1>4, <2>1, <2>3 DEF r
<1> HIDE DEF Fine
<1> DEFINE G == {T \in SUBSET S : Fine(T, g[T])}
<1>5. {} \in G /\ \A T \in SUBSET S : T # {} /\ T \ {Chosen(T)} \in G => T \in G
  BY <1>2, <1>3, <1>4
<1>6. S \in G
  <2> HIDE DEF G
  <2> QED BY <1>0, <1>5, ChosenInduction
<1> QED BY <1>1, <1>6 DEF Fine

LEMMA AllHashesFinite == IsFiniteSet(AllHashes)
<1> DEFINE held == [r \in Req |-> Range(Hashes[r])]
           all == {held[r] : r \in Req}
<1>1. AllHashes = UNION all
  BY DEF AllHashes
<1>2. IsFiniteSet(all)
  <2>1. held \in Surjection(Req, all)
    BY DEF Surjection
  <2> HIDE DEF held, all
  <2> QED BY <2>1, ReqAssumption, FS_Surjection
<1>3. ASSUME NEW T \in all PROVE IsFiniteSet(T)
  <2>1. PICK r \in Req : T = Range(Hashes[r])
    OBVIOUS
  <2> DEFINE q == Hashes[r]
  <2>2. q \in Seq(AllHashes)
    BY HashesType
  <2> HIDE DEF q
  <2>3. Len(q) \in Nat /\ DOMAIN q = 1..Len(q)
    BY <2>2, LenProperties
  <2>4. IsFiniteSet(DOMAIN q)
    BY <2>3, FS_Interval
  <2>5. q \in Surjection(DOMAIN q, Range(q))
    <3>1. q \in [DOMAIN q -> Range(q)]
      BY <2>2, <2>3 DEF Range
    <3> QED BY <3>1 DEF Surjection, Range
  <2> QED BY <2>1, <2>4, <2>5, FS_Surjection DEF q
<1> HIDE DEF all
<1> QED BY <1>1, <1>2, <1>3, FS_UNION

(* What the engine evicts, finishes, aborts and preempts in a step leaves  *)
(* the mirror exact when its claims were those of requests in flight.      *)
LEMMA ApplyExact ==
  ASSUME NEW s \in Scheds, NEW m \in StepOutputs, NEW mir, ExactBut(mir, {}), mir.claims \subseteq InFlight(s)
  PROVE  LET t == Sync(s, m)
             out == ApplySse(mir, m, t)
         IN ExactBut(out, {}) /\ out.claims \subseteq InFlight(t)
<1> DEFINE t == Sync(s, m)
           evicted == FoldSet(LAMBDA h, x : EvictIfOrphan(x, h, t), mir, m.evicted)
           Gone == FinishedIn(m) \cup Range(m.aborted) \cup Range(m.preempted)
           out == FoldSet(LAMBDA r, x : RemoveRequest(x, r), evicted, Gone)
           C == mir.claims
           D == C \ Gone
<1>1. ApplySse(mir, m, t) = out
  BY Zenon DEF ApplySse
<1>2. IsFiniteSet(m.evicted)
  <2>1. m.evicted \subseteq AllHashes
    BY DEF StepOutputs
  <2> QED BY <2>1, AllHashesFinite, FS_Subset
<1>3. Gone \in SUBSET Req
  <2>1. FinishedIn(m) \subseteq Req
    <3>1. Range(m.outputs) \subseteq Outputs
      BY RangeBasics DEF StepOutputs
    <3> QED BY <3>1 DEF FinishedIn, Outputs
  <2>2. Range(m.aborted) \subseteq Req /\ Range(m.preempted) \subseteq Req
    BY RangeBasics DEF StepOutputs
  <2> QED BY <2>1, <2>2
<1>4. InFlight(t) = InFlight(s) \ (FinishedIn(m) \cup Range(m.aborted))
  BY SyncInFlight
<1>5. D \subseteq InFlight(t)
  BY <1>4
<1> HIDE DEF t, Gone, C
<1>6. PICK E : evicted.claims = C /\ ExactBut(evicted, E) /\ Unclaimed(E, C, t)
  BY <1>2, EvictAllExact DEF C
<1> HIDE DEF evicted
<1>7. out.claims = D /\ ExactBut(out, E)
  BY <1>3, <1>6, RemoveAllExact
<1> HIDE DEF out
<1>8. D \subseteq Req
  BY <1>7 DEF ExactBut
<1>9. \A r \in D : Range(Hashes[r]) \cap E = {}
  BY <1>5, <1>6 DEF Unclaimed
<1>10. \A p \in PathsFor(D) : p[1] \notin E
  <2>1. \A r \in D : \A p \in PathOf(Hashes[r]) : p[1] \in Range(Hashes[r])
    BY <1>8, PathsForIs
  <2> QED BY <1>9, <2>1 DEF PathsFor
<1>11. HashesFor(D) \ E = HashesFor(D) \ {}
  BY <1>9 DEF HashesFor
<1> HIDE DEF D
<1>12. ExactBut(out, {})
  BY <1>7, <1>10, <1>11 DEF ExactBut
<1> QED BY <1>1, <1>5, <1>7, <1>12 DEF t

MirrorOk ==
  /\ DOMAIN mirror = Replicas
  /\ \A i \in Replicas : ExactBut(mirror[i], {}) /\ mirror[i].claims \subseteq InFlight(sched[i])

MirrorInv == ProgressInv /\ MirrorOk

LEMMA MirrorInit == Init => MirrorOk
<1> SUFFICES ASSUME Init, NEW i \in Replicas
             PROVE  ExactBut(mirror[i], {}) /\ mirror[i].claims \subseteq InFlight(sched[i])
  BY DEF Init, MirrorOk
<1>1. mirror[i] = EmptyMirror
  BY DEF Init
<1>2. /\ EmptyMirror.claims = {} /\ DOMAIN EmptyMirror.tree.owners = {}
      /\ DOMAIN EmptyMirror.tree.hash_owners = {}
  BY DEF EmptyMirror, EmptyTrie
<1>3. PathsFor({}) = {} /\ HashesFor({}) = {}
  BY DEF PathsFor, HashesFor
<1> QED BY <1>1, <1>2, <1>3 DEF ExactBut, Paths

(* The request a mirror takes in is in the snapshot already.               *)
LEMMA AdmittedInFlight ==
  ASSUME ProgressInv, policy.pc = "mirror"
  PROVE  policy.cand \in InFlight(sched[policy.at])
<1> DEFINE i == policy.at
           c == policy.cand
<1>1. i \in Replicas /\ Admitted(i) = {c}
  BY DEF ProgressInv, RolloutInv, PolicyOk, Admitted
<1>2. IF stage[i] = "absorb" THEN Absorbs(View(sched[i]), step[i], Due(engine[i], {c}))
      ELSE Same(View(sched[i]), Due(engine[i], {c}))
  BY <1>1 DEF ProgressInv, SnapshotOk
<1>3. c \in Due(engine[i], {c}).waiting
  BY DEF Due
<1> HIDE DEF i, c
<1>4. CASE stage[i] = "absorb"
  <2>1. /\ Due(engine[i], {c}).waiting \subseteq View(sched[i]).waiting \cup Range(step[i].preempted)
        /\ Range(step[i].preempted) \subseteq View(sched[i]).running
    BY <1>2, <1>4 DEF Absorbs, Moved
  <2> QED BY <1>3, <2>1 DEF View, InFlight, i, c
<1>5. CASE stage[i] # "absorb"
  <2>1. Due(engine[i], {c}).waiting = View(sched[i]).waiting
    BY <1>2, <1>5 DEF Same
  <2> QED BY <1>3, <2>1 DEF View, InFlight, i, c
<1> QED BY <1>4, <1>5

LEMMA AdmitSchedMirror == MirrorInv /\ AdmitSched => MirrorOk'
<1> SUFFICES ASSUME MirrorInv, AdmitSched PROVE MirrorOk'
  OBVIOUS
<1> DEFINE i == policy.at
           c == policy.cand
           s == sched[i]
           t == Admit(s, c, 0)
<1>1. i \in Replicas /\ c \in Req /\ s \in Scheds
  BY DEF AdmitSched, MirrorInv, ProgressInv, RolloutInv, Types, PolicyOk
<1>2. mirror' = mirror /\ sched' = [sched EXCEPT ![i] = t]
  BY DEF AdmitSched
<1>3. InFlight(s) \subseteq InFlight(t)
  <2> HIDE DEF c, s
  <2>1. t.running = s.running /\ Range(t.waiting) = Range(s.waiting) \cup {c}
    BY <1>1, AdmitIs
  <2> HIDE DEF t
  <2> QED BY <2>1 DEF InFlight
<1> HIDE DEF t
<1>4. \A j \in Replicas : InFlight(sched[j]) \subseteq InFlight(sched'[j])
  BY <1>1, <1>2, <1>3 DEF MirrorInv, ProgressInv, RolloutInv, Types
<1> QED BY <1>2, <1>4 DEF MirrorInv, MirrorOk

LEMMA AdmitMirrorMirror == MirrorInv /\ AdmitMirror => MirrorOk'
<1> SUFFICES ASSUME MirrorInv, AdmitMirror PROVE MirrorOk'
  OBVIOUS
<1> DEFINE i == policy.at
           c == policy.cand
           out == InsertRequest(mirror[i], c)
<1>1. i \in Replicas /\ c \in Req /\ policy.pc = "mirror"
  BY DEF AdmitMirror, MirrorInv, ProgressInv, RolloutInv, PolicyOk
<1>2. sched' = sched /\ mirror' = [mirror EXCEPT ![i] = out]
  BY DEF AdmitMirror
<1>3. c \in InFlight(sched[i])
  BY <1>1, AdmittedInFlight DEF MirrorInv
<1> HIDE DEF i, c
<1>4. ExactBut(mirror[i], {}) /\ mirror[i].claims \subseteq InFlight(sched[i]) /\ DOMAIN mirror = Replicas
  BY <1>1 DEF MirrorInv, MirrorOk
<1>5. out.claims \subseteq mirror[i].claims \cup {c} /\ ExactBut(out, {})
  BY <1>1, <1>4, InsertExact
<1> HIDE DEF out
<1>6. /\ DOMAIN mirror' = Replicas
      /\ \A j \in Replicas : mirror'[j] = IF j = i THEN out ELSE mirror[j]
  BY <1>1, <1>2, <1>4
<1>7. ASSUME NEW j \in Replicas PROVE ExactBut(mirror'[j], {}) /\ mirror'[j].claims \subseteq InFlight(sched[j])
  BY <1>3, <1>4, <1>5, <1>6 DEF MirrorInv, MirrorOk
<1> QED BY <1>2, <1>6, <1>7 DEF MirrorOk

LEMMA OnSseAbsorbMirror ==
  ASSUME MirrorInv, NEW i \in Replicas, OnSseAbsorb(i)
  PROVE  MirrorOk'
<1> DEFINE t == Sync(sched[i], step[i])
           out == ApplySse(mirror[i], step[i], t)
<1>1. sched[i] \in Scheds /\ step[i] \in StepOutputs /\ sched \in [Replicas -> Scheds]
  BY DEF MirrorInv, ProgressInv, RolloutInv, Types
<1>2. sched' = [sched EXCEPT ![i] = t] /\ mirror' = [mirror EXCEPT ![i] = ApplySse(@, step[i], sched'[i])]
  BY DEF OnSseAbsorb
<1>3. ExactBut(mirror[i], {}) /\ mirror[i].claims \subseteq InFlight(sched[i]) /\ DOMAIN mirror = Replicas
  BY DEF MirrorInv, MirrorOk
<1>4. ExactBut(out, {}) /\ out.claims \subseteq InFlight(t)
  BY <1>1, <1>3, ApplyExact
<1> HIDE DEF t
<1>5. \A j \in Replicas : sched'[j] = IF j = i THEN t ELSE sched[j]
  BY <1>1, <1>2
<1>6. mirror' = [mirror EXCEPT ![i] = out]
  BY <1>2, <1>5
<1> HIDE DEF out
<1>7. /\ DOMAIN mirror' = Replicas
      /\ \A j \in Replicas : mirror'[j] = IF j = i THEN out ELSE mirror[j]
  BY <1>3, <1>6
<1>8. ASSUME NEW j \in Replicas PROVE ExactBut(mirror'[j], {}) /\ mirror'[j].claims \subseteq InFlight(sched'[j])
  BY <1>4, <1>5, <1>7 DEF MirrorInv, MirrorOk
<1> QED BY <1>7, <1>8 DEF MirrorOk

LEMMA MirrorNext == MirrorInv /\ [Next]_vars => MirrorInv'
<1> SUFFICES ASSUME MirrorInv, [Next]_vars PROVE MirrorOk'
  BY ProgressNext DEF MirrorInv
<1>1. ASSUME UNCHANGED <<sched, mirror>> PROVE MirrorOk'
  BY <1>1 DEF MirrorInv, MirrorOk
<1>2. CASE UNCHANGED vars
  BY <1>1, <1>2 DEF vars, routerVars
<1>3. ASSUME NEW r \in Req, Schedule(r) PROVE MirrorOk'
  BY <1>1, <1>3 DEF Schedule
<1>4. CASE QueryTake \/ QuerySimulate \/ QueryStore \/ Choose \/ AdmitEphemeral
  BY <1>1, <1>4 DEF QueryTake, QuerySimulate, QueryStore, Choose, AdmitEphemeral
<1>5. CASE AdmitSched
  BY <1>5, AdmitSchedMirror
<1>6. CASE AdmitMirror
  BY <1>6, AdmitMirrorMirror
<1>7. ASSUME NEW i \in Replicas, EngineStep(i) PROVE MirrorOk'
  BY <1>1, <1>7 DEF EngineStep, routerVars
<1>8. ASSUME NEW i \in Replicas, OnSseAbsorb(i) PROVE MirrorOk'
  BY <1>8, OnSseAbsorbMirror
<1>9. ASSUME NEW i \in Replicas, OnSseCheck(i) PROVE MirrorOk'
  BY <1>1, <1>9 DEF OnSseCheck
<1> QED BY <1>2, <1>3, <1>4, <1>5, <1>6, <1>7, <1>8, <1>9 DEF Next

LEMMA MirrorAlways == Spec => []MirrorInv
<1>1. Init => MirrorInv
  BY ProgressInit, MirrorInit DEF MirrorInv
<1> QED BY <1>1, MirrorNext, PTL DEF Spec

(***************************************************************************)
(* However evictions, completions, aborts, preemptions and admissions fall *)
(* together, the trie of a replica and the index beside it hold the        *)
(* prompts of the claims, whole and with their owners, and nothing else,   *)
(* and every claim is of a request in flight (mirror.rs, req_id_hash.rs).  *)
(***************************************************************************)
THEOREM SimulatorMirrorExact == Spec => []MirrorExact
<1>1. MirrorInv => MirrorExact
  <2> SUFFICES ASSUME MirrorInv, NEW i \in Replicas
      PROVE  /\ mirror[i].claims \subseteq InFlight(sched[i])
             /\ Paths(mirror[i].tree) = UNION {PathOf(Hashes[r]) : r \in mirror[i].claims}
             /\ \A p \in Paths(mirror[i].tree) :
                   mirror[i].tree.owners[p] = {r \in mirror[i].claims : IsPrefix(p, Hashes[r])}
             /\ DOMAIN mirror[i].tree.hash_owners = UNION {Range(Hashes[r]) : r \in mirror[i].claims}
             /\ \A h \in DOMAIN mirror[i].tree.hash_owners :
                   mirror[i].tree.hash_owners[h] = {r \in mirror[i].claims : h \in Range(Hashes[r])}
    BY Zenon DEF MirrorExact
  <2>1. ExactBut(mirror[i], {}) /\ mirror[i].claims \subseteq InFlight(sched[i])
    BY DEF MirrorInv, MirrorOk
  <2>2. {p \in PathsFor(mirror[i].claims) : p[1] \notin {}} = PathsFor(mirror[i].claims)
    OBVIOUS
  <2>3. HashesFor(mirror[i].claims) \ {} = HashesFor(mirror[i].claims)
    OBVIOUS
  <2> QED BY <2>1, <2>2, <2>3 DEF ExactBut, PathsFor, HashesFor, PathOwners, HashOwners
<1> QED BY <1>1, MirrorAlways, PTL
=============================================================================

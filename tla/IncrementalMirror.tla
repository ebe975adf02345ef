---------------------------- MODULE IncrementalMirror ----------------------------
(***************************************************************************)
(* The overlay of the prompts sent to one replica and not finished yet     *)
(* (router/src/scheduler/simulator/mirror.rs): tree, the trie, and claims, *)
(* the requests in it.  by_request keeps the hashes a request was inserted *)
(* with; here they are Hashes[r], which an entry has from the start.       *)
(***************************************************************************)
EXTENDS SchedSnapshot, RadixTreeReqIdHash

CONSTANT Hashes   \* the hashes of the whole blocks of each prompt

ASSUME HashesAssumption ==
    DOMAIN Hashes = Req /\ \A r \in Req : Hashes[r] \in Seq(Range(Hashes[r]))

EmptyMirror == [tree |-> EmptyTrie, claims |-> {}]

RemoveRequest(mir, r) ==
    IF r \notin mir.claims THEN mir
    ELSE [tree |-> RemoveByHashes(mir.tree, Hashes[r], r), claims |-> mir.claims \ {r}]

InsertRequest(mir, r) ==
    IF Hashes[r] = <<>> THEN mir
    ELSE [tree |-> InsertHashes(RemoveRequest(mir, r).tree, Hashes[r], r),
          claims |-> mir.claims \cup {r}]

(* mutant: a hash the engine evicts is dropped whoever is in flight.       *)
EvictUnarbitrated(mir, h, s) == [mir EXCEPT !.tree = EvictOrphanHash(@, h)]

(* A hash the engine evicts is dropped unless a request in flight has it.  *)
EvictIfOrphan(mir, h, s) ==
    IF OwnersOf(mir.tree, h) \cap InFlight(s) # {} THEN mir
    ELSE [mir EXCEPT !.tree = EvictOrphanHash(@, h)]

FinishedIn(m) == {o.rid : o \in {x \in Range(m.outputs) : x.finished}}

(* Evictions first, with the queues as they are after the step, then the   *)
(* requests finished, aborted and preempted.                               *)
ApplySse(mir, m, s) ==
    LET evicted == FoldSet(LAMBDA h, x : EvictIfOrphan(x, h, s), mir, m.evicted)
    IN FoldSet(LAMBDA r, x : RemoveRequest(x, r), evicted,
               FinishedIn(m) \cup Range(m.aborted) \cup Range(m.preempted))

PrefixMatch(mir, hashes) == PrefixLen(mir.tree, hashes)
====

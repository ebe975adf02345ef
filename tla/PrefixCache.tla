------------------------------ MODULE PrefixCache ------------------------------
(***************************************************************************)
(* The prefix index of one replica at work: the scheduler predicts hits    *)
(* with it, the engine allocates, commits, shares and evicts blocks, and   *)
(* the completion loop brings the index up to date step by step (the part  *)
(* of its critical section that router/src/engine/colocation.rs 594-663    *)
(* has).  Both kinds of index are kept, side by side, from the same calls. *)
(*                                                                         *)
(* The engine is the environment.  Its cache is a block manager with       *)
(* sharing: a new request takes the cached blocks of its longest prefix,   *)
(* two requests of one step may commit different blocks under one hash,    *)
(* and free blocks are evicted so that what is left of a prefix is never   *)
(* without what comes before it (least recently freed, tails first).       *)
(***************************************************************************)
EXTENDS HashTableBlockHash, BlockHashState, SequencesExt, FiniteSetsExt, Functions

CONSTANTS
    Node, Null, Root, SmallMax,   \* of the tree
    Req,
    Prompt,     \* the tokens of each request
    GenToken,   \* the token it generates
    MaxGen,     \* bound: tokens generated by each request
    Preemptible,  \* bound: the requests the engine may preempt
    MaxBatch,   \* bound: requests in a step
    Reports     \* what the engine reports of a request when it commits blocks of it:
                \* "suffix", those blocks; "prefix", all it has committed

INSTANCE RadixTreeBlockHash

Token == (UNION {Range(Prompt[r]) : r \in Req}) \cup {GenToken[r] : r \in Req}

ASSUME IndexAssumption ==
    BlockSize \in Nat \ {0} /\ MinChunk \in Nat /\ Prompt \in [Req -> Seq(Token)]

VARIABLES
    tree,
    bhs,        \* the BlockHashState of each request, in its entry
    panic,      \* an assertion failed
    phase,      \* engine: "new", "waiting", "running" or "done"
    toks,       \* engine: the tokens of a request
    computed,   \* engine: how many of them are in its cache
    held,       \* engine: the blocks of a request
    hits,       \* engine: blocks it shared when it started
    cached,     \* engine: the hash of each committed block, or None
    msg,        \* the step being processed, or Idle
    reports     \* one of Reports

routerVars == <<map, block_to_hash, tree, bhs, panic>>
engineVars == <<phase, toks, computed, held, hits, cached>>
vars == <<routerVars, engineVars, msg, reports>>

Idle == [todo |-> {}, fresh |-> FALSE]

Blocks(n) == (n + BlockSize - 1) \div BlockSize

HashAt(r, i) == SubSeq(toks[r], 1, i * BlockSize)

Init ==
    /\ TableInit
    /\ tree = NewTree
    /\ bhs = [r \in Req |-> New(Prompt[r])]
    /\ panic = FALSE
    /\ phase = [r \in Req |-> "new"]
    /\ toks = Prompt
    /\ computed = [r \in Req |-> 0]
    /\ held = [r \in Req |-> <<>>]
    /\ hits = [r \in Req |-> 0]
    /\ cached = [b \in Bid |-> None]
    /\ msg = Idle
    /\ reports \in Reports

-------------------------------------------------------------------------------
(***************************************************************************)
(* The scheduler assigns the request to this replica and records how many  *)
(* of its blocks it expects to be cached.                                  *)
(***************************************************************************)
Schedule(r) ==
    /\ ~ panic /\ phase[r] = "new"
    /\ msg = Idle \/ msg.fresh
    /\ phase' = [phase EXCEPT ![r] = "waiting"]
    /\ panic' = SetPredPanics(bhs[r])
    /\ bhs' = [bhs EXCEPT ![r] = SetPredBlockHits(@, TreeGet(tree, @.block_hashes))]
    /\ UNCHANGED <<map, block_to_hash, tree, toks, computed, held, hits, cached, msg, reports>>

(***************************************************************************)
(* The engine.  HitBlocks is the longest prefix of a request it has cached *)
(* (not all of it: one token is left to compute); Shares are the blocks.   *)
(***************************************************************************)
HeldBids == UNION {Range(held[r]) : r \in Req}

InCache(r, i) == \E b \in Bid : cached[b] = HashAt(r, i)

HitBlocks(r) ==
    LET most == (Len(toks[r]) - 1) \div BlockSize
        Hit(n) == \A i \in 1..n : InCache(r, i)
    IN CHOOSE n \in 0..most : Hit(n) /\ (n < most => ~ Hit(n + 1))

Shares(r) ==
    {s \in [1..HitBlocks(r) -> Bid] : \A i \in DOMAIN s : cached[s[i]] = HashAt(r, i)}

(***************************************************************************)
(* How far a step may take a request: a running one by a token, one that   *)
(* is starting by some blocks or to the end of its tokens.                 *)
(***************************************************************************)
Targets(r, from) ==
    IF phase[r] = "running" THEN {from + 1}
    ELSE {n \in (from + 1)..Len(toks[r]) : n % BlockSize = 0 \/ n = Len(toks[r])}

PrefixClosed(c) ==
    \A b \in Bid : c[b] # None =>
        \A i \in 1..(Len(c[b]) \div BlockSize) : \E d \in Bid : c[d] = SubSeq(c[b], 1, i * BlockSize)

(***************************************************************************)
(* What comes out of a step over the requests in S: one more token for     *)
(* each whose tokens are all computed (grows), which may be its last       *)
(* (over), and what the router is told.                                    *)
(***************************************************************************)
Emit(S, grows, over, now, evicted, committed) ==
    /\ \A r \in grows \ over : Len(toks[r]) < Len(Prompt[r]) + MaxGen[r]
    /\ toks' = [r \in Req |-> IF r \in grows THEN Append(toks[r], GenToken[r]) ELSE toks[r]]
    /\ phase' = [r \in Req |-> IF r \in over THEN "done"
                               ELSE IF r \in grows THEN "running" ELSE phase[r]]
    /\ held' = [r \in Req |-> IF r \in over THEN <<>>
                              ELSE IF r \in S THEN now[r] ELSE held[r]]
    /\ msg' = [todo |-> S, fresh |-> TRUE, used |-> now, evicted |-> evicted, new |-> committed,
               prefilled |-> {r \in grows \ over : phase[r] = "waiting"},
               tokens |-> grows \ over]

(***************************************************************************)
(* One engine step over the requests in S, with shared the blocks each     *)
(* starts from and target how far it gets.  It takes back no more blocks   *)
(* than it needs.                                                          *)
(***************************************************************************)
EngineStep(S, shared, target) ==
    LET starts == {r \in S : held[r] = <<>>}
        base == [r \in S |-> IF r \in starts THEN shared[r] ELSE held[r]]
        from == [r \in S |-> IF r \in starts THEN Len(shared[r]) ELSE computed[r] \div BlockSize]
        full == [r \in S |-> target[r] \div BlockSize]
        need == [r \in S |-> Blocks(target[r]) - Len(base[r])]
        idle == Bid \ (HeldBids \cup UNION {Range(base[r]) : r \in S})
        blank == {b \in idle : cached[b] = None}
        short == FoldFunctionOnSet(+, 0, need, S) - Cardinality(blank)
        grows == {r \in S : target[r] = Len(toks[r])}
    IN \E evicted \in kSubset(IF short > 0 THEN short ELSE 0, idle \ blank) :
       LET left == [b \in Bid |-> IF b \in evicted THEN None ELSE cached[b]]
           free == SetToSortSeq(blank \cup evicted, <)
           offset(r) == FoldFunctionOnSet(+, 0, need, {q \in S : q < r})
           now == [r \in S |-> base[r] \o SubSeq(free, offset(r) + 1, offset(r) + need[r])]
           new == [r \in S |-> {i \in DOMAIN now[r] : from[r] < i /\ i <= full[r]}]
           Fresh(r, b) == \E i \in new[r] : now[r][i] = b
           First(r) == IF reports = "prefix" THEN 1 ELSE from[r] + 1
       IN /\ PrefixClosed(left)
          /\ cached' = [b \in Bid |->
                IF \E r \in S : Fresh(r, b)
                THEN LET r == CHOOSE q \in S : Fresh(q, b)
                     IN HashAt(r, CHOOSE i \in new[r] : now[r][i] = b)
                ELSE left[b]]
          /\ computed' = [r \in Req |-> IF r \in S THEN target[r] ELSE computed[r]]
          /\ hits' = [r \in Req |-> IF r \in starts THEN Len(shared[r]) ELSE hits[r]]
          /\ \E over \in SUBSET grows :
                Emit(S, grows, over, now,
                     SetToSortSeq(evicted, LAMBDA a, b : Len(cached[a]) > Len(cached[b])),
                     [r \in S |-> IF new[r] = {} THEN <<>> ELSE SubSeq(now[r], First(r), full[r])])
          /\ UNCHANGED <<routerVars, reports>>

Step ==
    /\ ~ panic /\ msg = Idle
    /\ \E S \in SUBSET {r \in Req : phase[r] \in {"waiting", "running"}} :
          /\ S # {} /\ Cardinality(S) <= MaxBatch
          /\ LET starting(r) == held[r] = <<>>
                 shares == [r \in S |-> IF starting(r) THEN Shares(r) ELSE {<<>>}]
             IN \E shared \in {f \in [S -> UNION Range(shares)] : \A r \in S : f[r] \in shares[r]} :
                LET reach == [r \in S |-> Targets(r, IF starting(r) THEN Len(shared[r]) * BlockSize
                                                     ELSE computed[r])]
                IN \E target \in {f \in [S -> UNION Range(reach)] : \A r \in S : f[r] \in reach[r]} :
                      EngineStep(S, shared, target)

(***************************************************************************)
(* The engine preempts a request: its blocks are free, and it starts again *)
(* with the tokens it has.                                                 *)
(***************************************************************************)
Preempt(r) ==
    /\ ~ panic /\ msg = Idle /\ r \in Preemptible /\ held[r] # <<>>
    /\ phase' = [phase EXCEPT ![r] = "waiting"]
    /\ held' = [held EXCEPT ![r] = <<>>]
    /\ computed' = [computed EXCEPT ![r] = 0]
    /\ UNCHANGED <<routerVars, toks, hits, cached, msg, reports>>

-------------------------------------------------------------------------------
(***************************************************************************)
(* The completion loop: the outputs of the step, the blocks that are gone, *)
(* the blocks each request has now.  A request's last token is not         *)
(* appended.                                                               *)
(***************************************************************************)
Outputs(s, r) ==
    LET hit == IF r \in msg.prefilled THEN SetRealTokenHits(s, hits[r] * BlockSize) ELSE s
    IN IF r \in msg.tokens THEN AppendTokens(hit, <<GenToken[r]>>) ELSE hit

ProcessStep ==
    /\ ~ panic /\ msg # Idle /\ msg.fresh
    /\ panic' = (RemovePanics(tree, msg.evicted) \/ \E r \in msg.prefilled : SetRealPanics(bhs[r]))
    /\ tree' = TreeRemove(tree, msg.evicted)
    /\ TableRemove(Range(msg.evicted))
    /\ bhs' = [r \in Req |-> IF r \in msg.todo THEN SetBids(Outputs(bhs[r], r), msg.used[r])
                             ELSE bhs[r]]
    /\ msg' = LET todo == {r \in msg.todo : msg.new[r] # <<>>}
              IN IF todo = {} THEN Idle ELSE [msg EXCEPT !.todo = todo, !.fresh = FALSE]
    /\ UNCHANGED <<engineVars, reports>>

(***************************************************************************)
(* ... and, request by request, the blocks it has committed.               *)
(***************************************************************************)
Panics == panic' = TRUE /\ UNCHANGED <<map, block_to_hash, tree, bhs>>

InsertNew(r) ==
    LET bids == msg.new[r]
    IN /\ ~ panic /\ msg # Idle /\ ~ msg.fresh /\ r \in msg.todo
       /\ msg' = IF msg.todo = {r} THEN Idle ELSE [msg EXCEPT !.todo = @ \ {r}]
       /\ IF GetOntoPanics(bhs[r], bids) THEN Panics
          ELSE \E hashes \in {OntoHashes(bhs[r], bids)} : \E walk \in {WalkFromRoot(tree, hashes)} :
               IF ~ InsertAllowed(hashes, bids) \/ InsertPanics(walk, bids) THEN Panics
               ELSE /\ TableInsert(hashes, bids)
                    /\ \E t \in {Aliased(walk, hashes, bids)} :
                          tree' = InsertRest(t, walk, Unmatched(walk, bids))
                    /\ bhs' = [bhs EXCEPT ![r] = Synced(@, bids)]
                    /\ UNCHANGED panic
       /\ UNCHANGED <<engineVars, reports>>

Next ==
    \/ \E r \in Req : Schedule(r) \/ Preempt(r) \/ InsertNew(r)
    \/ Step
    \/ ProcessStep

Spec == Init /\ [][Next]_vars

-------------------------------------------------------------------------------

TypeOK ==
    /\ TableTypeOK
    /\ panic \in BOOLEAN
    /\ phase \in [Req -> {"new", "waiting", "running", "done"}]
    /\ \A r \in Req : /\ Range(held[r]) \subseteq Bid /\ computed[r] \in 0..Len(toks[r])
                      /\ bhs[r].sync_nblks \in 0..Len(bhs[r].block_indices)
    /\ cached \in [Bid -> Hash \cup {None}]
    /\ msg.todo \subseteq Req

(***************************************************************************)
(* No assertion of the index or of a BlockHashState fails and no index is  *)
(* out of bounds (kvcache.rs 213-298, block_hash.rs 149-201 and 736): for  *)
(* that, what the router remembers of a request's blocks must keep up with *)
(* what the engine does to them.                                           *)
(***************************************************************************)
NoPanic == ~ panic

(***************************************************************************)
(* Between steps the hash table has each block under the hash the engine   *)
(* cached it under, and no other block.                                    *)
(***************************************************************************)
TableExact == msg = Idle => block_to_hash = cached

(***************************************************************************)
(* And so has the tree: no eviction takes with it a block that is still    *)
(* cached, and no committed block is missing (the aliases of alias_path).  *)
(***************************************************************************)
TreeExact ==
    msg = Idle => \A b \in Bid :
        cached[b] = IF tree.block_to_node[b] = Null THEN None ELSE HashOf(tree, b)

(***************************************************************************)
(* The tree keeps its shape, block_to_node included.                       *)
(***************************************************************************)
TreeWellFormed == WellFormed(tree)

(***************************************************************************)
(* Both indexes are exact between steps, and the tree is a tree at every   *)
(* one (kvcache.rs 61-144, block_hash.rs 382-739).                         *)
(***************************************************************************)
IndexExact == TypeOK /\ TableExact /\ TreeExact /\ TreeWellFormed

(***************************************************************************)
(* The tree's answer never exceeds the table's, which is the length of the *)
(* longest cached prefix.                                                  *)
(***************************************************************************)
NeverOverPredicts ==
    \A r \in Req : TreeGet(tree, bhs[r].block_hashes) <= TableGet(bhs[r].block_hashes)

(***************************************************************************)
(* Where the engine reports whole prefixes the two indexes answer alike    *)
(* (the tests of kvcache.rs 478-502 compare them so).                      *)
(***************************************************************************)
AnswersAgreeOnPrefixes ==
    reports = "prefix" => \A r \in Req :
        TreeGet(tree, bhs[r].block_hashes) = TableGet(bhs[r].block_hashes)

(***************************************************************************)
(* So a prediction made with the tree is never more than what is cached,   *)
(* and is all of it where the engine gives whole prefixes.                 *)
(***************************************************************************)
TreeAnswers == NeverOverPredicts /\ AnswersAgreeOnPrefixes

(***************************************************************************)
(* The hash the router computes for a block is that of the tokens the      *)
(* engine has in it, whatever part of them came with the prompt.           *)
(***************************************************************************)
HashesAligned ==
    \A r \in Req : \A i \in DOMAIN bhs[r].block_hashes :
        i * BlockSize <= Len(toks[r]) /\ bhs[r].block_hashes[i] = HashAt(r, i)

===============================================================================

----------------------------- MODULE BlockHashState -----------------------------
(***************************************************************************)
(* What the router knows of the blocks of one request                      *)
(* (router/src/scheduler/kvcache.rs, struct BlockHashState).  The hash     *)
(* function chains: hashing a block onto the hash of those before it.  It  *)
(* is taken to be free of collisions, so a hash is the tokens it covers.   *)
(***************************************************************************)
EXTENDS Integers, Sequences

CONSTANTS
    BlockSize,   \* tokens of a block
    MinChunk     \* the length below which new takes a chunk to be incomplete, 16

DEFAULT_BLOCK_HASH == <<>>

NONE_SENTINEL == -1   \* the number with only its highest bit set

HashBlock(block, prev) == prev \o block

(***************************************************************************)
(* The chunks new hashes: those before the first one shorter than          *)
(* MinChunk.  With BlockSize = MinChunk these are the whole blocks.        *)
(***************************************************************************)
HashedChunks(tokens) ==
    LET whole == Len(tokens) \div BlockSize
    IN IF BlockSize < MinChunk THEN 0
       ELSE whole + (IF Len(tokens) % BlockSize >= MinChunk THEN 1 ELSE 0)

ChunkEnd(tokens, i) == IF i * BlockSize < Len(tokens) THEN i * BlockSize ELSE Len(tokens)

New(tokens) ==
    LET n == HashedChunks(tokens)
        hashes == [i \in 1..n |-> SubSeq(tokens, 1, ChunkEnd(tokens, i))]
    IN [block_hashes |-> hashes,
        block_indices |-> <<>>,
        sync_nblks |-> 0,
        pred_hit_nblks |-> NONE_SENTINEL,
        prev_hash |-> IF n = 0 THEN DEFAULT_BLOCK_HASH ELSE hashes[n],
        token_in_last_block |-> SubSeq(tokens, n * BlockSize + 1, ChunkEnd(tokens, n + 1))]

(***************************************************************************)
(* set_pred_block_hits: once, by the scheduler.                            *)
(***************************************************************************)
SetPredPanics(s) == s.pred_hit_nblks # NONE_SENTINEL

SetPredBlockHits(s, n) == [s EXCEPT !.pred_hit_nblks = n]

(***************************************************************************)
(* set_real_token_hits_get_diff: the blocks the engine had are known to    *)
(* the router already.  It asserts that the scheduler has predicted.       *)
(***************************************************************************)
SetRealPanics(s) == s.pred_hit_nblks = NONE_SENTINEL

SetRealTokenHits(s, tokens) ==
    LET hits == tokens \div BlockSize
    IN [s EXCEPT !.sync_nblks = IF @ < hits THEN hits ELSE @]

(***************************************************************************)
(* mutant: the tokens of the prompt's last, incomplete block are forgotten *)
(* when a block is completed.                                              *)
(***************************************************************************)
AppendTokensUnchained(s, new) ==
    LET last == s.token_in_last_block \o new
        hash == HashBlock(SubSeq(last, 1, BlockSize), DEFAULT_BLOCK_HASH)
    IN IF Len(last) < BlockSize THEN [s EXCEPT !.token_in_last_block = last]
       ELSE [s EXCEPT !.token_in_last_block = <<>>, !.prev_hash = hash,
                      !.block_hashes = Append(@, hash)]

(***************************************************************************)
(* append_tokens: at most one block is completed by a call.                *)
(***************************************************************************)
AppendTokens(s, new) ==
    LET last == s.token_in_last_block \o new
        hash == HashBlock(SubSeq(last, 1, BlockSize), s.prev_hash)
    IN IF Len(last) < BlockSize THEN [s EXCEPT !.token_in_last_block = last]
       ELSE [s EXCEPT !.token_in_last_block = SubSeq(last, BlockSize + 1, Len(last)),
                      !.prev_hash = hash,
                      !.block_hashes = Append(@, hash)]

(***************************************************************************)
(* set_bids: the count of synchronised blocks holds while the block after  *)
(* them is still the same one.  0 is no block.                             *)
(***************************************************************************)
BidAt(bids, i) == IF i < Len(bids) THEN bids[i + 1] ELSE 0

SetBids(s, bids) ==
    LET old == BidAt(s.block_indices, s.sync_nblks)
        new == BidAt(bids, s.sync_nblks)
    IN [s EXCEPT !.sync_nblks = IF old # new \/ old = 0 THEN 0 ELSE @,
                 !.block_indices = bids]

(***************************************************************************)
(* get_onto_hashes: where the newly committed blocks are among those of    *)
(* the request: right after the synchronised ones, or anywhere.  The       *)
(* result is an offset, -1 for Err, -2 for an index out of bounds.         *)
(***************************************************************************)
WindowAt(s, i, bids) ==
    /\ i + Len(bids) <= Len(s.block_indices)
    /\ SubSeq(s.block_indices, i + 1, i + Len(bids)) = bids

Onto(s, bids) ==
    LET n == s.sync_nblks
        slow == {i \in 0..Len(s.block_indices) : WindowAt(s, i, bids)}
        fast == BidAt(s.block_indices, n) = bids[1]
    IN IF \/ n >= Len(s.block_indices)
          \/ fast /\ n + Len(bids) > Len(s.block_indices) THEN -2
       ELSE IF fast /\ WindowAt(s, n, bids) THEN n
       ELSE IF slow = {} THEN -1
       ELSE CHOOSE i \in slow : \A j \in slow : i <= j

GetOntoPanics(s, bids) ==
    LET begin == Onto(s, bids)
    IN begin < 0 \/ begin + Len(bids) > Len(s.block_hashes)

OntoHashes(s, bids) ==
    SubSeq(s.block_hashes, Onto(s, bids) + 1, Onto(s, bids) + Len(bids))

Synced(s, bids) == [s EXCEPT !.sync_nblks = Onto(s, bids) + Len(bids)]

===============================================================================

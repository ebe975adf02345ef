--------------------------- MODULE HashTableBlockHash ---------------------------
(***************************************************************************)
(* The prefix index of a replica as a hash table                           *)
(* (router/src/scheduler/kvcache.rs, feature hashtable-blockhash): the     *)
(* blocks the engine has cached, by the hash of the prefix each ends.      *)
(***************************************************************************)
EXTENDS Naturals, Sequences

CONSTANTS
    Bid,    \* block ids of the engine
    Hash,   \* hashes of prefixes
    None    \* the block is under no hash

ASSUME NoneAssumption == None \notin Hash

VARIABLES
    map,            \* the blocks of each hash that has one: a function on a subset of Hash
    block_to_hash   \* the hash of each block, or None

tableVars == <<map, block_to_hash>>

(***************************************************************************)
(* insert: its debug assertions, then the table after it.  A block already *)
(* under the hash stays as it is; the sequences pair up.                   *)
(***************************************************************************)
InsertAllowed(hashes, bids) ==
    /\ Len(hashes) = Len(bids)
    /\ \A i \in DOMAIN bids : block_to_hash[bids[i]] \in {None, hashes[i]}
    /\ \A i, j \in DOMAIN bids : bids[i] = bids[j] => hashes[i] = hashes[j]

BlocksAt(hashes, bids, h) == {bids[i] : i \in {j \in DOMAIN bids : hashes[j] = h}}

MapAfterInsert(hashes, bids) ==
    [h \in DOMAIN map \cup {hashes[i] : i \in DOMAIN hashes} |->
        (IF h \in DOMAIN map THEN map[h] ELSE {}) \cup BlocksAt(hashes, bids, h)]

TableInsert(hashes, bids) ==
    /\ map' = MapAfterInsert(hashes, bids)
    /\ block_to_hash' = [b \in Bid |->
          IF \E i \in DOMAIN bids : bids[i] = b
          THEN hashes[CHOOSE i \in DOMAIN bids : bids[i] = b]
          ELSE block_to_hash[b]]

(***************************************************************************)
(* mutant: remove leaves the entry of a hash that has lost its last block. *)
(***************************************************************************)
MapAfterRemoveKeepsEmpty(bids) == [h \in DOMAIN map |-> map[h] \ bids]

(***************************************************************************)
(* remove: a block under no hash is skipped; the entry of a hash goes with *)
(* its last block.                                                         *)
(***************************************************************************)
MapAfterRemove(bids) ==
    LET left(h) == map[h] \ bids
    IN [h \in {k \in DOMAIN map : left(k) # {}} |-> left(h)]

TableRemove(bids) ==
    /\ map' = MapAfterRemove(bids)
    /\ block_to_hash' = [b \in Bid |-> IF b \in bids THEN None ELSE block_to_hash[b]]

(***************************************************************************)
(* get: the number of leading hashes that are in the table.                *)
(***************************************************************************)
Matched(hashes, n) == \A i \in 1..n : hashes[i] \in DOMAIN map

TableGet(hashes) ==
    CHOOSE n \in 0..Len(hashes) :
        /\ Matched(hashes, n)
        /\ n < Len(hashes) => ~ Matched(hashes, n + 1)

TableInit ==
    /\ map = [h \in {} |-> {}]
    /\ block_to_hash = [b \in Bid |-> None]

TableNext ==
    \/ \E hashes \in Seq(Hash), bids \in Seq(Bid) :
          InsertAllowed(hashes, bids) /\ TableInsert(hashes, bids)
    \/ \E bids \in SUBSET Bid : TableRemove(bids)

TableSpec == TableInit /\ [][TableNext]_tableVars

-------------------------------------------------------------------------------

TableTypeOK ==
    /\ DOMAIN map \subseteq Hash
    /\ map \in [DOMAIN map -> SUBSET Bid]
    /\ block_to_hash \in [Bid -> Hash \cup {None}]

(***************************************************************************)
(* The two halves of the table are inverse of one another and no hash is   *)
(* kept without a block: what insert and remove must keep, each at two     *)
(* places, for get to mean anything.                                       *)
(***************************************************************************)
TableConsistent ==
    /\ \A h \in DOMAIN map : map[h] # {}
    /\ \A b \in Bid :
          /\ block_to_hash[b] # None =>
                /\ block_to_hash[b] \in DOMAIN map
                /\ b \in map[block_to_hash[b]]
          /\ \A h \in DOMAIN map : b \in map[h] => block_to_hash[b] = h

===============================================================================

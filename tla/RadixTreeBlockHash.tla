--------------------------- MODULE RadixTreeBlockHash ---------------------------
(***************************************************************************)
(* The prefix index of a replica as a Patricia tree                        *)
(* (radixtree/src/block_hash.rs).  A tree t is a record: t.node, the nodes *)
(* that are allocated; t.block_to_node, the node each block is in, or      *)
(* Null.  A node spells a run of hashes (value), keeps the set of blocks   *)
(* of each (payload), and has its children in a Vec until they are more    *)
(* than SmallMax and in a HashMap keyed by their first hash (large) from   *)
(* then on.  A use of a freed node is an application outside the domain of *)
(* t.node, which TLC reports.                                              *)
(***************************************************************************)
EXTENDS Naturals, Sequences, SequencesExt, FiniteSets

CONSTANTS
    Bid,        \* block ids
    Node,       \* the allocator's addresses
    Null,       \* the null pointer
    Root,       \* the node that is never freed
    SmallMax    \* SMALL_MAX

EmptyNode == [value |-> <<>>, payload |-> <<>>, kids |-> <<>>, large |-> FALSE, key |-> Null]

NewTree ==
    [node |-> [n \in {Root} |-> EmptyNode], block_to_node |-> [b \in Bid |-> Null]]

IsEmptyNode(t, n) == t.node[n].value = <<>> /\ t.node[n].kids = <<>>

Alloc(t) == CHOOSE n \in Node : n \notin DOMAIN t.node

Free(t, N) == [t EXCEPT !.node = [n \in DOMAIN t.node \ N |-> t.node[n]]]

Put(t, n, r) == [t EXCEPT !.node = [m \in DOMAIN t.node \cup {n} |->
                                        IF m = n THEN r ELSE t.node[m]]]

BidsOf(r) == UNION Range(r.payload)

Register(t, B, n) == [t EXCEPT !.block_to_node = [b \in Bid |-> IF b \in B THEN n ELSE @[b]]]

(***************************************************************************)
(* common_prefix: how far a node's run agrees with the key.                *)
(***************************************************************************)
Agree(t, n, key) ==
    LET value == t.node[n].value
        n0 == IF Len(value) < Len(key) THEN Len(value) ELSE Len(key)
    IN CHOOSE i \in 0..n0 :
          /\ SubSeq(value, 1, i) = SubSeq(key, 1, i)
          /\ i < n0 => value[i + 1] # key[i + 1]

(***************************************************************************)
(* The child of n a walk with the key visits: in a Vec the first that      *)
(* spells the key's first hash, in a HashMap the one under it.             *)
(***************************************************************************)
Visits(t, n, key) ==
    LET IsNext(k) == IF t.node[n].large THEN t.node[k].key = key[1]
                     ELSE Agree(t, k, key) > 0
    IN IF \E i \in DOMAIN t.node[n].kids : IsNext(t.node[n].kids[i])
       THEN t.node[n].kids[CHOOSE i \in DOMAIN t.node[n].kids :
                /\ IsNext(t.node[n].kids[i])
                /\ \A j \in 1..(i - 1) : ~ IsNext(t.node[n].kids[j])]
       ELSE Null

(***************************************************************************)
(* The empty children a walk of an insertion frees on its way: in a Vec    *)
(* those before the child it visits, in a HashMap the one under the key.   *)
(***************************************************************************)
Reaped(t, n, key) ==
    LET kids == t.node[n].kids
        next == Visits(t, n, key)
        Passed(i) == \A j \in 1..(i - 1) : kids[j] # next
    IN {kids[i] : i \in {j \in DOMAIN kids :
                            /\ IsEmptyNode(t, kids[j])
                            /\ IF t.node[n].large THEN kids[j] = next ELSE Passed(j)}}

(***************************************************************************)
(* mutant: the walk leaves the empty children where they are.              *)
(***************************************************************************)
ReapNothing(t, n, key) == t

Reap(t, n, key) ==
    LET dead == Reaped(t, n, key)
    IN Free([t EXCEPT !.node[n].kids = SelectSeq(@, LAMBDA k : k \notin dead)], dead)

(***************************************************************************)
(* A walk w from the root with a key: the node it is at and how many       *)
(* hashes of its run it has matched, the hashes that are left, and where   *)
(* those before them lie (node and position).  It ends in the middle of a  *)
(* run or with the key.  A step goes to the next node and takes at least   *)
(* one hash, or ends at an empty node: the key's length bounds the steps.  *)
(***************************************************************************)
AtRoot(t, key) == [tree |-> t, at |-> Root, common |-> 0, rest |-> key, path |-> <<>>]

Ended(w) == w.rest = <<>> \/ w.common < Len(w.tree.node[w.at].value)

Down(w) ==
    LET next == Visits(w.tree, w.at, w.rest)
        common == Agree(w.tree, next, w.rest)
    IN IF Ended(w) \/ next = Null THEN w
       ELSE [w EXCEPT !.at = next, !.common = common,
                      !.rest = SubSeq(@, common + 1, Len(@)),
                      !.path = @ \o [i \in 1..common |-> [node |-> next, pos |-> i]]]

(***************************************************************************)
(* The walk of an insertion, which reaps as it goes:                       *)
(* common_prefix_full_combo, and its first level in insert_inner.          *)
(***************************************************************************)
Walk(w) == IF Ended(w) THEN w ELSE Down([w EXCEPT !.tree = Reap(@, w.at, w.rest)])

WalkFromRoot(t, key) ==
    LET walk[i \in 0..Len(key)] == IF i = 0 THEN AtRoot(t, key) ELSE Walk(walk[i - 1])
    IN walk[Len(key)]

(***************************************************************************)
(* Where the hashes of a key lie, as far as they match.                    *)
(***************************************************************************)
Path(t, key) ==
    LET walk[i \in 0..Len(key)] == IF i = 0 THEN AtRoot(t, key) ELSE Down(walk[i - 1])
    IN walk[Len(key)].path

(***************************************************************************)
(* get: the length of the path, which no lock protects beyond the mutex of *)
(* the schedule context and which frees nothing.                           *)
(***************************************************************************)
TreeGet(t, key) == Len(Path(t, key))

(***************************************************************************)
(* mutant: the blocks of the matched part are dropped (the under-          *)
(* prediction the comment on alias_path describes).                        *)
(***************************************************************************)
NoAlias(t, key, bids) == t

(***************************************************************************)
(* alias_path, and the first loop of split_node_at_insert: a block of the  *)
(* matched part that is in no node joins the blocks of its hash.           *)
(***************************************************************************)
Alias(t, key, bids) ==
    LET path == Path(t, key)
        New(i) == t.block_to_node[bids[i]] = Null
        Joining(n, pos) == {bids[i] : i \in {j \in DOMAIN path :
                               New(j) /\ path[j].node = n /\ path[j].pos = pos}}
    IN [node |-> [n \in DOMAIN t.node |->
                    [t.node[n] EXCEPT !.payload =
                        [pos \in DOMAIN @ |-> @[pos] \cup Joining(n, pos)]]],
        block_to_node |-> [b \in Bid |->
            IF \E i \in DOMAIN path : bids[i] = b /\ New(i)
            THEN path[CHOOSE i \in DOMAIN path : bids[i] = b /\ New(i)].node
            ELSE t.block_to_node[b]]]

Leaf(hashes, bids) ==
    [value |-> hashes, payload |-> [i \in DOMAIN bids |-> {bids[i]}], kids |-> <<>>,
     large |-> FALSE, key |-> hashes[1]]

(***************************************************************************)
(* insert_as_child: the Vec becomes a HashMap when it outgrows SmallMax.   *)
(***************************************************************************)
InsertAsChild(t, n, hashes, bids) ==
    LET new == Alloc(t)
        u == Put(t, new, Leaf(hashes, bids))
        grown == [u EXCEPT !.node[n].kids = Append(@, new),
                           !.node[n].large = @ \/ Len(u.node[n].kids) + 1 > SmallMax]
    IN Register(grown, Range(bids), new)

(***************************************************************************)
(* A node with no children takes the rest of the key at its end.           *)
(***************************************************************************)
Extend(t, n, hashes, bids) ==
    Register([t EXCEPT !.node[n].value = @ \o hashes,
                       !.node[n].payload = @ \o [i \in DOMAIN bids |-> {bids[i]}]],
             Range(bids), n)

(***************************************************************************)
(* split_node_at_insert: the node keeps the common part; its tail, with    *)
(* its children, and the rest of the key become its two children.          *)
(***************************************************************************)
SplitAt(t, n, common, hashes, bids) ==
    LET old == t.node[n]
        tail == [old EXCEPT !.value = SubSeq(@, common + 1, Len(@)),
                            !.payload = SubSeq(@, common + 1, Len(@)),
                            !.key = old.value[common + 1]]
        t1 == Put(t, Alloc(t), tail)
        t2 == Put(t1, Alloc(t1), Leaf(hashes, bids))
        head == [old EXCEPT !.value = SubSeq(@, 1, common), !.payload = SubSeq(@, 1, common),
                            !.kids = <<Alloc(t), Alloc(t1)>>, !.large = FALSE]
        t3 == Put(t2, n, head)
    IN Register(Register(t3, BidsOf(tail), Alloc(t)), Range(bids), Alloc(t1))

(***************************************************************************)
(* What insert_inner asserts of the blocks that get a place of their own,  *)
(* at the end w of the walk: they are in no node (or, when it extends a    *)
(* node, in that one), and no child is empty, and so without a first hash, *)
(* when the Vec becomes a HashMap.                                         *)
(***************************************************************************)
Unmatched(w, bids) == SubSeq(bids, Len(bids) - Len(w.rest) + 1, Len(bids))

InsertPanics(w, bids) ==
    LET n == w.tree.node[w.at]
        whole == w.common = Len(n.value)
        extends == whole /\ w.at # Root /\ n.kids = <<>>
    IN /\ w.rest # <<>>
       /\ \/ \E b \in Range(Unmatched(w, bids)) :
                w.tree.block_to_node[b] \notin (IF extends THEN {Null, w.at} ELSE {Null})
          \/ whole /\ ~ extends /\ ~ n.large /\ Len(n.kids) + 1 > SmallMax
             /\ \E i \in DOMAIN n.kids : IsEmptyNode(w.tree, n.kids[i])

(***************************************************************************)
(* insert_inner: the matched part is aliased, the rest goes where the walk *)
(* ended.  The walk w and the aliased tree t are one value each, however   *)
(* often they are used below.                                              *)
(***************************************************************************)
Aliased(w, hashes, bids) ==
    LET matched == Len(hashes) - Len(w.rest)
    IN Alias(w.tree, SubSeq(hashes, 1, matched), SubSeq(bids, 1, matched))

InsertRest(t, w, new) ==
    LET n == t.node[w.at]
    IN IF w.rest = <<>> THEN t
       ELSE IF w.common < Len(n.value) THEN SplitAt(t, w.at, w.common, w.rest, new)
       ELSE IF w.at # Root /\ n.kids = <<>> THEN Extend(t, w.at, w.rest, new)
       ELSE InsertAsChild(t, w.at, w.rest, new)

(***************************************************************************)
(* clear_inner: a subtree is freed and its blocks are in no node.          *)
(***************************************************************************)
WithKids(t, N) == N \cup UNION {Range(t.node[k].kids) : k \in N}

Below(t, n) ==
    LET within[i \in 0..Cardinality(DOMAIN t.node)] == IF i = 0 THEN {n} ELSE WithKids(t, within[i - 1])
    IN within[Cardinality(DOMAIN t.node)]

(***************************************************************************)
(* mutant: a hash that has lost its last block stays in the run.           *)
(***************************************************************************)
RemoveOneNoCut(t, b) ==
    LET n == t.block_to_node[b]
    IN IF n = Null THEN t
       ELSE Register([t EXCEPT !.node[n].payload = [i \in DOMAIN @ |-> @[i] \ {b}]], {b}, Null)

(***************************************************************************)
(* remove_inner for one block: while other blocks share its hash only the  *)
(* block goes; the last one takes the rest of the run and the subtree with *)
(* it.  The node itself stays, empty perhaps, until an insertion reaps it. *)
(***************************************************************************)
RemoveOne(t, b) ==
    LET n == t.block_to_node[b]
        r == t.node[n]
        pos == CHOOSE i \in DOMAIN r.payload : b \in r.payload[i]
        kids == UNION {Below(t, k) : k \in Range(r.kids)}
        lost == UNION {r.payload[i] : i \in pos..Len(r.payload)}
                \cup UNION {BidsOf(t.node[k]) : k \in kids}
        cut == [r EXCEPT !.value = SubSeq(@, 1, pos - 1), !.payload = SubSeq(@, 1, pos - 1),
                         !.kids = <<>>]
    IN IF n = Null THEN t
       ELSE IF r.payload[pos] # {b}
            THEN Register([t EXCEPT !.node[n].payload[pos] = @ \ {b}], {b}, Null)
            ELSE Register(Put(Free(t, kids), n, cut), lost, Null)

TreeRemove(t, bids) == FoldRight(LAMBDA b, u : RemoveOne(u, b), bids, t)

(***************************************************************************)
(* remove_inner asserts that it has taken out no more blocks than it was   *)
(* told to: no block has fallen with another's run or subtree.             *)
(***************************************************************************)
InTree(t) == {b \in Bid : t.block_to_node[b] # Null}

RemovePanics(t, bids) ==
    Cardinality(InTree(t)) - Cardinality(InTree(TreeRemove(t, bids))) > Len(bids)

-------------------------------------------------------------------------------

(***************************************************************************)
(* The hash a block is under.                                              *)
(***************************************************************************)
HashOf(t, b) ==
    LET r == t.node[t.block_to_node[b]]
    IN r.value[CHOOSE i \in DOMAIN r.payload : b \in r.payload[i]]

Distinct(s) == \A i, j \in DOMAIN s : s[i] = s[j] => i = j

(***************************************************************************)
(* The shape of a tree no operation may break: every allocated node hangs  *)
(* from the root once; runs and payloads line up and every position has a  *)
(* block; a node without a run has no children; two siblings never start   *)
(* with the same hash; a child is in a HashMap under its first hash; and   *)
(* block_to_node is where each block is.                                   *)
(***************************************************************************)
WellFormed(t) ==
    LET N == DOMAIN t.node
        Parents(n) == {m \in N : \E i \in DOMAIN t.node[m].kids : t.node[m].kids[i] = n}
    IN /\ Below(t, Root) = N
       /\ Parents(Root) = {} /\ \A n \in N \ {Root} : Cardinality(Parents(n)) = 1
       /\ \A n \in N :
             LET r == t.node[n]
                 heads == [i \in DOMAIN r.kids |-> t.node[r.kids[i]].value]
             IN /\ Len(r.value) = Len(r.payload)
                /\ \A i \in DOMAIN r.payload : r.payload[i] # {}
                /\ n # Root /\ r.value = <<>> => r.kids = <<>>
                /\ Distinct(r.kids)
                /\ \A i, j \in DOMAIN r.kids :
                      heads[i] # <<>> /\ heads[j] # <<>> /\ heads[i][1] = heads[j][1] => i = j
                /\ r.large => Distinct([i \in DOMAIN r.kids |-> t.node[r.kids[i]].key])
                /\ n # Root /\ r.value # <<>> => r.key = r.value[1]
       /\ \A b \in Bid : {n \in N : b \in BidsOf(t.node[n])} =
                         {t.block_to_node[b]} \ {Null}

===============================================================================

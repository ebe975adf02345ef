---------------------------- MODULE RadixTreeReqIdHash ----------------------------
(***************************************************************************)
(* The trie of the prompts in flight (radixtree/src/req_id_hash.rs): one   *)
(* hash per edge, at each node the requests whose prompt passes through,   *)
(* and beside it an index from a hash to the requests whose prompt has it. *)
(* A node is named by its path from the root, so the trie is a function    *)
(* from paths to owners whose domain is closed under prefixes.             *)
(***************************************************************************)
EXTENDS Naturals, Sequences, FiniteSets, SequencesExt, Functions

EmptyTrie == [owners |-> [p \in {} |-> {}], hash_owners |-> [h \in {} |-> {}]]

Paths(t) == DOMAIN t.owners

OwnersOf(t, h) == IF h \in DOMAIN t.hash_owners THEN t.hash_owners[h] ELSE {}

(* The nodes on the way down hashes, the root left out.                    *)
PathOf(hashes) == {SubSeq(hashes, 1, n) : n \in 1..Len(hashes)}

InsertHashes(t, hashes, rid) ==
    [owners |-> [p \in Paths(t) \cup PathOf(hashes) |->
                    (IF p \in Paths(t) THEN t.owners[p] ELSE {})
                    \cup (IF p \in PathOf(hashes) THEN {rid} ELSE {})],
     hash_owners |-> [h \in DOMAIN t.hash_owners \cup Range(hashes) |->
                         OwnersOf(t, h) \cup (IF h \in Range(hashes) THEN {rid} ELSE {})]]

StripOwnerAlongPath(owners, hashes, rid) ==
    [p \in DOMAIN owners |-> IF p \in PathOf(hashes) THEN owners[p] \ {rid} ELSE owners[p]]

(* mutant: the node at the end of the path alone is looked at.             *)
PruneLeafOnly(owners, hashes) ==
    RestrictDomain(owners, LAMBDA p : p # hashes \/ owners[p] # {})

(* The removal runs up the path from its end: a node goes when nobody owns *)
(* it and nothing is left below it.                                        *)
PruneEmpty(owners, hashes) ==
    LET gone == {p \in PathOf(hashes) \cap DOMAIN owners :
                    \A q \in DOMAIN owners :
                        IsPrefix(p, q) => IsPrefix(q, hashes) /\ owners[q] = {}}
    IN RestrictDomain(owners, LAMBDA p : p \notin gone)

RemoveByHashes(t, hashes, rid) ==
    LET left == [h \in DOMAIN t.hash_owners |->
                    IF h \in Range(hashes) THEN t.hash_owners[h] \ {rid} ELSE t.hash_owners[h]]
    IN [owners |-> PruneEmpty(StripOwnerAlongPath(t.owners, hashes, rid), hashes),
        hash_owners |-> RestrictDomain(left, LAMBDA h : h \in Range(hashes) => left[h] # {})]

(* get: how many of the hashes, from the first, the trie holds.            *)
PrefixLen(t, hashes) == Cardinality(PathOf(hashes) \cap Paths(t))

(* Only a child of the root is removed, with all that is below it; the     *)
(* index forgets this hash and no hash of the subtree.                     *)
EvictOrphanHash(t, h) ==
    IF <<h>> \notin Paths(t) THEN t
    ELSE [owners |-> RestrictDomain(t.owners, LAMBDA p : p[1] # h),
          hash_owners |-> RestrictDomain(t.hash_owners, LAMBDA g : g # h)]
====

---------------------------- MODULE PrefixCacheProofs ---------------------------
(***************************************************************************)
(* The hash table stays consistent under any sequence of insertions and    *)
(* removals that keep the assertions of insert, and the hashes of a        *)
(* request stay those of its tokens.                                       *)
(***************************************************************************)
EXTENDS PrefixCache, SequenceTheorems, TLAPS

TableInv == TableTypeOK /\ TableConsistent

LEMMA TableInitInv == TableInit => TableInv
BY NoneAssumption DEF TableInit, TableInv, TableTypeOK, TableConsistent

(***************************************************************************)
(* An insertion keeps the two halves inverse of one another: its           *)
(* assertions leave no block under two hashes.                             *)
(***************************************************************************)
LEMMA InsertKeepsInv ==
    ASSUME TableInv,
           NEW hashes \in Seq(Hash), NEW bids \in Seq(Bid),
           InsertAllowed(hashes, bids), TableInsert(hashes, bids)
    PROVE  TableInv'
<1> DEFINE At(b) == \E i \in DOMAIN bids : bids[i] = b
           Pos(b) == CHOOSE i \in DOMAIN bids : bids[i] = b
           Old(h) == IF h \in DOMAIN map THEN map[h] ELSE {}
<1>1. /\ DOMAIN hashes = DOMAIN bids
      /\ \A i \in DOMAIN bids : hashes[i] \in Hash /\ bids[i] \in Bid
      /\ \A i \in DOMAIN bids : block_to_hash[bids[i]] \in {None, hashes[i]}
      /\ \A i, j \in DOMAIN bids : bids[i] = bids[j] => hashes[i] = hashes[j]
  BY DEF InsertAllowed
<1>2. /\ map' = [h \in DOMAIN map \cup {hashes[i] : i \in DOMAIN hashes} |->
                    Old(h) \cup BlocksAt(hashes, bids, h)]
      /\ block_to_hash' = [b \in Bid |-> IF At(b) THEN hashes[Pos(b)] ELSE block_to_hash[b]]
  BY DEF TableInsert, MapAfterInsert
<1>3. \A h : BlocksAt(hashes, bids, h) = {bids[i] : i \in {j \in DOMAIN bids : hashes[j] = h}}
  BY DEF BlocksAt
<1>4. \A b : At(b) => Pos(b) \in DOMAIN bids /\ bids[Pos(b)] = b
  OBVIOUS
<1>5. \A i \in DOMAIN bids : block_to_hash'[bids[i]] = hashes[i]
  <2> TAKE i \in DOMAIN bids
  <2>1. At(bids[i]) OBVIOUS
  <2>2. hashes[Pos(bids[i])] = hashes[i]
    BY <1>1, <1>4, <2>1
  <2> QED BY <1>1, <1>2, <2>1, <2>2
<1>6. \A b \in Bid : ~ At(b) => block_to_hash'[b] = block_to_hash[b]
  BY <1>2
<1>7. TableTypeOK'
  <2>1. DOMAIN map' \subseteq Hash
    BY <1>1, <1>2 DEF TableInv, TableTypeOK
  <2>2. map' \in [DOMAIN map' -> SUBSET Bid]
    <3>1. \A h : BlocksAt(hashes, bids, h) \subseteq Bid BY <1>1, <1>3
    <3>2. \A h : Old(h) \subseteq Bid BY DEF TableInv, TableTypeOK
    <3> HIDE DEF Old
    <3> QED BY <1>2, <3>1, <3>2
  <2>3. block_to_hash' \in [Bid -> Hash \cup {None}]
    BY <1>1, <1>2, <1>4 DEF TableInv, TableTypeOK
  <2> QED BY <2>1, <2>2, <2>3 DEF TableTypeOK
<1>8. ASSUME NEW h \in DOMAIN map' PROVE map'[h] # {}
  <2>1. CASE h \in DOMAIN map
    BY <1>2, <2>1 DEF TableInv, TableConsistent
  <2>2. CASE h \notin DOMAIN map
    <3>1. PICK i \in DOMAIN hashes : h = hashes[i] BY <1>2, <2>2
    <3>2. bids[i] \in BlocksAt(hashes, bids, h) BY <1>1, <1>3, <3>1
    <3> QED BY <1>2, <3>2
  <2> QED BY <2>1, <2>2
<1>9. ASSUME NEW b \in Bid, block_to_hash'[b] # None
      PROVE  block_to_hash'[b] \in DOMAIN map' /\ b \in map'[block_to_hash'[b]]
  <2>1. CASE At(b)
    <3>1. PICK i \in DOMAIN bids : bids[i] = b BY <2>1
    <3>2. block_to_hash'[b] = hashes[i] BY <1>5, <3>1
    <3>3. b \in BlocksAt(hashes, bids, hashes[i]) BY <1>3, <3>1
    <3> QED BY <1>1, <1>2, <3>2, <3>3
  <2>2. CASE ~ At(b)
    <3>1. block_to_hash'[b] = block_to_hash[b] BY <1>6, <2>2
    <3>2. block_to_hash[b] \in DOMAIN map /\ b \in map[block_to_hash[b]]
      BY <1>9, <3>1 DEF TableInv, TableConsistent
    <3> QED BY <1>2, <3>1, <3>2
  <2> QED BY <2>1, <2>2
<1>10. ASSUME NEW b \in Bid, NEW h \in DOMAIN map', b \in map'[h]
       PROVE  block_to_hash'[b] = h
  <2>1. CASE b \in BlocksAt(hashes, bids, h)
    <3>1. PICK i \in DOMAIN bids : hashes[i] = h /\ bids[i] = b BY <1>3, <2>1
    <3> QED BY <1>5, <3>1
  <2>2. CASE b \notin BlocksAt(hashes, bids, h)
    <3>1. h \in DOMAIN map /\ b \in map[h] BY <1>2, <1>10, <2>2
    <3>2. block_to_hash[b] = h BY <3>1 DEF TableInv, TableConsistent
    <3>3. h # None BY <3>1, NoneAssumption DEF TableInv, TableTypeOK
    <3>4. CASE At(b)
      <4>1. PICK i \in DOMAIN bids : bids[i] = b BY <3>4
      <4>2. hashes[i] = h BY <1>1, <3>2, <3>3, <4>1
      <4> QED BY <1>5, <4>1, <4>2
    <3>5. CASE ~ At(b) BY <1>6, <3>2, <3>5
    <3> QED BY <3>4, <3>5
  <2> QED BY <2>1, <2>2
<1>11. TableConsistent'
  BY <1>8, <1>9, <1>10 DEF TableConsistent
<1> QED BY <1>7, <1>11 DEF TableInv

(***************************************************************************)
(* A removal takes each block out of both halves, and a hash with its last *)
(* block.                                                                  *)
(***************************************************************************)
LEMMA RemoveKeepsInv ==
    ASSUME TableInv, NEW bids \in SUBSET Bid, TableRemove(bids)
    PROVE  TableInv'
<1>1. /\ map' = [h \in {k \in DOMAIN map : map[k] \ bids # {}} |-> map[h] \ bids]
      /\ block_to_hash' = [b \in Bid |-> IF b \in bids THEN None ELSE block_to_hash[b]]
  BY DEF TableRemove, MapAfterRemove
<1>2. TableTypeOK'
  BY <1>1 DEF TableInv, TableTypeOK
<1>3. \A h \in DOMAIN map' : map'[h] # {}
  BY <1>1
<1>4. \A b \in Bid : block_to_hash'[b] # None =>
          block_to_hash'[b] \in DOMAIN map' /\ b \in map'[block_to_hash'[b]]
  BY <1>1 DEF TableInv, TableConsistent
<1>5. \A b \in Bid : \A h \in DOMAIN map' : b \in map'[h] => block_to_hash'[b] = h
  BY <1>1 DEF TableInv, TableConsistent
<1> QED BY <1>2, <1>3, <1>4, <1>5 DEF TableInv, TableConsistent

LEMMA TableStepInv == TableInv /\ [TableNext]_tableVars => TableInv'
<1> SUFFICES ASSUME TableInv, [TableNext]_tableVars PROVE TableInv'
  OBVIOUS
<1>1. CASE \E hashes \in Seq(Hash), bids \in Seq(Bid) :
              InsertAllowed(hashes, bids) /\ TableInsert(hashes, bids)
  BY <1>1, InsertKeepsInv
<1>2. CASE \E bids \in SUBSET Bid : TableRemove(bids)
  BY <1>2, RemoveKeepsInv
<1>3. CASE UNCHANGED tableVars
  BY <1>3 DEF tableVars, TableInv, TableTypeOK, TableConsistent
<1> QED BY <1>1, <1>2, <1>3 DEF TableNext

(***************************************************************************)
(* After any sequence of insertions and removals a hash is in the table    *)
(* exactly while a block is under it (HashTableBlockHash::insert, remove). *)
(***************************************************************************)
THEOREM TableStaysConsistent == TableSpec => [](TableTypeOK /\ TableConsistent)
<1>1. TableSpec => []TableInv
  BY TableInitInv, TableStepInv, PTL DEF TableSpec
<1> QED BY <1>1, PTL DEF TableInv

-------------------------------------------------------------------------------
(***************************************************************************)
(* The hashes of a request.  What BlockHashState keeps of them is its      *)
(* record's fields; the other operations leave those alone.                *)
(***************************************************************************)
State(s) ==
    s = [block_hashes |-> s.block_hashes, block_indices |-> s.block_indices,
         sync_nblks |-> s.sync_nblks, pred_hit_nblks |-> s.pred_hit_nblks,
         prev_hash |-> s.prev_hash, token_in_last_block |-> s.token_in_last_block]

SameHashes(s, u) ==
    /\ u.block_hashes = s.block_hashes
    /\ u.prev_hash = s.prev_hash
    /\ u.token_in_last_block = s.token_in_last_block

LEMMA SetPredHashes ==
    ASSUME NEW s, State(s), NEW n
    PROVE  State(SetPredBlockHits(s, n)) /\ SameHashes(s, SetPredBlockHits(s, n))
BY DEF State, SameHashes, SetPredBlockHits

LEMMA SetRealHashes ==
    ASSUME NEW s, State(s), NEW tokens
    PROVE  State(SetRealTokenHits(s, tokens)) /\ SameHashes(s, SetRealTokenHits(s, tokens))
<1> DEFINE found == tokens \div BlockSize
           v == IF s.sync_nblks < found THEN found ELSE s.sync_nblks
<1>1. SetRealTokenHits(s, tokens) = [s EXCEPT !.sync_nblks = v]
  BY DEF SetRealTokenHits
<1> HIDE DEF v
<1> QED BY <1>1 DEF State, SameHashes

LEMMA SetBidsHashes ==
    ASSUME NEW s, State(s), NEW bids
    PROVE  State(SetBids(s, bids)) /\ SameHashes(s, SetBids(s, bids))
<1> DEFINE old == BidAt(s.block_indices, s.sync_nblks)
           new == BidAt(bids, s.sync_nblks)
           v == IF old # new \/ old = 0 THEN 0 ELSE s.sync_nblks
<1>1. SetBids(s, bids) = [s EXCEPT !.sync_nblks = v, !.block_indices = bids]
  BY DEF SetBids
<1> HIDE DEF v
<1> QED BY <1>1 DEF State, SameHashes

LEMMA SyncedHashes ==
    ASSUME NEW s, State(s), NEW bids
    PROVE  State(Synced(s, bids)) /\ SameHashes(s, Synced(s, bids))
<1> DEFINE v == Onto(s, bids) + Len(bids)
<1>1. Synced(s, bids) = [s EXCEPT !.sync_nblks = v]
  BY DEF Synced
<1> HIDE DEF v
<1> QED BY <1>1 DEF State, SameHashes

(***************************************************************************)
(* s has hashed the first n tokens of t, and of no others: the whole       *)
(* blocks of them chained, the rest kept for the next.                     *)
(***************************************************************************)
Covers(s, t, n) ==
    LET k == Len(s.block_hashes)
    IN /\ s.block_hashes \in Seq(Seq(Token))
       /\ n \in 0..Len(t)
       /\ k * BlockSize <= n /\ n < k * BlockSize + BlockSize
       /\ \A i \in 1..k : i * BlockSize <= n /\ s.block_hashes[i] = SubSeq(t, 1, i * BlockSize)
       /\ s.prev_hash = SubSeq(t, 1, k * BlockSize)
       /\ s.token_in_last_block = SubSeq(t, k * BlockSize + 1, n)

LEMMA CoversSame ==
    ASSUME NEW s, NEW u, SameHashes(s, u), NEW t, NEW n, Covers(s, t, n)
    PROVE  Covers(u, t, n)
BY DEF Covers, SameHashes

(* Tokens that come after do not change what a part of them is. *)
LEMMA PartOfAppend ==
    ASSUME NEW t \in Seq(Token), NEW x \in Token, NEW a \in Nat \ {0}, NEW b \in 0..Len(t)
    PROVE  SubSeq(Append(t, x), a, b) = SubSeq(t, a, b)
<1> DEFINE u == Append(t, x)
<1>1. Len(t) \in Nat /\ \A i \in 1..Len(t) : t[i] \in Token /\ u[i] = t[i]
  BY AppendProperties, LenProperties
<1> HIDE DEF u
<1>2. \A i \in a..b : t[i] \in Token /\ u[i] \in Token
  BY <1>1
<1>3. /\ SubSeq(t, a, b) \in Seq(Token)
      /\ Len(SubSeq(t, a, b)) = IF a <= b THEN b - a + 1 ELSE 0
      /\ \A i \in 1..(b - a + 1) : SubSeq(t, a, b)[i] = t[a + i - 1]
  BY <1>1, <1>2, SubSeqProperties
<1>4. /\ SubSeq(u, a, b) \in Seq(Token)
      /\ Len(SubSeq(u, a, b)) = IF a <= b THEN b - a + 1 ELSE 0
      /\ \A i \in 1..(b - a + 1) : SubSeq(u, a, b)[i] = u[a + i - 1]
  BY <1>1, <1>2, SubSeqProperties
<1>5. ASSUME NEW i \in 1..Len(SubSeq(t, a, b)) PROVE SubSeq(t, a, b)[i] = SubSeq(u, a, b)[i]
  <2>1. a <= b /\ i \in 1..(b - a + 1) /\ a + i - 1 \in 1..Len(t)
    BY <1>1, <1>3
  <2> QED BY <1>1, <1>3, <1>4, <2>1
<1>6. SubSeq(t, a, b) = SubSeq(u, a, b)
  BY <1>3, <1>4, <1>5, SeqEqual
<1> QED BY <1>6 DEF u

LEMMA Blocksize == BlockSize \in Nat /\ BlockSize > 0
BY IndexAssumption

LEMMA Times == \A k \in Nat : k * BlockSize \in Nat /\ (k + 1) * BlockSize = k * BlockSize + BlockSize
BY Blocksize

(* What the definition says, with the ranges of the numbers in it. *)
LEMMA CoversIs ==
    ASSUME NEW s, NEW t \in Seq(Token), NEW n, Covers(s, t, n)
    PROVE  LET k == Len(s.block_hashes)
           IN /\ s.block_hashes \in Seq(Seq(Token)) /\ k \in Nat /\ Len(t) \in Nat /\ n \in 0..Len(t)
              /\ k * BlockSize \in Nat /\ k * BlockSize <= n /\ n < k * BlockSize + BlockSize
              /\ \A i \in 1..k : /\ i * BlockSize \in Nat /\ i * BlockSize <= n
                                 /\ s.block_hashes[i] = SubSeq(t, 1, i * BlockSize)
              /\ s.prev_hash = SubSeq(t, 1, k * BlockSize)
              /\ s.token_in_last_block = SubSeq(t, k * BlockSize + 1, n)
<1> DEFINE k == Len(s.block_hashes)
<1>1. s.block_hashes \in Seq(Seq(Token))
  BY DEF Covers
<1>2. k \in Nat /\ Len(t) \in Nat
  BY <1>1, LenProperties
<1>3. \A i \in 1..k : i * BlockSize \in Nat
  <2>1. \A i \in 1..k : i \in Nat
    BY <1>2
  <2> QED BY <2>1, Times
<1>4. k * BlockSize \in Nat
  BY <1>2, Times
<1> QED BY <1>1, <1>2, <1>3, <1>4 DEF Covers

LEMMA CoversGrows ==
    ASSUME NEW s, NEW t \in Seq(Token), NEW n, Covers(s, t, n), NEW x \in Token
    PROVE  Covers(s, Append(t, x), n)
<1> DEFINE k == Len(s.block_hashes)
           u == Append(t, x)
<1>1. /\ s.block_hashes \in Seq(Seq(Token)) /\ k \in Nat /\ Len(t) \in Nat /\ n \in 0..Len(t)
      /\ k * BlockSize \in Nat /\ k * BlockSize <= n /\ n < k * BlockSize + BlockSize
      /\ \A i \in 1..k : /\ i * BlockSize \in Nat /\ i * BlockSize <= n
                         /\ s.block_hashes[i] = SubSeq(t, 1, i * BlockSize)
      /\ s.prev_hash = SubSeq(t, 1, k * BlockSize)
      /\ s.token_in_last_block = SubSeq(t, k * BlockSize + 1, n)
  BY CoversIs
<1>2. Len(u) = Len(t) + 1
  BY AppendProperties
<1>3. ASSUME NEW i \in 1..k PROVE s.block_hashes[i] = SubSeq(u, 1, i * BlockSize)
  <2> DEFINE m == i * BlockSize
  <2>1. m \in Nat /\ m <= n /\ s.block_hashes[i] = SubSeq(t, 1, m)
    BY <1>1
  <2> HIDE DEF m
  <2>2. m \in 0..Len(t) /\ 1 \in Nat \ {0}
    BY <1>1, <2>1
  <2>3. s.block_hashes[i] = SubSeq(u, 1, m)
    BY <2>1, <2>2, PartOfAppend
  <2> QED BY <2>3 DEF m
<1>4. s.prev_hash = SubSeq(u, 1, k * BlockSize)
  <2>1. k * BlockSize \in 0..Len(t)
    BY <1>1
  <2> QED BY <1>1, <2>1, PartOfAppend
<1>5. s.token_in_last_block = SubSeq(u, k * BlockSize + 1, n)
  <2>1. k * BlockSize + 1 \in Nat \ {0}
    BY <1>1
  <2> QED BY <1>1, <2>1, PartOfAppend
<1> HIDE DEF u
<1>6. n \in 0..Len(u)
  BY <1>1, <1>2
<1>7. Covers(s, u, n)
  BY <1>1, <1>3, <1>4, <1>5, <1>6 DEF Covers
<1> QED BY <1>7 DEF u

(***************************************************************************)
(* append_tokens with the token that follows: the block it completes is    *)
(* hashed onto those before it.                                            *)
(***************************************************************************)
LEMMA CoversNext ==
    ASSUME NEW s, State(s), NEW t \in Seq(Token), NEW n, Covers(s, t, n), n < Len(t)
    PROVE  State(AppendTokens(s, <<t[n + 1]>>)) /\ Covers(AppendTokens(s, <<t[n + 1]>>), t, n + 1)
<1> DEFINE k == Len(s.block_hashes)
           b == k * BlockSize
           last == s.token_in_last_block \o <<t[n + 1]>>
           hash == HashBlock(SubSeq(last, 1, BlockSize), s.prev_hash)
           u == AppendTokens(s, <<t[n + 1]>>)
<1>1. /\ s.block_hashes \in Seq(Seq(Token)) /\ k \in Nat /\ Len(t) \in Nat /\ n \in Nat
      /\ b \in Nat /\ b <= n /\ n < b + BlockSize /\ n + 1 \in 1..Len(t)
      /\ \A i \in 1..k : /\ i * BlockSize \in Nat /\ i * BlockSize <= n
                         /\ s.block_hashes[i] = SubSeq(t, 1, i * BlockSize)
      /\ s.prev_hash = SubSeq(t, 1, b)
      /\ s.token_in_last_block = SubSeq(t, b + 1, n)
  <2>1. /\ s.block_hashes \in Seq(Seq(Token)) /\ k \in Nat /\ Len(t) \in Nat /\ n \in 0..Len(t)
        /\ b \in Nat /\ b <= n /\ n < b + BlockSize
        /\ \A i \in 1..k : /\ i * BlockSize \in Nat /\ i * BlockSize <= n
                           /\ s.block_hashes[i] = SubSeq(t, 1, i * BlockSize)
        /\ s.prev_hash = SubSeq(t, 1, b)
        /\ s.token_in_last_block = SubSeq(t, b + 1, n)
    BY CoversIs
  <2> HIDE DEF b
  <2>2. n \in Nat /\ n + 1 \in 1..Len(t)
    BY <2>1
  <2> QED BY <2>1, <2>2
<1>2. (k + 1) * BlockSize = b + BlockSize
  BY <1>1, Times
<1> HIDE DEF b
<1>3. \A i \in 1..Len(t) : t[i] \in Token
  BY LenProperties
<1>4. last = SubSeq(t, b + 1, n + 1)
  <2>1. SubSeq(t, n + 1, n + 1) = <<t[n + 1]>>
    <3> DEFINE v == SubSeq(t, n + 1, n + 1)
               x == <<t[n + 1]>>
    <3>1. \A i \in (n + 1)..(n + 1) : t[i] \in Token
      BY <1>1, <1>3
    <3>2. v \in Seq(Token) /\ Len(v) = 1 /\ v[1] = t[n + 1]
      BY <1>1, <3>1, SubSeqProperties
    <3>3. x \in Seq(Token) /\ Len(x) = 1 /\ x[1] = t[n + 1]
      BY <1>1, <1>3
    <3> HIDE DEF v, x
    <3>4. \A i \in 1..Len(v) : v[i] = x[i]
      BY <3>2, <3>3
    <3>5. v = x
      BY <3>2, <3>3, <3>4, SeqEqual
    <3> QED BY <3>5 DEF v, x
  <2>2. b + 1 \in 1..(Len(t) + 1) /\ n \in (b + 1 - 1)..Len(t) /\ n + 1 \in n..Len(t)
    BY <1>1
  <2>3. SubSeq(t, b + 1, n) \o SubSeq(t, n + 1, n + 1) = SubSeq(t, b + 1, n + 1)
    <3> DEFINE lo == b + 1  hi == n + 1
    <3>1. lo \in 1..(Len(t) + 1) /\ n \in (lo - 1)..Len(t) /\ hi \in n..Len(t)
      BY <1>1, <2>2
    <3> HIDE DEF lo, hi
    <3>2. SubSeq(t, lo, n) \o SubSeq(t, n + 1, hi) = SubSeq(t, lo, hi)
      BY <3>1, ConcatAdjacentSubSeq
    <3> QED BY <3>2 DEF lo, hi
  <2> QED BY <1>1, <2>1, <2>3
<1>5. last \in Seq(Token) /\ Len(last) = n + 1 - b
  <2>1. \A i \in (b + 1)..(n + 1) : t[i] \in Token
    BY <1>1, <1>3
  <2> QED BY <1>1, <1>4, <2>1, SubSeqProperties
<1> HIDE DEF last
<1>6. u = IF Len(last) < BlockSize THEN [s EXCEPT !.token_in_last_block = last]
          ELSE [s EXCEPT !.token_in_last_block = SubSeq(last, BlockSize + 1, Len(last)),
                         !.prev_hash = hash, !.block_hashes = Append(s.block_hashes, hash)]
  BY DEF AppendTokens, last
<1> HIDE DEF u, hash
<1>7. CASE Len(last) < BlockSize
  <2>1. /\ State(u) /\ u.block_hashes = s.block_hashes /\ u.prev_hash = s.prev_hash
        /\ u.token_in_last_block = last
    BY <1>6, <1>7 DEF State
  <2>2. n + 1 \in 0..Len(t) /\ b <= n + 1 /\ n + 1 < b + BlockSize
    BY <1>1, <1>5, <1>7, Blocksize
  <2>3. \A i \in 1..k : i * BlockSize <= n + 1
    <3>1. \A m \in Nat : m <= n => m <= n + 1
      BY <1>1
    <3> QED BY <1>1, <3>1
  <2>4. Covers(u, t, n + 1)
    BY <1>1, <1>4, <2>1, <2>2, <2>3 DEF Covers, b
  <2> QED BY <2>1, <2>4 DEF u
<1>8. CASE ~ (Len(last) < BlockSize)
  <2>1. n + 1 = b + BlockSize /\ Len(last) = BlockSize
    BY <1>1, <1>5, <1>8, Blocksize
  <2>2. hash = SubSeq(t, 1, b + BlockSize)
    <3>1. SubSeq(last, 1, BlockSize) = last
      BY <1>5, <2>1, SubSeqFull
    <3>2. 1 \in 1..(Len(t) + 1) /\ b \in (1 - 1)..Len(t) /\ n + 1 \in b..Len(t)
      BY <1>1
    <3>3. SubSeq(t, 1, b) \o SubSeq(t, b + 1, n + 1) = SubSeq(t, 1, n + 1)
      BY <3>2, ConcatAdjacentSubSeq
    <3> QED BY <1>1, <1>4, <2>1, <3>1, <3>3 DEF hash, HashBlock
  <2>3. hash \in Seq(Token)
    <3>1. \A i \in 1..(b + BlockSize) : t[i] \in Token
      BY <1>1, <1>3, <2>1
    <3> QED BY <1>1, <2>2, <3>1, Blocksize, SubSeqProperties
  <2>4. SubSeq(last, BlockSize + 1, Len(last)) = <<>> /\ SubSeq(t, n + 2, n + 1) = <<>>
    BY <1>1, <2>1, Blocksize, SubSeqEmpty
  <2>5. /\ State(u) /\ u.block_hashes = Append(s.block_hashes, hash) /\ u.prev_hash = hash
        /\ u.token_in_last_block = <<>>
    BY <1>6, <1>8, <2>4 DEF State
  <2> DEFINE g == u.block_hashes
  <2>6. /\ g \in Seq(Seq(Token)) /\ Len(g) = k + 1 /\ g[k + 1] = hash
        /\ \A i \in 1..k : g[i] = s.block_hashes[i]
    BY <1>1, <2>3, <2>5, AppendProperties
  <2> HIDE DEF g
  <2>7. ASSUME NEW i \in 1..(k + 1)
        PROVE  i * BlockSize <= n + 1 /\ g[i] = SubSeq(t, 1, i * BlockSize)
    <3>1. CASE i = k + 1
      <4>1. i * BlockSize = n + 1
        BY <1>2, <2>1, <3>1
      <4>2. g[i] = SubSeq(t, 1, n + 1)
        BY <2>1, <2>2, <2>6, <3>1
      <4>3. n + 1 <= n + 1
        BY <1>1
      <4> QED BY <4>1, <4>2, <4>3
    <3>2. CASE i # k + 1
      <4>1. i \in 1..k
        <5>1. k \in Nat
          BY <1>1
        <5> QED BY <3>2, <5>1
      <4>2. i * BlockSize \in Nat /\ i * BlockSize <= n /\ g[i] = SubSeq(t, 1, i * BlockSize)
        BY <1>1, <2>6, <4>1
      <4>3. \A m \in Nat : m <= n => m <= n + 1
        BY <1>1
      <4> QED BY <4>2, <4>3
    <3> QED BY <3>1, <3>2
  <2>8. n + 1 \in 0..Len(t) /\ (k + 1) * BlockSize <= n + 1 /\ n + 1 < (k + 1) * BlockSize + BlockSize
    BY <1>1, <1>2, <2>1, Blocksize
  <2>9. u.prev_hash = SubSeq(t, 1, (k + 1) * BlockSize)
    BY <1>2, <2>2, <2>5
  <2>10. u.token_in_last_block = SubSeq(t, (k + 1) * BlockSize + 1, n + 1)
    <3>1. (k + 1) * BlockSize + 1 = n + 2
      BY <1>1, <1>2, <2>1
    <3> QED BY <2>4, <2>5, <3>1
  <2>11. Covers(u, t, n + 1)
    BY <2>6, <2>7, <2>8, <2>9, <2>10 DEF Covers, g
  <2> QED BY <2>5, <2>11 DEF u
<1> QED BY <1>7, <1>8

(***************************************************************************)
(* new hashes the whole blocks of the prompt and keeps the rest, provided  *)
(* that it takes no incomplete block for a whole one.                      *)
(***************************************************************************)
WholeBlocks ==
    BlockSize >= MinChunk /\ \A r \in Req : Len(Prompt[r]) % BlockSize < MinChunk

LEMMA NewCovers ==
    ASSUME NEW p \in Seq(Token), BlockSize >= MinChunk, Len(p) % BlockSize < MinChunk
    PROVE  State(New(p)) /\ Covers(New(p), p, Len(p))
<1> DEFINE n == Len(p) \div BlockSize
           hashes == [i \in 1..n |-> SubSeq(p, 1, ChunkEnd(p, i))]
           s == New(p)
<1>1. /\ Len(p) \in Nat /\ n \in Nat /\ n * BlockSize \in Nat
      /\ n * BlockSize <= Len(p) /\ Len(p) < n * BlockSize + BlockSize
  <2>1. Len(p) \in Nat
    BY LenProperties
  <2> QED BY <2>1, Blocksize
<1>2. (n + 1) * BlockSize = n * BlockSize + BlockSize
  BY <1>1, Times
<1>3. \A i \in 1..n : i * BlockSize \in Nat /\ i * BlockSize <= n * BlockSize
  BY <1>1, Blocksize
<1>4. HashedChunks(p) = n
  BY <1>1, IndexAssumption DEF HashedChunks
<1> HIDE DEF n
<1>5. \A i \in 1..n : ChunkEnd(p, i) = i * BlockSize
  BY <1>1, <1>3 DEF ChunkEnd
<1>6. ChunkEnd(p, n + 1) = Len(p)
  <2>1. ~ ((n + 1) * BlockSize < Len(p))
    BY <1>1, <1>2, Blocksize
  <2> QED BY <2>1 DEF ChunkEnd
<1>7. s = [block_hashes |-> hashes, block_indices |-> <<>>, sync_nblks |-> 0,
           pred_hit_nblks |-> NONE_SENTINEL,
           prev_hash |-> IF n = 0 THEN DEFAULT_BLOCK_HASH ELSE hashes[n],
           token_in_last_block |-> SubSeq(p, n * BlockSize + 1, ChunkEnd(p, n + 1))]
  BY <1>4 DEF New
<1>8. ASSUME NEW i \in 1..n
      PROVE  hashes[i] = SubSeq(p, 1, i * BlockSize) /\ hashes[i] \in Seq(Token)
  <2>1. \A j \in 1..(i * BlockSize) : p[j] \in Token
    <3>1. \A j \in 1..Len(p) : p[j] \in Token
      BY LenProperties
    <3> QED BY <1>1, <1>3, <3>1
  <2>2. SubSeq(p, 1, i * BlockSize) \in Seq(Token)
    BY <1>3, <2>1, SubSeqProperties
  <2> QED BY <1>5, <2>2
<1>9. hashes \in Seq(Seq(Token)) /\ Len(hashes) = n
  <2>1. \A i \in 1..n : SubSeq(p, 1, ChunkEnd(p, i)) \in Seq(Token)
    BY <1>8
  <2> QED BY <1>1, <2>1
<1> HIDE DEF hashes, s
<1>10. /\ State(s) /\ s.block_hashes = hashes
       /\ s.prev_hash = IF n = 0 THEN DEFAULT_BLOCK_HASH ELSE hashes[n]
       /\ s.token_in_last_block = SubSeq(p, n * BlockSize + 1, Len(p))
  BY <1>6, <1>7 DEF State
<1>11. s.prev_hash = SubSeq(p, 1, n * BlockSize)
  <2>1. CASE n = 0
    <3>1. SubSeq(p, 1, n * BlockSize) = <<>>
      BY <1>1, <2>1, Blocksize, SubSeqEmpty
    <3> QED BY <1>10, <2>1, <3>1 DEF DEFAULT_BLOCK_HASH
  <2>2. CASE n # 0
    <3>1. n \in 1..n
      BY <1>1, <2>2
    <3> QED BY <1>8, <1>10, <2>2, <3>1
  <2> QED BY <2>1, <2>2
<1>12. \A i \in 1..n : i * BlockSize <= Len(p) /\ hashes[i] = SubSeq(p, 1, i * BlockSize)
  <2> TAKE i \in 1..n
  <2>1. i * BlockSize \in Nat /\ i * BlockSize <= n * BlockSize
    BY <1>3
  <2>2. n * BlockSize \in Nat /\ n * BlockSize <= Len(p) /\ Len(p) \in Nat
    BY <1>1
  <2>3. \A a, b, c \in Nat : a <= b /\ b <= c => a <= c
    OBVIOUS
  <2>4. i * BlockSize <= Len(p)
    BY <2>1, <2>2, <2>3, Zenon
  <2>5. hashes[i] = SubSeq(p, 1, i * BlockSize)
    BY <1>8
  <2> QED BY <2>4, <2>5
<1>13. Covers(s, p, Len(p))
  <2>1. s.block_hashes \in Seq(Seq(Token)) /\ Len(s.block_hashes) = n
    BY <1>9, <1>10
  <2>2. Len(p) \in 0..Len(p)
    BY <1>1
  <2>3. \A i \in 1..n : i * BlockSize <= Len(p) /\ s.block_hashes[i] = SubSeq(p, 1, i * BlockSize)
    BY <1>10, <1>12, Zenon
  <2> QED BY <1>1, <1>10, <1>11, <2>1, <2>2, <2>3, Zenon DEF Covers
<1> QED BY <1>10, <1>13 DEF s

-------------------------------------------------------------------------------
(***************************************************************************)
(* The tokens of a request the router knows of: not those of the step it   *)
(* has not processed, and never the last one of a request that has ended.  *)
(***************************************************************************)
Pending(r) == msg.fresh /\ r \in msg.tokens

Known(r) == Len(toks[r]) - (IF Pending(r) \/ phase[r] = "done" THEN 1 ELSE 0)

Phases == {"new", "waiting", "running", "done"}

AlignedTypes ==
    /\ toks \in [Req -> Seq(Token)]
    /\ phase \in [Req -> Phases]
    /\ DOMAIN bhs = Req
    /\ DOMAIN held = Req
    /\ msg.fresh \in BOOLEAN /\ {"fresh", "todo"} \subseteq DOMAIN msg

AlignedAt(r) ==
    /\ State(bhs[r])
    /\ Covers(bhs[r], toks[r], Known(r))
    /\ Pending(r) => /\ phase[r] # "done" /\ r \in msg.todo
                     /\ toks[r][Len(toks[r])] = GenToken[r]
    /\ phase[r] = "done" => held[r] = <<>>

AlignedInv == AlignedTypes /\ \A r \in Req : AlignedAt(r)

LEMMA KnownIs ==
    ASSUME NEW r, Len(toks[r]) \in Nat
    PROVE  /\ Pending(r) \/ phase[r] = "done" => Known(r) = Len(toks[r]) - 1
           /\ ~ Pending(r) /\ phase[r] # "done" => Known(r) = Len(toks[r])
<1>1. CASE Pending(r) \/ phase[r] = "done"
  BY <1>1 DEF Known
<1>2. CASE ~ (Pending(r) \/ phase[r] = "done")
  <2>1. Known(r) = Len(toks[r]) - 0
    BY <1>2 DEF Known
  <2> QED BY <1>2, <2>1
<1> QED BY <1>1, <1>2

LEMMA AlignedInit == ASSUME WholeBlocks PROVE Init => AlignedInv
<1> SUFFICES ASSUME Init PROVE AlignedInv
  OBVIOUS
<1>1. /\ toks = Prompt /\ bhs = [r \in Req |-> New(Prompt[r])]
      /\ phase = [r \in Req |-> "new"] /\ held = [r \in Req |-> <<>>]
      /\ msg = [todo |-> {}, fresh |-> FALSE]
  BY DEF Init, Idle
<1>2. AlignedTypes
  BY <1>1, IndexAssumption DEF AlignedTypes, Phases
<1>3. ASSUME NEW r \in Req PROVE AlignedAt(r)
  <2>1. Prompt[r] \in Seq(Token) /\ Len(Prompt[r]) \in Nat
    BY IndexAssumption, LenProperties
  <2>2. State(New(Prompt[r])) /\ Covers(New(Prompt[r]), Prompt[r], Len(Prompt[r]))
    BY <2>1, NewCovers DEF WholeBlocks
  <2>3. ~ Pending(r) /\ phase[r] # "done" /\ Known(r) = Len(Prompt[r])
    BY <1>1, <2>1 DEF Pending, Known
  <2> QED BY <1>1, <2>2, <2>3 DEF AlignedAt
<1> QED BY <1>2, <1>3 DEF AlignedInv

(* Steps that change no tokens and no hashes. *)
LEMMA AlignedKept ==
    ASSUME AlignedInv, AlignedTypes', toks' = toks, NEW r \in Req,
           State(bhs[r]'), SameHashes(bhs[r], bhs[r]'), (Pending(r)' <=> Pending(r)),
           phase[r]' = "done" <=> phase[r] = "done",
           phase[r]' = "done" => held[r]' = held[r],
           Pending(r) => r \in msg'.todo
    PROVE  AlignedAt(r)'
<1>1. /\ Covers(bhs[r], toks[r], Known(r))
      /\ Pending(r) => /\ phase[r] # "done" /\ toks[r][Len(toks[r])] = GenToken[r]
      /\ phase[r] = "done" => held[r] = <<>>
  BY DEF AlignedInv, AlignedAt
<1>2. Known(r)' = Known(r)
  <2>1. CASE Pending(r)
    BY <2>1 DEF Known
  <2>2. CASE ~ Pending(r)
    BY <2>2 DEF Known
  <2> QED BY <2>1, <2>2
<1>3. Covers(bhs'[r], toks[r], Known(r))
  BY <1>1, CoversSame
<1>4. Covers(bhs[r], toks[r], Known(r))'
  BY <1>2, <1>3 DEF Covers
<1> QED BY <1>1, <1>4 DEF AlignedAt

LEMMA ScheduleAligned ==
    ASSUME AlignedInv, NEW q \in Req, Schedule(q)
    PROVE  AlignedInv'
<1>1. /\ phase[q] = "new" /\ phase' = [phase EXCEPT ![q] = "waiting"]
      /\ bhs' = [bhs EXCEPT ![q] = SetPredBlockHits(bhs[q], TreeGet(tree, bhs[q].block_hashes))]
      /\ toks' = toks /\ held' = held /\ msg' = msg
  BY DEF Schedule
<1>2. AlignedTypes'
  BY <1>1 DEF AlignedInv, AlignedTypes, Phases
<1>3. ASSUME NEW r \in Req PROVE AlignedAt(r)'
  <2>1. State(bhs[r]) /\ (Pending(r) => r \in msg.todo)
    BY DEF AlignedInv, AlignedAt
  <2>2. State(bhs'[r]) /\ SameHashes(bhs[r], bhs'[r])
    <3>1. CASE r = q
      <4>1. bhs'[r] = SetPredBlockHits(bhs[r], TreeGet(tree, bhs[r].block_hashes))
        BY <1>1, <3>1 DEF AlignedInv, AlignedTypes
      <4> QED BY <2>1, <4>1, SetPredHashes
    <3>2. CASE r # q
      <4>1. bhs'[r] = bhs[r]
        BY <1>1, <3>2 DEF AlignedInv, AlignedTypes
      <4> QED BY <2>1, <4>1 DEF SameHashes
    <3> QED BY <3>1, <3>2
  <2>3. phase'[r] = "done" <=> phase[r] = "done"
    BY <1>1 DEF AlignedInv, AlignedTypes
  <2>4. State(bhs[r])'
    BY <2>2 DEF State
  <2>5. (Pending(r)' <=> Pending(r))
    BY <1>1 DEF Pending
  <2> QED BY <1>1, <1>2, <2>1, <2>2, <2>3, <2>4, <2>5, AlignedKept
<1> QED BY <1>2, <1>3 DEF AlignedInv

LEMMA PreemptAligned ==
    ASSUME AlignedInv, NEW q \in Req, Preempt(q)
    PROVE  AlignedInv'
<1>1. /\ held[q] # <<>> /\ phase' = [phase EXCEPT ![q] = "waiting"]
      /\ held' = [held EXCEPT ![q] = <<>>]
      /\ toks' = toks /\ bhs' = bhs /\ msg' = msg
  BY DEF Preempt, routerVars
<1>2. AlignedTypes'
  BY <1>1 DEF AlignedInv, AlignedTypes, Phases
<1>3. ASSUME NEW r \in Req PROVE AlignedAt(r)'
  <2>1. /\ State(bhs[r]) /\ (Pending(r) => r \in msg.todo)
        /\ phase[r] = "done" => held[r] = <<>>
    BY DEF AlignedInv, AlignedAt
  <2>2. State(bhs'[r]) /\ SameHashes(bhs[r], bhs'[r])
    BY <1>1, <2>1 DEF SameHashes
  <2>3. /\ phase'[r] = "done" <=> phase[r] = "done"
        /\ phase'[r] = "done" => held'[r] = held[r]
    BY <1>1, <2>1 DEF AlignedInv, AlignedTypes
  <2>4. State(bhs[r])'
    BY <2>2 DEF State
  <2>5. (Pending(r)' <=> Pending(r))
    BY <1>1 DEF Pending
  <2> QED BY <1>1, <1>2, <2>1, <2>2, <2>3, <2>4, <2>5, AlignedKept
<1> QED BY <1>2, <1>3 DEF AlignedInv

LEMMA InsertAligned ==
    ASSUME AlignedInv, NEW q \in Req, InsertNew(q)
    PROVE  AlignedInv'
<1>1. /\ ~ msg.fresh
      /\ msg' = IF msg.todo = {q} THEN Idle ELSE [msg EXCEPT !.todo = msg.todo \ {q}]
      /\ toks' = toks /\ phase' = phase /\ held' = held
  BY DEF InsertNew, engineVars
<1>2. bhs' = bhs \/ bhs' = [bhs EXCEPT ![q] = Synced(bhs[q], msg.new[q])]
  BY DEF InsertNew, Panics
<1>3. ~ msg'.fresh /\ msg'.fresh \in BOOLEAN /\ {"fresh", "todo"} \subseteq DOMAIN msg'
  BY <1>1 DEF AlignedInv, AlignedTypes, Idle
<1>4. AlignedTypes'
  BY <1>1, <1>2, <1>3 DEF AlignedInv, AlignedTypes
<1>5. ASSUME NEW r \in Req PROVE AlignedAt(r)'
  <2>1. State(bhs[r])
    BY DEF AlignedInv, AlignedAt
  <2>2. State(bhs'[r]) /\ SameHashes(bhs[r], bhs'[r])
    <3>1. CASE bhs'[r] = bhs[r]
      BY <2>1, <3>1 DEF SameHashes
    <3>2. CASE bhs'[r] # bhs[r]
      <4>1. bhs'[r] = Synced(bhs[r], msg.new[r])
        BY <1>2, <3>2 DEF AlignedInv, AlignedTypes
      <4> QED BY <2>1, <4>1, SyncedHashes
    <3> QED BY <3>1, <3>2
  <2>3. State(bhs[r])'
    BY <2>2 DEF State
  <2>4. ~ Pending(r) /\ ~ Pending(r)'
    BY <1>1, <1>3 DEF Pending
  <2> QED BY <1>1, <1>4, <2>2, <2>3, <2>4, AlignedKept
<1> QED BY <1>4, <1>5 DEF AlignedInv

(* What the outputs of a step do to what is known of a request. *)
LEMMA OutputsAligned ==
    ASSUME AlignedInv, NEW r \in Req, msg.fresh
    PROVE  /\ State(Outputs(bhs[r], r))
           /\ Covers(Outputs(bhs[r], r), toks[r],
                     IF phase[r] = "done" THEN Len(toks[r]) - 1 ELSE Len(toks[r]))
<1> DEFINE s == bhs[r]
           t == toks[r]
           hit == IF r \in msg.prefilled THEN SetRealTokenHits(s, hits[r] * BlockSize) ELSE s
<1>1. /\ State(s) /\ Covers(s, t, Known(r)) /\ t \in Seq(Token)
      /\ Pending(r) => phase[r] # "done" /\ t[Len(t)] = GenToken[r]
  BY DEF AlignedInv, AlignedAt, AlignedTypes
<1>2. Len(t) \in Nat /\ Known(r) \in 0..Len(t)
  BY <1>1, LenProperties DEF Covers
<1>3. Outputs(s, r) = IF r \in msg.tokens THEN AppendTokens(hit, <<GenToken[r]>>) ELSE hit
  BY DEF Outputs
<1> HIDE DEF s, t
<1>4. State(hit) /\ SameHashes(s, hit)
  BY <1>1, SetRealHashes DEF SameHashes
<1> HIDE DEF hit
<1>5. Covers(hit, t, Known(r))
  BY <1>1, <1>4, CoversSame
<1>6. CASE r \in msg.tokens
  <2>1. Known(r) = Len(t) - 1 /\ phase[r] # "done" /\ t[Len(t)] = GenToken[r]
    BY <1>1, <1>2, <1>6 DEF Known, Pending, t
  <2> DEFINE n == Len(t) - 1
  <2>2. n + 1 = Len(t) /\ n < Len(t)
    BY <1>2
  <2>3. Covers(hit, t, n)
    BY <1>5, <2>1
  <2> HIDE DEF n
  <2>4. State(AppendTokens(hit, <<t[n + 1]>>)) /\ Covers(AppendTokens(hit, <<t[n + 1]>>), t, n + 1)
    BY <1>1, <1>4, <2>2, <2>3, CoversNext
  <2> QED BY <1>3, <1>6, <2>1, <2>2, <2>4 DEF s, t
<1>7. CASE r \notin msg.tokens
  <2>1. Known(r) = IF phase[r] = "done" THEN Len(t) - 1 ELSE Len(t)
    <3>1. ~ Pending(r)
      BY <1>7 DEF Pending
    <3> QED BY <1>2, <3>1, KnownIs DEF t
  <2> QED BY <1>3, <1>4, <1>5, <1>7, <2>1 DEF s, t
<1> QED BY <1>6, <1>7

LEMMA ProcessAligned ==
    ASSUME AlignedInv, ProcessStep
    PROVE  AlignedInv'
<1>1. /\ msg.fresh /\ toks' = toks /\ phase' = phase /\ held' = held
      /\ bhs' = [r \in Req |-> IF r \in msg.todo THEN SetBids(Outputs(bhs[r], r), msg.used[r])
                               ELSE bhs[r]]
  BY DEF ProcessStep, engineVars
<1>2. ~ msg'.fresh /\ msg'.fresh \in BOOLEAN /\ {"fresh", "todo"} \subseteq DOMAIN msg'
  <2> DEFINE todo == {r \in msg.todo : msg.new[r] # <<>>}
  <2>1. msg' = IF todo = {} THEN Idle ELSE [msg EXCEPT !.todo = todo, !.fresh = FALSE]
    BY DEF ProcessStep
  <2> HIDE DEF todo
  <2> QED BY <2>1 DEF AlignedInv, AlignedTypes, Idle
<1>3. AlignedTypes'
  BY <1>1, <1>2 DEF AlignedInv, AlignedTypes
<1>4. ASSUME NEW r \in Req PROVE AlignedAt(r)'
  <2> DEFINE n == IF phase[r] = "done" THEN Len(toks[r]) - 1 ELSE Len(toks[r])
  <2>1. /\ State(bhs[r]) /\ Covers(bhs[r], toks[r], Known(r)) /\ Len(toks[r]) \in Nat
        /\ Pending(r) => r \in msg.todo
        /\ phase[r] = "done" => held[r] = <<>>
    BY LenProperties DEF AlignedInv, AlignedAt, AlignedTypes
  <2>2. ~ Pending(r)' /\ Known(r)' = n
    <3>1. ~ Pending(r)'
      BY <1>2 DEF Pending
    <3>2. CASE phase[r] = "done"
      BY <1>1, <3>1, <3>2 DEF Known
    <3>3. CASE phase[r] # "done"
      <4>1. Known(r)' = Len(toks[r]) - 0
        BY <1>1, <3>1, <3>3 DEF Known
      <4> QED BY <2>1, <3>1, <3>3, <4>1
    <3> QED BY <3>2, <3>3
  <2>3. State(bhs'[r]) /\ Covers(bhs'[r], toks[r], n)
    <3>1. CASE r \in msg.todo
      <4> DEFINE o == Outputs(bhs[r], r)
      <4>1. bhs'[r] = SetBids(o, msg.used[r])
        BY <1>1, <3>1
      <4>2. State(o) /\ Covers(o, toks[r], n)
        BY <1>1, OutputsAligned
      <4> HIDE DEF o, n
      <4>3. State(bhs'[r]) /\ SameHashes(o, bhs'[r])
        BY <4>1, <4>2, SetBidsHashes
      <4> QED BY <4>2, <4>3, CoversSame
    <3>2. CASE r \notin msg.todo
      <4>1. bhs'[r] = bhs[r] /\ ~ Pending(r)
        BY <1>1, <2>1, <3>2
      <4>2. Known(r) = n
        BY <2>1, <4>1, KnownIs
      <4> QED BY <2>1, <4>1, <4>2
    <3> QED BY <3>1, <3>2
  <2> HIDE DEF n
  <2>4. Covers(bhs[r], toks[r], Known(r))'
    BY <1>1, <2>2, <2>3 DEF Covers
  <2>5. State(bhs[r])'
    BY <2>3 DEF State
  <2> QED BY <1>1, <2>1, <2>2, <2>4, <2>5 DEF AlignedAt
<1> QED BY <1>3, <1>4 DEF AlignedInv

LEMMA StepAligned ==
    ASSUME AlignedInv, Step
    PROVE  AlignedInv'
<1>1. PICK S \in SUBSET {r \in Req : phase[r] \in {"waiting", "running"}} :
        \E shared, target : EngineStep(S, shared, target)
  BY DEF Step
<1>2. PICK shared, target : EngineStep(S, shared, target)
  BY <1>1
<1> DEFINE grows == {r \in S : target[r] = Len(toks[r])}
<1>3. \E over \in SUBSET grows :
        \E now, evicted, committed : Emit(S, grows, over, now, evicted, committed)
  BY <1>2, Zenon DEF EngineStep
<1> HIDE DEF grows
<1>4. PICK over \in SUBSET grows :
        \E now, evicted, committed : Emit(S, grows, over, now, evicted, committed)
  BY <1>3
<1>5. PICK now, evicted, committed : Emit(S, grows, over, now, evicted, committed)
  BY <1>4
<1>6. /\ toks' = [r \in Req |-> IF r \in grows THEN Append(toks[r], GenToken[r]) ELSE toks[r]]
      /\ phase' = [r \in Req |-> IF r \in over THEN "done"
                                 ELSE IF r \in grows THEN "running" ELSE phase[r]]
      /\ held' = [r \in Req |-> IF r \in over THEN <<>>
                                ELSE IF r \in S THEN now[r] ELSE held[r]]
      /\ msg'.todo = S /\ msg'.fresh = TRUE /\ msg'.tokens = grows \ over
      /\ {"fresh", "todo"} \subseteq DOMAIN msg'
  BY <1>5 DEF Emit
<1>7. bhs' = bhs
  BY <1>2 DEF EngineStep, routerVars
<1>8. ~ msg.fresh
  BY DEF Step, Idle
<1>9. over \subseteq grows /\ grows \subseteq S /\ S \subseteq Req /\ \A r \in S : phase[r] # "done"
  BY DEF grows
<1>10. \A r \in Req : toks[r] \in Seq(Token) /\ GenToken[r] \in Token /\ Len(toks[r]) \in Nat
  <2>1. \A r \in Req : toks[r] \in Seq(Token)
    BY DEF AlignedInv, AlignedTypes
  <2>2. ASSUME NEW r \in Req PROVE GenToken[r] \in Token
    <3>1. GenToken[r] \in {GenToken[q] : q \in Req}
      OBVIOUS
    <3> QED BY <3>1, Zenon DEF Token
  <2> QED BY <2>1, <2>2, LenProperties
<1>11. AlignedTypes'
  <2>1. toks' \in [Req -> Seq(Token)]
    BY <1>6, <1>10, AppendProperties
  <2>2. phase' \in [Req -> Phases]
    BY <1>6 DEF AlignedInv, AlignedTypes, Phases
  <2> QED BY <1>6, <1>7, <2>1, <2>2 DEF AlignedInv, AlignedTypes
<1>12. ASSUME NEW r \in Req PROVE AlignedAt(r)'
  <2>1. /\ State(bhs[r]) /\ Covers(bhs[r], toks[r], Known(r))
        /\ phase[r] = "done" => held[r] = <<>>
    BY DEF AlignedInv, AlignedAt
  <2>2. ~ Pending(r)
    BY <1>8 DEF Pending
  <2>3. Pending(r)' <=> r \in grows \ over
    BY <1>6 DEF Pending
  <2>4. CASE r \in grows
    <3>1. toks'[r] = Append(toks[r], GenToken[r]) /\ phase[r] # "done"
      BY <1>6, <1>9, <2>4
    <3>2. Len(toks'[r]) = Len(toks[r]) + 1 /\ toks'[r][Len(toks'[r])] = GenToken[r]
      BY <1>10, <3>1, AppendProperties
    <3>3. Known(r) = Len(toks[r])
      BY <1>10, <2>2, <3>1, KnownIs
    <3>4. /\ r \in over => phase'[r] = "done" /\ held'[r] = <<>>
          /\ r \notin over => phase'[r] = "running"
      BY <1>6, <2>4
    <3>5. Known(r)' = Len(toks[r])
      <4>1. CASE r \in over
        <5>1. Known(r)' = Len(toks'[r]) - 1
          BY <3>4, <4>1 DEF Known
        <5> QED BY <1>10, <3>2, <5>1
      <4>2. CASE r \notin over
        <5>1. Known(r)' = Len(toks'[r]) - 1
          BY <2>3, <2>4, <4>2 DEF Known
        <5> QED BY <1>10, <3>2, <5>1
      <4> QED BY <4>1, <4>2
    <3>6. Covers(bhs[r], Append(toks[r], GenToken[r]), Len(toks[r]))
      BY <1>10, <2>1, <3>3, CoversGrows
    <3>7. Covers(bhs[r], toks[r], Known(r))'
      BY <1>7, <3>1, <3>5, <3>6 DEF Covers
    <3>8. State(bhs[r])'
      BY <1>7, <2>1 DEF State
    <3>9. Pending(r)' => phase'[r] # "done" /\ r \in msg'.todo
      BY <1>6, <1>9, <2>3, <2>4, <3>4
    <3>10. phase'[r] = "done" => held'[r] = <<>>
      BY <3>4
    <3> QED BY <3>2, <3>7, <3>8, <3>9, <3>10 DEF AlignedAt
  <2>5. CASE r \notin grows
    <3>1. toks'[r] = toks[r] /\ phase'[r] = phase[r] /\ ~ Pending(r)'
      BY <1>6, <1>9, <2>3, <2>5
    <3>2. phase'[r] = "done" => held'[r] = <<>>
      BY <1>6, <1>9, <2>1, <3>1
    <3>3. Known(r)' = Known(r)
      BY <2>2, <3>1 DEF Known
    <3>4. Covers(bhs[r], toks[r], Known(r))'
      BY <1>7, <2>1, <3>1, <3>3 DEF Covers
    <3>5. State(bhs[r])'
      BY <1>7, <2>1 DEF State
    <3> QED BY <3>1, <3>2, <3>4, <3>5 DEF AlignedAt
  <2> QED BY <2>4, <2>5
<1> QED BY <1>11, <1>12 DEF AlignedInv

LEMMA AlignedStutter == AlignedInv /\ UNCHANGED vars => AlignedInv'
<1> SUFFICES ASSUME AlignedInv, UNCHANGED vars PROVE AlignedInv'
  OBVIOUS
<1>1. toks' = toks /\ phase' = phase /\ held' = held /\ bhs' = bhs /\ msg' = msg
  BY DEF vars, routerVars, engineVars
<1>2. AlignedTypes'
  BY <1>1 DEF AlignedInv, AlignedTypes
<1>3. ASSUME NEW r \in Req PROVE AlignedAt(r)'
  <2>1. AlignedAt(r)
    BY DEF AlignedInv
  <2>2. State(bhs'[r]) /\ SameHashes(bhs[r], bhs'[r])
    BY <1>1, <2>1 DEF AlignedAt, SameHashes
  <2>3. State(bhs[r])'
    BY <2>2 DEF State
  <2>4. (Pending(r)' <=> Pending(r)) /\ (Pending(r) => r \in msg'.todo)
    BY <1>1, <2>1 DEF Pending, AlignedAt
  <2> QED BY <1>1, <1>2, <2>2, <2>3, <2>4, AlignedKept
<1> QED BY <1>2, <1>3 DEF AlignedInv

LEMMA AlignedNext == AlignedInv /\ [Next]_vars => AlignedInv'
BY ScheduleAligned, PreemptAligned, InsertAligned, StepAligned, ProcessAligned, AlignedStutter DEF Next

LEMMA AlignedHashes == AlignedInv => HashesAligned
<1> SUFFICES ASSUME AlignedInv, NEW r \in Req, NEW i \in DOMAIN bhs[r].block_hashes
             PROVE  i * BlockSize <= Len(toks[r]) /\ bhs[r].block_hashes[i] = HashAt(r, i)
  BY DEF HashesAligned
<1>1. Covers(bhs[r], toks[r], Known(r)) /\ toks[r] \in Seq(Token)
  BY DEF AlignedInv, AlignedAt, AlignedTypes
<1> DEFINE n == Known(r)
           k == Len(bhs[r].block_hashes)
<1>2. /\ bhs[r].block_hashes \in Seq(Seq(Token)) /\ Len(toks[r]) \in Nat /\ n \in 0..Len(toks[r])
      /\ \A j \in 1..k : /\ j * BlockSize \in Nat /\ j * BlockSize <= n
                         /\ bhs[r].block_hashes[j] = SubSeq(toks[r], 1, j * BlockSize)
  BY <1>1, CoversIs
<1>3. i \in 1..k
  BY <1>2, LenProperties
<1> HIDE DEF n, k
<1>4. i * BlockSize \in Nat /\ i * BlockSize <= n /\ bhs[r].block_hashes[i] = SubSeq(toks[r], 1, i * BlockSize)
  BY <1>2, <1>3
<1>5. \A m \in Nat : m <= n => m <= Len(toks[r])
  BY <1>2
<1> QED BY <1>4, <1>5 DEF HashAt

(***************************************************************************)
(* The hash the router computes for a block of a request is that of the    *)
(* tokens the engine has in it, through preemptions, outputs it has not    *)
(* processed and the last token it never sees (BlockHashState::new,        *)
(* append_tokens; completion_event_loop), whenever new takes no incomplete *)
(* block of a prompt for a whole one: with BlockSize = 16, always.         *)
(***************************************************************************)
THEOREM HashesStayAligned == ASSUME WholeBlocks PROVE Spec => []HashesAligned
<1>1. Init => AlignedInv
  BY AlignedInit
<1> QED BY <1>1, AlignedNext, AlignedHashes, PTL DEF Spec

===============================================================================

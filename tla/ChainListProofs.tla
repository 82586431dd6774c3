---------------------------- MODULE ChainListProofs ----------------------------
(***************************************************************************)
(* For any number of chains, names and buckets: the list of chains and its *)
(* name index stay consistent whatever is added, deleted and renamed, and  *)
(* a lookup finds the chain that it promises to find.                      *)
(***************************************************************************)

EXTENDS ChainList, ListLemmas

-------------------------------------------------------------------------------
(* The inductive invariant says of the list and of each hash chain which   *)
(* sequence hangs together from its first pointer.                         *)

Listing == \E s : IsList(link, List, s, Listed)

Indexing ==
    \A b \in Buckets : Chained(hash.next, hash.first[b], Only(recent, Keyed(b)), NULL)

IInv == /\ TypeOK /\ IndexLinks
        /\ Enumerates(recent, Listed)
        /\ List \in live => Listing /\ Indexing

\* What IInv says of the loops over the list and the hash chains.
LEMMA LoopsExact == IInv => IndexIsList
  <1> SUFFICES ASSUME IInv, List \in live PROVE IndexIsList
    BY DEF IndexIsList
  <1> USE ChainListAssumption
  <1>1. TypeOK /\ Enumerates(recent, Listed) /\ Listing /\ Indexing
    BY DEF IInv
  <1>2. /\ Len(RingFrom(link, List, Cardinality(Chains))) = Cardinality(Listed)
        /\ ToSet(RingFrom(link, List, Cardinality(Chains))) = Listed
    <2>1. PICK s : IsList(link, List, s, Listed)
      BY <1>1 DEF Listing
    <2>2. Listed \in SUBSET DOMAIN link.next /\ List \notin Listed /\ Listed \subseteq Chains
      BY <1>1 DEF TypeOK, Nodes, Listed
    <2> QED BY <2>1, <2>2, FiniteAssumption, ListFollowed
  <1>3. ASSUME NEW b \in Buckets PROVE Bucket(b) = Only(recent, Keyed(b))
    <2>1. PICK q : q = Only(recent, Keyed(b))
      OBVIOUS
    <2>2. Enumerates(q, Listed \cap Keyed(b))
      BY <1>1, <2>1, EnumeratesOnly
    <2>3. Listed \cap Keyed(b) \subseteq Chains
      BY DEF Listed
    <2>4. Len(q) = Cardinality(Listed \cap Keyed(b))
      BY <2>2, EnumeratesLength
    <2>5. Len(q) <= Cardinality(Chains) /\ Cardinality(Chains) \in Nat
      BY <2>3, <2>4, FiniteAssumption, FS_Subset, FS_CardinalityType
    <2>6. q \in Seq(Chains)
      BY <1>1, <2>1, OnlyType DEF TypeOK
    <2>7. Chained(hash.next, hash.first[b], q, NULL)
      BY <1>1, <2>1 DEF Indexing
    <2>8. DOMAIN hash.next = Chains /\ NULL \notin Chains
      BY <1>1 DEF TypeOK, Nodes, Poisons
    <2>9. Follow(hash.next, hash.first[b], Chains, Cardinality(Chains)) = q
      BY <2>5, <2>6, <2>7, <2>8, FollowIs
    <2> QED BY <2>1, <2>8, <2>9 DEF Bucket, HashChain
  <1> QED BY <1>2, <1>3 DEF IndexIsList

\* IInv says all that IndexIntegrity says.
LEMMA Integrity == IInv => IndexIntegrity
  BY LoopsExact DEF IInv, IndexIntegrity

-------------------------------------------------------------------------------
(* Steps that leave the listed chains and their pointers alone.            *)

\* Such a step keeps the invariant.
LEMMA Untouched ==
    ASSUME IInv, TypeOK', UNCHANGED << listedAs, recent >>,
           Listed \subseteq live', List \in live' => List \in live,
           List \in live => List \in live',
           \A n \in Listed \cup {List} :
              link'.next[n] = link.next[n] /\ link'.prev[n] = link.prev[n],
           \A c \in Listed :
              hash'.next[c] = hash.next[c] /\ hash'.pprev[c] = hash.pprev[c],
           \A b \in Buckets : hash'.first[b] = hash.first[b]
    PROVE  IInv'
  <1>1. Listed' = Listed /\ (\A c \in Listed : Key(c)' = Key(c)) /\ (\A b : Keyed(b)' = Keyed(b))
    BY DEF Listed, Key, Keyed
  <1>2. IndexLinks /\ Enumerates(recent, Listed) /\ (List \in live => Listing /\ Indexing)
    BY DEF IInv
  <1>3. \A c \in Listed : Key(c) \in Buckets
    BY ChainListAssumption DEF IInv, TypeOK, Listed, Key
  <1>4. IndexLinks'
    <2>1. Listed' \subseteq live' /\ (Listed' # {} => List \in live')
      BY <1>1, <1>2 DEF IndexLinks
    <2>2. List \in live' => Ring(link', Listed' \cup {List})
      BY <1>1, <1>2 DEF IndexLinks, Ring
    <2>3. List \in live' => \A b \in Buckets : hash'.first[b] # NULL =>
            /\ hash'.first[b] \in Listed
            /\ Key(hash'.first[b]) = b
            /\ hash'.pprev[hash'.first[b]] = b
      BY <1>2 DEF IndexLinks
    <2>4. \A c \in Listed :
             /\ \/ hash'.pprev[c] = Key(c) /\ hash'.first[Key(c)] = c
                \/ hash'.pprev[c] \in Listed /\ hash'.next[hash'.pprev[c]] = c
             /\ hash'.next[c] # NULL =>
                   /\ hash'.next[c] \in Listed
                   /\ Key(hash'.next[c]) = Key(c)
                   /\ hash'.pprev[hash'.next[c]] = c
      BY <1>2, <1>3 DEF IndexLinks
    <2>5. \A c : Key(c) = Hash[listedAs[c]] /\ listedAs' = listedAs
      BY DEF Key
    <2> QED BY <1>1, <2>1, <2>2, <2>3, <2>4, <2>5 DEF IndexLinks, Key
  <1>5. ASSUME List \in live' PROVE Listing' /\ Indexing'
    <2>1. List \in live /\ Listing /\ Indexing
      BY <1>2, <1>5
    <2>2. PICK s : IsList(link, List, s, Listed)
      BY <2>1 DEF Listing
    <2>3. IsList(link', List, s, Listed)
      BY <2>2, ListUnchanged
    <2>4. ASSUME NEW b \in Buckets
          PROVE  Chained(hash'.next, hash'.first[b], Only(recent, Keyed(b)), NULL)
      <3>1. PICK q : q = Only(recent, Keyed(b))
        OBVIOUS
      <3>2. q \in Seq(Listed)
        BY <1>2, <3>1, OnlyType DEF Enumerates
      <3>3. Chained(hash.next, hash.first[b], q, NULL)
        BY <2>1, <3>1 DEF Indexing
      <3>4. Chained(hash'.next, hash'.first[b], q, NULL)
        BY <3>2, <3>3 DEF Chained
      <3> QED BY <3>1, <3>4
    <2> QED BY <1>1, <2>3, <2>4 DEF Listing, Indexing
  <1> QED BY <1>1, <1>2, <1>4, <1>5 DEF IInv

-------------------------------------------------------------------------------
(* Adding a chain.                                                         *)

\* The name index after an addition, pointer by pointer.
HashAdded(h, m, c, b) ==
    /\ \A x \in Buckets : m.first[x] = IF x = b THEN c ELSE h.first[x]
    /\ \A x \in Chains : /\ m.next[x] = IF x = c THEN h.first[b] ELSE h.next[x]
                         /\ m.pprev[x] = IF x = c THEN b
                                         ELSE IF x = h.first[b] THEN c
                                         ELSE h.pprev[x]

\* What Index does to the chain and the index.
LEMMA IndexAdds ==
    ASSUME IInv, NEW c \in Chains, Index(c)
    PROVE  /\ c \notin Listed /\ List \in live /\ c \in live
           /\ Listed' = Listed \cup {c}
           /\ Hash[name[c]] \in Buckets
           /\ \A x \in Chains : Hash[listedAs'[x]] = IF x = c THEN Hash[name[c]] ELSE Key(x)
           /\ HashAdded(hash, hash', c, Hash[name[c]])
           /\ live \subseteq Nodes /\ name' \in [Chains -> Names \cup {NULL}]
           /\ live' = live
           /\ hash' \in [first : [Buckets -> Chains \cup Poisons],
                         next  : [Chains -> Chains \cup Poisons],
                         pprev : [Chains -> Chains \cup Buckets \cup Poisons]]
           /\ listedAs' \in [Chains -> Names \cup {NULL}]
           /\ recent' \in Seq(Chains)
           /\ Enumerates(recent', Listed \cup {c})
           /\ recent' = << c >> \o recent
  <1> USE ChainListAssumption
  <1>1. TypeOK /\ Enumerates(recent, Listed)
    BY DEF IInv
  <1>2. /\ c \notin Listed /\ List \in live /\ c \in live
        /\ name[c] \in Names /\ Hash[name[c]] \in Buckets
        /\ listedAs' = [listedAs EXCEPT ![c] = name[c]]
        /\ recent' = << c >> \o recent
        /\ hash' = hlist_add_head(hash, c, Hash[name[c]])
        /\ live' = live /\ name' = name
    BY <1>1 DEF Index, TypeOK
  <1>3. Listed' = Listed \cup {c}
    BY <1>1, <1>2 DEF Listed, TypeOK, Poisons
  <1>4. \A x \in Chains : Hash[listedAs'[x]] = IF x = c THEN Hash[name[c]] ELSE Key(x)
    BY <1>1, <1>2 DEF Key, TypeOK
  <1>5. HashAdded(hash, hash', c, Hash[name[c]])
    BY <1>1, <1>2 DEF HashAdded, hlist_add_head, TypeOK
  <1>6. hash' \in [first : [Buckets -> Chains \cup Poisons],
                   next  : [Chains -> Chains \cup Poisons],
                   pprev : [Chains -> Chains \cup Buckets \cup Poisons]]
    BY <1>1, <1>2 DEF hlist_add_head, TypeOK
  <1>7. Enumerates(recent', Listed \cup {c})
    BY <1>1, <1>2, EnumeratesPush
  <1>8. recent' \in Seq(Chains)
    BY <1>1, <1>2 DEF TypeOK
  <1>9. listedAs' \in [Chains -> Names \cup {NULL}]
    BY <1>1, <1>2 DEF TypeOK
  <1> QED BY <1>1, <1>2, <1>3, <1>4, <1>5, <1>6, <1>7, <1>8, <1>9 DEF TypeOK

\* The pointers of the index agree again.
LEMMA AddIndexed ==
    ASSUME IInv, NEW c \in Chains, Index(c), Ring(link', Listed \cup {c, List})
    PROVE  IndexLinks'
  <1> USE ChainListAssumption
  <1>1. TypeOK /\ IndexLinks
    BY DEF IInv
  <1>2. PICK b : b = Hash[name[c]]
    OBVIOUS
  <1>3. /\ c \notin Listed /\ List \in live /\ c \in live /\ b \in Buckets
        /\ Listed' = Listed \cup {c} /\ live' = live
        /\ \A x \in Chains : Hash[listedAs'[x]] = IF x = c THEN b ELSE Key(x)
        /\ HashAdded(hash, hash', c, b)
    BY <1>2, IndexAdds
  <1>4. PICK f : f = hash.first[b]
    OBVIOUS
  <1>5. f # NULL => f \in Listed /\ Key(f) = b /\ hash.pprev[f] = b /\ f # c
    BY <1>1, <1>3, <1>4 DEF IndexLinks
  <1>6. Listed \subseteq Chains /\ NULL \notin Chains
    BY DEF Listed, Nodes, Poisons
  <1>7. ASSUME NEW d \in Buckets, hash'.first[d] # NULL
        PROVE  /\ hash'.first[d] \in Listed \cup {c}
               /\ Hash[listedAs'[hash'.first[d]]] = d
               /\ hash'.pprev[hash'.first[d]] = d
    <2>1. CASE d = b
      BY <1>3, <2>1 DEF HashAdded
    <2>2. CASE d # b
      <3>1. PICK y : y = hash.first[d]
        OBVIOUS
      <3>2. hash'.first[d] = y
        BY <1>3, <2>2, <3>1 DEF HashAdded
      <3>3. y \in Listed /\ Key(y) = d /\ hash.pprev[y] = d
        BY <1>1, <1>3, <1>7, <3>1, <3>2 DEF IndexLinks
      <3>4. y # c /\ y # f
        BY <1>3, <1>5, <1>6, <2>2, <3>3
      <3> QED BY <1>3, <1>4, <1>6, <3>2, <3>3, <3>4 DEF HashAdded
    <2> QED BY <2>1, <2>2
  <1>8. ASSUME NEW x \in Listed \cup {c}
        PROVE  \/ /\ hash'.pprev[x] = Hash[listedAs'[x]]
                  /\ hash'.first[Hash[listedAs'[x]]] = x
               \/ hash'.pprev[x] \in Listed \cup {c} /\ hash'.next[hash'.pprev[x]] = x
    <2>1. CASE x = c
      BY <1>3, <2>1 DEF HashAdded
    <2>2. CASE x # c /\ x = f
      BY <1>3, <1>4, <1>6, <2>2 DEF HashAdded
    <2>3. CASE x # c /\ x # f
      <3>1. x \in Listed /\ x \in Chains /\ Key(x) \in Buckets
        BY <1>1, <1>6, <2>3 DEF Key, TypeOK, Listed
      <3>2. hash'.pprev[x] = hash.pprev[x] /\ Hash[listedAs'[x]] = Key(x)
        BY <1>3, <1>4, <2>3, <3>1 DEF HashAdded
      <3>3. CASE hash.pprev[x] = Key(x) /\ hash.first[Key(x)] = x
        <4>1. Key(x) # b
          BY <1>4, <2>3, <3>3
        <4> QED BY <1>3, <3>1, <3>2, <3>3, <4>1 DEF HashAdded
      <3>4. CASE hash.pprev[x] \in Listed /\ hash.next[hash.pprev[x]] = x
        BY <1>3, <1>6, <3>2, <3>4 DEF HashAdded
      <3> QED BY <1>1, <3>1, <3>3, <3>4 DEF IndexLinks
    <2> QED BY <2>1, <2>2, <2>3
  <1>9. ASSUME NEW x \in Listed \cup {c}, hash'.next[x] # NULL
        PROVE  /\ hash'.next[x] \in Listed \cup {c}
               /\ Hash[listedAs'[hash'.next[x]]] = Hash[listedAs'[x]]
               /\ hash'.pprev[hash'.next[x]] = x
    <2>1. CASE x = c
      BY <1>3, <1>4, <1>5, <1>6, <1>9, <2>1 DEF HashAdded
    <2>2. CASE x # c
      <3>1. PICK z : z = hash.next[x]
        OBVIOUS
      <3>2. x \in Listed /\ hash'.next[x] = z
        BY <1>3, <1>6, <2>2, <3>1 DEF HashAdded
      <3>3. z \in Listed /\ Key(z) = Key(x) /\ hash.pprev[z] = x
        BY <1>1, <1>9, <3>1, <3>2 DEF IndexLinks
      <3>4. z # c /\ z # f
        BY <1>3, <1>5, <1>6, <3>2, <3>3
      <3> QED BY <1>3, <1>4, <1>6, <3>2, <3>3, <3>4 DEF HashAdded
    <2> QED BY <2>1, <2>2
  <1>10. Ring(link', Listed' \cup {List})
    <2>1. Listed' \cup {List} = Listed \cup {c, List}
      BY <1>3
    <2> QED BY <2>1
  <1>11. Listed' \subseteq live'
    BY <1>1, <1>3 DEF IndexLinks
  <1> QED BY <1>3, <1>7, <1>8, <1>9, <1>10, <1>11 DEF IndexLinks, Key

\* The hash chain of the new chain starts with it, the others are as before.
LEMMA AddBuckets ==
    ASSUME IInv, NEW c \in Chains, Index(c)
    PROVE  Indexing'
  <1>1. TypeOK /\ IndexLinks /\ Enumerates(recent, Listed) /\ Indexing
    BY IndexAdds DEF IInv
  <1>2. PICK b : b = Hash[name[c]]
    OBVIOUS
  <1>3. /\ c \notin Listed
        /\ Listed' = Listed \cup {c}
        /\ \A x \in Chains : Hash[listedAs'[x]] = IF x = c THEN b ELSE Key(x)
        /\ HashAdded(hash, hash', c, b)
        /\ recent' = << c >> \o recent
    BY <1>2, IndexAdds
  <1>4. Listed \subseteq Chains
    BY DEF Listed
  <1>5. ASSUME NEW d \in Buckets
        PROVE  Chained(hash'.next, hash'.first[d], Only(recent', Keyed(d)'), NULL)
    <2>1. PICK K : K = Keyed(d)'
      OBVIOUS
    <2>2. /\ Listed \cap K = Listed \cap Keyed(d)
          /\ c \in K <=> d = b
      BY <1>3, <1>4, <2>1 DEF Keyed, Key
    <2>3. recent \in Seq(Listed)
      BY <1>1 DEF Enumerates
    <2>4. PICK q : q = Only(recent, Keyed(d))
      OBVIOUS
    <2>5. Only(recent, K) = q /\ q \in Seq(Listed)
      <3>1. \A s \in Seq(Listed) : \A T, U : Listed \cap T = Listed \cap U => Only(s, T) = Only(s, U)
        BY OnlySame
      <3>2. Only(recent, K) = Only(recent, Keyed(d))
        BY <2>2, <2>3, <3>1
      <3>3. Only(recent, Keyed(d)) \in Seq(Listed)
        BY <2>3, OnlyType
      <3> QED BY <2>4, <3>2, <3>3
    <2>6. Only(recent', K) = IF c \in K THEN << c >> \o q ELSE q
      <3>1. PICK S : S = Listed \cup {c}
        OBVIOUS
      <3>2. << c >> \in Seq(S) /\ recent \in Seq(S) /\ c \in S
        BY <2>3, <3>1
      <3>3. \A x, y \in Seq(S) : Only(x \o y, K) = Only(x, K) \o Only(y, K)
        BY OnlyConcat
      <3>4. Only(<< c >>, K) = IF c \in K THEN << c >> ELSE <<>>
        BY <3>2, OnlyOne
      <3>5. Only(recent', K) = Only(<< c >>, K) \o q
        BY <1>3, <2>5, <3>2, <3>3
      <3>6. <<>> \o q = q
        BY <2>5, ConcatEmptySeq
      <3> QED BY <3>4, <3>5, <3>6
    <2>7. Chained(hash.next, hash.first[d], q, NULL)
      BY <1>1, <2>4 DEF Indexing
    <2>8. \A x \in Listed : hash'.next[x] = hash.next[x]
      BY <1>3, <1>4 DEF HashAdded
    <2>9. CASE d = b
      <3>1. hash'.next[c] = hash.first[d] /\ hash'.first[d] = c
        BY <1>3, <2>9 DEF HashAdded
      <3>2. Chained(hash'.next, c, << c >> \o q, NULL)
        BY <1>3, <2>5, <2>7, <2>8, <3>1, ChainedPush
      <3> QED BY <2>1, <2>2, <2>6, <2>9, <3>1, <3>2
    <2>10. CASE d # b
      <3>1. hash'.first[d] = hash.first[d]
        BY <1>3, <2>10 DEF HashAdded
      <3>2. Chained(hash'.next, hash.first[d], q, NULL)
        BY <2>5, <2>7, <2>8 DEF Chained
      <3> QED BY <2>1, <2>2, <2>6, <2>10, <3>1, <3>2
    <2> QED BY <2>9, <2>10
  <1> QED BY <1>5 DEF Indexing

\* The type of the links when the assignments of the list operations go to
\* nodes.
LinkType == [next : [Nodes -> Nodes \cup Poisons], prev : [Nodes -> Nodes \cup Poisons]]

\* What linking in a node does to the ring S.
LEMMA RingAfterAdd ==
    ASSUME NEW S \in SUBSET Nodes, Links(link, Nodes), Ring(link, S),
           NEW c \in Nodes \ S, NEW p \in S,
           link' = list_add_between(link, c, p, link.next[p])
    PROVE  /\ Ring(link', S \cup {c})
           /\ link'.next[c] = link.next[p]
           /\ link'.next[p] = c
           /\ \A n \in S \ {p} : link'.next[n] = link.next[n]
  <1>1. Links(link', Nodes) /\ Ring(link', S \cup {c})
    BY AddBetween
  <1>2. link'.next = [link.next EXCEPT ![c] = link.next[p], ![p] = c]
    BY DEF list_add_between
  <1>3. \A n \in Nodes : link'.next[n] = IF n = p THEN c ELSE IF n = c THEN link.next[p]
                                         ELSE link.next[n]
    BY <1>2 DEF Links
  <1> QED BY <1>1, <1>3

\* A new chain linked in after the entry p of the list, and indexed.
LEMMA AddIInv ==
    ASSUME IInv, NEW c \in Chains, Index(c),
           NEW s, IsList(link, List, s, Listed), NEW i \in 1 .. Len(s) + 1,
           NEW p, p = Before(List, s, i), p \in Listed \cup {List},
           link' = list_add_between(link, c, p, link.next[p])
    PROVE  IInv'
  <1> USE ChainListAssumption
  <1>1. TypeOK /\ IndexLinks
    BY DEF IInv
  <1>2. /\ c \notin Listed /\ List \in live /\ Listed' = Listed \cup {c}
        /\ Enumerates(recent', Listed \cup {c})
    BY IndexAdds
  <1>3. PICK S : S = Listed \cup {List}
    OBVIOUS
  <1>4. S \in SUBSET Nodes /\ c \in Nodes \ S /\ p \in S /\ List \notin Listed
    BY <1>2, <1>3 DEF Listed, Nodes
  <1>5. Links(link, Nodes) /\ Ring(link, S)
    BY <1>1, <1>2, <1>3 DEF TypeOK, Links, IndexLinks
  <1>6. /\ Ring(link', S \cup {c})
        /\ link'.next[c] = link.next[p]
        /\ link'.next[p] = c
        /\ \A n \in S \ {p} : link'.next[n] = link.next[n]
    BY <1>4, <1>5, RingAfterAdd
  <1>7. IndexLinks'
    <2>1. S \cup {c} = Listed \cup {c, List}
      BY <1>3
    <2> QED BY <1>6, <2>1, AddIndexed
  <1>8. Listing'
    <2>1. c \notin Listed \cup {List}
      BY <1>3, <1>4
    <2>2. IsList(link', List, InsertAt(s, i, c), Listed \cup {c})
      BY <1>3, <1>4, <1>6, <2>1, ListInsert
    <2> QED BY <1>2, <2>2 DEF Listing
  <1>9. TypeOK'
    <2>1. link' \in LinkType
      <3>1. link.next \in [Nodes -> Nodes \cup Poisons] /\ link.prev \in [Nodes -> Nodes \cup Poisons]
        BY <1>1 DEF TypeOK
      <3>2. link.next[p] \in Nodes /\ p \in Nodes /\ c \in Nodes
        BY <1>4, <1>5 DEF Ring
      <3>3. [link.next EXCEPT ![c] = link.next[p], ![p] = c] \in [Nodes -> Nodes \cup Poisons]
        BY <3>1, <3>2
      <3>4. [link.prev EXCEPT ![link.next[p]] = c, ![c] = p] \in [Nodes -> Nodes \cup Poisons]
        BY <3>1, <3>2
      <3> QED BY <3>3, <3>4 DEF list_add_between, LinkType
    <2> QED BY <2>1, IndexAdds DEF TypeOK, LinkType
  <1>10. Indexing'
    BY AddBuckets
  <1> QED BY <1>2, <1>7, <1>8, <1>9, <1>10 DEF IInv

\* nftnl_chain_list_add: in front of the first chain.
LEMMA ListAddIInv ==
    ASSUME IInv, NEW c \in Chains, chain_list_add(c)
    PROVE  IInv'
  <1>1. Index(c) /\ link' = list_add_between(link, c, List, link.next[List])
    BY DEF chain_list_add, list_add
  <1>2. PICK s : IsList(link, List, s, Listed)
    BY <1>1, IndexAdds DEF IInv, Listing
  <1>3. 1 \in 1 .. Len(s) + 1 /\ List = Before(List, s, 1)
    BY <1>2 DEF IsList, Before
  <1> QED BY <1>1, <1>2, <1>3, AddIInv

\* nftnl_chain_list_add_tail: behind the last.
LEMMA ListAddTailIInv ==
    ASSUME IInv, NEW c \in Chains, chain_list_add_tail(c)
    PROVE  IInv'
  <1>1. Index(c) /\ link' = list_add_between(link, c, link.prev[List], List)
    BY DEF chain_list_add_tail, list_add_tail
  <1>2. List \in live
    BY <1>1, IndexAdds
  <1>3. PICK s : IsList(link, List, s, Listed)
    BY <1>2 DEF IInv, Listing
  <1>4. PICK i : i = Len(s) + 1
    OBVIOUS
  <1>5. i \in 1 .. Len(s) + 1
    BY <1>3, <1>4 DEF IsList
  <1>6. PICK p : p = Before(List, s, i)
    OBVIOUS
  <1>7. link.prev[List] = p /\ link.next[p] = List /\ p \in Listed \cup {List}
    <2>1. Ring(link, Listed \cup {List})
      BY <1>2 DEF IInv, IndexLinks
    <2>2. List = IF i = Len(s) + 1 THEN List ELSE s[i]
      BY <1>4
    <2> QED BY <1>3, <1>5, <1>6, <2>1, <2>2, ListPrev
  <1>8. link' = list_add_between(link, c, p, link.next[p])
    BY <1>1, <1>7
  <1> QED BY <1>1, <1>3, <1>5, <1>6, <1>7, <1>8, AddIInv

-------------------------------------------------------------------------------
(* Deleting a chain.                                                       *)

\* The name index after a deletion, pointer by pointer.
HashDeleted(h, m, c) ==
    /\ \A x \in Buckets : m.first[x] = IF x = h.pprev[c] THEN h.next[c] ELSE h.first[x]
    /\ \A x \in Chains \ {c} :
          /\ m.next[x] = IF x = h.pprev[c] THEN h.next[c] ELSE h.next[x]
          /\ m.pprev[x] = IF x = h.next[c] THEN h.pprev[c] ELSE h.pprev[x]

\* What a deletion does to the index.
LEMMA DelHash ==
    ASSUME IInv, NEW c \in Listed, hash' = hlist_del(hash, c)
    PROVE  /\ HashDeleted(hash, hash', c)
           /\ hash' \in [first : [Buckets -> Chains \cup Poisons],
                         next  : [Chains -> Chains \cup Poisons],
                         pprev : [Chains -> Chains \cup Buckets \cup Poisons]]
  <1> USE ChainListAssumption
  <1>1. TypeOK /\ IndexLinks
    BY DEF IInv
  <1>2. c \in Chains /\ hash.next[c] \in Chains \cup Poisons /\ hash.pprev[c] \in Chains \cup Buckets
    BY <1>1 DEF TypeOK, IndexLinks, Listed, Key
  <1>3. PICK p : p = hash.pprev[c]
    OBVIOUS
  <1>4. PICK n : n = hash.next[c]
    OBVIOUS
  <1>5. PICK g : g = Redirect(hash, p, n)
    OBVIOUS
  <1>6. /\ \A x \in Buckets : g.first[x] = IF x = p THEN n ELSE hash.first[x]
        /\ \A x \in Chains : g.next[x] = IF x = p THEN n ELSE hash.next[x]
        /\ g.first \in [Buckets -> Chains \cup Poisons]
        /\ g.next \in [Chains -> Chains \cup Poisons]
    <2>1. CASE p \in Buckets
      BY <1>1, <1>2, <1>3, <1>4, <1>5, <2>1 DEF Redirect, TypeOK
    <2>2. CASE p \in Chains
      BY <1>1, <1>2, <1>3, <1>4, <1>5, <2>2 DEF Redirect, TypeOK
    <2> QED BY <1>2, <1>3, <2>1, <2>2
  <1>7. hash' = [first |-> g.first,
                 next  |-> [g.next EXCEPT ![c] = POISON1],
                 pprev |-> [x \in Chains |-> IF x = c THEN POISON2
                                             ELSE IF x = n THEN p ELSE hash.pprev[x]]]
    BY <1>1, <1>3, <1>4, <1>5 DEF hlist_del, TypeOK
  <1>8. HashDeleted(hash, hash', c)
    BY <1>2, <1>3, <1>4, <1>6, <1>7 DEF HashDeleted
  <1>9. /\ hash'.first \in [Buckets -> Chains \cup Poisons]
        /\ hash'.next \in [Chains -> Chains \cup Poisons]
        /\ hash'.pprev \in [Chains -> Chains \cup Buckets \cup Poisons]
    BY <1>1, <1>2, <1>3, <1>6, <1>7 DEF TypeOK, Poisons
  <1> QED BY <1>7, <1>8, <1>9

\* The pointers of the index agree without the chain.
LEMMA DelIndexed ==
    ASSUME IInv, NEW c \in Listed, chain_list_del(c), Ring(link', (Listed \ {c}) \cup {List})
    PROVE  IndexLinks'
  <1> USE ChainListAssumption
  <1>1. TypeOK /\ IndexLinks /\ c \in Chains
    BY DEF IInv, Listed
  <1>2. /\ listedAs' = [listedAs EXCEPT ![c] = NULL] /\ live' = live
        /\ HashDeleted(hash, hash', c)
    BY DelHash DEF chain_list_del
  <1>3. Listed' = Listed \ {c} /\ List \in live
    BY <1>1, <1>2 DEF Listed, TypeOK, IndexLinks
  <1>4. \A x \in Chains \ {c} : Hash[listedAs'[x]] = Key(x)
    BY <1>1, <1>2 DEF Key, TypeOK
  <1>5. Listed \subseteq Chains /\ NULL \notin Chains
    BY DEF Listed, Nodes, Poisons
  <1>6. PICK p : p = hash.pprev[c]
    OBVIOUS
  <1>7. PICK n : n = hash.next[c]
    OBVIOUS
  <1>8. /\ \/ p = Key(c) /\ p \in Buckets /\ hash.first[p] = c
           \/ p \in Listed /\ hash.next[p] = c
        /\ n # NULL => n \in Listed /\ Key(n) = Key(c) /\ hash.pprev[n] = c
    BY <1>1, <1>6, <1>7 DEF IndexLinks, TypeOK, Listed, Key
  <1>9. p \in Listed => Key(p) = Key(c)
    BY <1>1, <1>5, <1>8 DEF IndexLinks
  <1>10. ASSUME NEW d \in Buckets, hash'.first[d] # NULL
         PROVE  /\ hash'.first[d] \in Listed \ {c}
                /\ Hash[listedAs'[hash'.first[d]]] = d
                /\ hash'.pprev[hash'.first[d]] = d
    <2>1. CASE d = p
      <3>1. hash'.first[d] = n
        BY <1>2, <1>6, <1>7, <2>1 DEF HashDeleted
      <3>2. p = Key(c) /\ p \notin Listed /\ n \in Listed
        BY <1>5, <1>8, <1>10, <2>1, <3>1
      <3>3. n # c
        BY <1>5, <1>6, <1>8, <2>1, <3>2
      <3> QED BY <1>2, <1>4, <1>5, <1>6, <1>7, <1>8, <2>1, <3>1, <3>2, <3>3 DEF HashDeleted
    <2>2. CASE d # p
      <3>1. PICK y : y = hash.first[d]
        OBVIOUS
      <3>2. hash'.first[d] = y
        BY <1>2, <1>6, <2>2, <3>1 DEF HashDeleted
      <3>3. y \in Listed /\ Key(y) = d /\ hash.pprev[y] = d
        BY <1>1, <1>3, <1>10, <3>1, <3>2 DEF IndexLinks
      <3>4. y # c /\ y # n
        BY <1>5, <1>6, <1>8, <2>2, <3>3
      <3> QED BY <1>2, <1>4, <1>5, <1>7, <3>2, <3>3, <3>4 DEF HashDeleted
    <2> QED BY <2>1, <2>2
  <1>11. ASSUME NEW x \in Listed \ {c}
         PROVE  \/ /\ hash'.pprev[x] = Hash[listedAs'[x]]
                   /\ hash'.first[Hash[listedAs'[x]]] = x
                \/ hash'.pprev[x] \in Listed \ {c} /\ hash'.next[hash'.pprev[x]] = x
    <2>1. x \in Chains \ {c} /\ Key(x) \in Buckets /\ Hash[listedAs'[x]] = Key(x)
      BY <1>1, <1>4, <1>5 DEF Key, TypeOK, Listed
    <2>2. CASE x = n
      <3>1. hash'.pprev[x] = p /\ Key(x) = Key(c) /\ n # NULL
        BY <1>2, <1>5, <1>6, <1>7, <1>8, <2>1, <2>2 DEF HashDeleted
      <3>2. CASE p = Key(c) /\ p \in Buckets
        BY <1>2, <1>6, <1>7, <2>1, <2>2, <3>1, <3>2 DEF HashDeleted
      <3>3. CASE p \in Listed
        <4>1. p # c
          BY <1>7, <1>8, <2>1, <2>2, <3>3, <1>5
        <4> QED BY <1>2, <1>5, <1>6, <1>7, <2>2, <3>1, <3>3, <4>1 DEF HashDeleted
      <3> QED BY <1>8, <3>2, <3>3
    <2>3. CASE x # n
      <3>1. hash'.pprev[x] = hash.pprev[x]
        BY <1>2, <1>7, <2>1, <2>3 DEF HashDeleted
      <3>2. CASE hash.pprev[x] = Key(x) /\ hash.first[Key(x)] = x
        <4>1. Key(x) # p
          BY <1>5, <1>8, <2>1, <3>2
        <4> QED BY <1>2, <1>6, <2>1, <3>1, <3>2, <4>1 DEF HashDeleted
      <3>3. CASE hash.pprev[x] \in Listed /\ hash.next[hash.pprev[x]] = x
        <4>1. hash.pprev[x] # c
          BY <1>7, <2>3, <3>3
        <4>2. hash.pprev[x] # p
          BY <1>5, <1>8, <2>1, <3>3
        <4> QED BY <1>2, <1>5, <1>6, <3>1, <3>3, <4>1, <4>2 DEF HashDeleted
      <3> QED BY <1>1, <3>2, <3>3 DEF IndexLinks
    <2> QED BY <2>2, <2>3
  <1>12. ASSUME NEW x \in Listed \ {c}, hash'.next[x] # NULL
         PROVE  /\ hash'.next[x] \in Listed \ {c}
                /\ Hash[listedAs'[hash'.next[x]]] = Hash[listedAs'[x]]
                /\ hash'.pprev[hash'.next[x]] = x
    <2>1. x \in Chains \ {c} /\ Hash[listedAs'[x]] = Key(x)
      BY <1>4, <1>5
    <2>2. CASE x = p
      <3>1. hash'.next[x] = n /\ n \in Listed
        BY <1>2, <1>6, <1>7, <1>8, <1>12, <2>1, <2>2 DEF HashDeleted
      <3>2. n # c
        BY <1>5, <1>6, <1>8, <2>2, <3>1
      <3> QED BY <1>2, <1>4, <1>5, <1>6, <1>7, <1>8, <1>9, <2>1, <2>2, <3>1, <3>2 DEF HashDeleted
    <2>3. CASE x # p
      <3>1. PICK z : z = hash.next[x]
        OBVIOUS
      <3>2. hash'.next[x] = z
        BY <1>2, <1>6, <2>1, <2>3, <3>1 DEF HashDeleted
      <3>3. z \in Listed /\ Key(z) = Key(x) /\ hash.pprev[z] = x
        BY <1>1, <1>12, <3>1, <3>2 DEF IndexLinks
      <3>4. z # c /\ z # n
        BY <1>5, <1>6, <1>8, <2>1, <2>3, <3>3
      <3> QED BY <1>2, <1>4, <1>5, <1>7, <2>1, <3>2, <3>3, <3>4 DEF HashDeleted
    <2> QED BY <2>2, <2>3
  <1>13. Ring(link', Listed' \cup {List}) /\ Listed' \subseteq live'
    BY <1>1, <1>2, <1>3 DEF IndexLinks
  <1> QED BY <1>2, <1>3, <1>10, <1>11, <1>12, <1>13 DEF IndexLinks, Key

\* What pointed to the chain points past it, and nothing else has changed.
LEMMA DelPointers ==
    ASSUME IInv, NEW c \in Listed, hash' = hlist_del(hash, c)
    PROVE  /\ \A x \in Listed \ {c} :
                 hash'.next[x] = IF hash.next[x] = c THEN hash.next[c] ELSE hash.next[x]
           /\ \A d \in Buckets :
                 hash'.first[d] = IF hash.first[d] = c THEN hash.next[c] ELSE hash.first[d]
  <1> USE ChainListAssumption
  <1>1. TypeOK /\ IndexLinks /\ HashDeleted(hash, hash', c) /\ List \in live
    BY DelHash DEF IInv, IndexLinks
  <1>2. Listed \subseteq Chains /\ NULL \notin Chains /\ c \in Chains
    BY DEF Listed, Nodes, Poisons
  <1>3. ASSUME NEW x \in Listed \ {c} PROVE x = hash.pprev[c] <=> hash.next[x] = c
    <2>1. hash.next[x] = c => x = hash.pprev[c]
      BY <1>1, <1>2 DEF IndexLinks
    <2>2. x = hash.pprev[c] => hash.next[x] = c
      <3>1. x \notin Buckets /\ Key(c) \in Buckets
        BY <1>1, <1>2 DEF TypeOK, Listed, Key
      <3> QED BY <1>1, <3>1 DEF IndexLinks
    <2> QED BY <2>1, <2>2
  <1>4. ASSUME NEW d \in Buckets PROVE d = hash.pprev[c] <=> hash.first[d] = c
    <2>1. hash.first[d] = c => d = hash.pprev[c]
      BY <1>1, <1>2 DEF IndexLinks
    <2>2. d = hash.pprev[c] => hash.first[d] = c
      BY <1>1, <1>2 DEF IndexLinks
    <2> QED BY <2>1, <2>2
  <1> QED BY <1>1, <1>2, <1>3, <1>4 DEF HashDeleted

\* The hash chain of the chain is left without it, the others are as before.
LEMMA DelBuckets ==
    ASSUME IInv, NEW c \in Listed, chain_list_del(c)
    PROVE  Indexing' /\ Enumerates(recent', Listed \ {c}) /\ recent' \in Seq(Chains)
  <1> USE ChainListAssumption
  <1>1. TypeOK /\ IndexLinks /\ Enumerates(recent, Listed) /\ Indexing
    BY DEF IInv, IndexLinks
  <1>2. /\ recent' = Only(recent, Chains \ {c})
        /\ listedAs' = [listedAs EXCEPT ![c] = NULL]
        /\ hash' = hlist_del(hash, c)
    BY DEF chain_list_del
  <1>3. Listed \subseteq Chains /\ NULL \notin Chains /\ c \in Chains
    BY DEF Listed, Nodes, Poisons
  <1>4. PICK L : L = Listed
    OBVIOUS
  <1>5. PICK R : R = L \ {c}
    OBVIOUS
  <1>6. Enumerates(recent', R)
    <2>1. L \cap (Chains \ {c}) = R
      BY <1>3, <1>4, <1>5
    <2>2. Enumerates(Only(recent, Chains \ {c}), L \cap (Chains \ {c}))
      BY <1>1, <1>4, EnumeratesOnly
    <2> QED BY <1>2, <2>1, <2>2
  <1>7. recent' \in Seq(Chains)
    BY <1>1, <1>2, OnlyType DEF TypeOK
  <1>8. PICK u, v \in Seq(R) : Around(recent, u, c, v)
    BY <1>1, <1>4, <1>5 DEF Enumerates
  <1>9. u \in Seq(L) /\ v \in Seq(L) /\ c \in L /\ recent \in Seq(L)
    BY <1>1, <1>4, <1>5, <1>8 DEF Enumerates
  <1>10. ASSUME NEW d \in Buckets
         PROVE  Chained(hash'.next, hash'.first[d], Only(recent', Keyed(d)'), NULL)
    <2>1. PICK K : K = Keyed(d)
      OBVIOUS
    <2>2. PICK M : M = Keyed(d)'
      OBVIOUS
    <2>3. M = K \ {c}
      BY <1>1, <1>2, <1>3, <2>1, <2>2 DEF Keyed, Key, Listed, TypeOK
    <2>4. PICK a : a = Only(u, K)
      OBVIOUS
    <2>5. PICK b : b = Only(v, K)
      OBVIOUS
    <2>6. a \in Seq(R) /\ b \in Seq(R)
      BY <1>8, <2>4, <2>5, OnlyType
    <2>7. Only(u, M) = a /\ Only(v, M) = b
      <3>1. R \cap K = R \cap M
        BY <1>5, <2>3
      <3>2. \A s \in Seq(R) : \A T, U : R \cap T = R \cap U => Only(s, T) = Only(s, U)
        BY OnlySame
      <3> QED BY <1>8, <2>4, <2>5, <3>1, <3>2
    <2>8. Only(recent', M) = a \o b
      <3>1. \A T, U : Only(Only(recent, T), U) = Only(recent, T \cap U)
        BY <1>9, OnlyTwice
      <3>2. Only(recent', M) = Only(recent, (Chains \ {c}) \cap M)
        BY <1>2, <3>1
      <3>3. (Chains \ {c}) \cap M = M
        BY <1>3, <2>1, <2>3 DEF Keyed
      <3>4. Only(recent, M) = Only(u, M) \o Only(v, M)
        <4>1. c \notin M
          BY <2>3
        <4> QED BY <1>8, <1>9, <4>1, OnlyAround
      <3> QED BY <2>7, <3>2, <3>3, <3>4
    <2>9. PICK q : q = Only(recent, K)
      OBVIOUS
    <2>10. Chained(hash.next, hash.first[d], q, NULL)
      BY <1>1, <2>1, <2>9 DEF Indexing
    <2>11. /\ \A x \in R :
                 hash'.next[x] = IF hash.next[x] = c THEN hash.next[c] ELSE hash.next[x]
           /\ hash'.first[d] = IF hash.first[d] = c THEN hash.next[c] ELSE hash.first[d]
      BY <1>2, <1>4, <1>5, DelPointers
    <2>12. Chained(hash'.next, hash'.first[d], a \o b, NULL)
      <3>1. CASE c \in K
        <4>1. q = a \o (<< c >> \o b)
          <5>1. Around(q, a, c, b)
            BY <1>8, <1>9, <2>4, <2>5, <2>9, <3>1, OnlyAround
          <5> QED BY <5>1 DEF Around
        <4>2. c \notin R /\ NULL # c
          BY <1>3, <1>5
        <4>3. Chained(hash.next, hash.first[d], a \o (<< c >> \o b), NULL)
          BY <2>10, <4>1
        <4>4. PICK next, m : next = hash.next /\ m = hash'.next
          OBVIOUS
        <4>5. PICK first, start : first = hash.first[d] /\ start = hash'.first[d]
          OBVIOUS
        <4>6. /\ \A x \in R : m[x] = IF next[x] = c THEN next[c] ELSE next[x]
              /\ start = IF first = c THEN next[c] ELSE first
              /\ Chained(next, first, a \o (<< c >> \o b), NULL)
          BY <2>11, <4>3, <4>4, <4>5
        <4>7. Chained(m, start, a \o b, NULL)
          BY <2>6, <4>2, <4>6, ChainedDel
        <4> QED BY <4>4, <4>5, <4>7
      <3>2. CASE c \notin K
        <4>1. q = a \o b
          <5>1. Only(recent, K) = Only(u, K) \o Only(v, K)
            BY <1>8, <1>9, <3>2, OnlyAround
          <5> QED BY <2>4, <2>5, <2>9, <5>1
        <4>2. q \in Seq(R) /\ c \notin R
          BY <1>5, <2>6, <4>1
        <4>3. hash.first[d] # c /\ \A i \in 1 .. Len(q) : hash.next[q[i]] # c
          BY <1>3, <2>10, <4>2, EmptySeq DEF Chained
        <4>4. hash'.first[d] = hash.first[d]
          BY <2>11, <4>3
        <4>5. \A i \in 1 .. Len(q) : hash'.next[q[i]] = hash.next[q[i]]
          BY <2>11, <4>2, <4>3
        <4> QED BY <2>10, <4>1, <4>4, <4>5 DEF Chained
      <3> QED BY <3>1, <3>2
    <2> QED BY <2>2, <2>8, <2>12
  <1> QED BY <1>4, <1>5, <1>6, <1>7, <1>10 DEF Indexing

\* What taking out a node does to the ring S.
LEMMA RingAfterDel ==
    ASSUME NEW S \in SUBSET Nodes, Links(link, Nodes), Ring(link, S), NEW c \in S,
           link' = list_del(link, c)
    PROVE  Ring(link', S \ {c})
  <1>1. Links(link', Nodes) /\ Ring(link', S \ {c})
    BY Del
  <1> QED BY <1>1

\* nftnl_chain_list_del.
LEMMA DelIInv ==
    ASSUME IInv, NEW c \in Chains, chain_list_del(c)
    PROVE  IInv'
  <1> USE ChainListAssumption
  <1>1. TypeOK /\ IndexLinks
    BY DEF IInv
  <1>2. /\ c \in Listed /\ live' = live /\ name' = name
        /\ listedAs' = [listedAs EXCEPT ![c] = NULL]
        /\ link' = list_del(link, c) /\ hash' = hlist_del(hash, c)
    BY DEF chain_list_del
  <1>3. List \in live /\ Listed' = Listed \ {c}
    BY <1>1, <1>2 DEF IndexLinks, Listed, TypeOK
  <1>4. PICK S : S = Listed \cup {List}
    OBVIOUS
  <1>5. S \in SUBSET Nodes /\ c \in S /\ Listed \subseteq Nodes /\ List \notin Listed
    BY <1>2, <1>4 DEF Listed, Nodes
  <1>6. Links(link, Nodes) /\ Ring(link, S)
    BY <1>1, <1>3, <1>4 DEF TypeOK, Links, IndexLinks
  <1>7. Ring(link', (Listed \ {c}) \cup {List})
    <2>1. S \ {c} = (Listed \ {c}) \cup {List}
      BY <1>2, <1>4, <1>5
    <2> QED BY <1>2, <1>5, <1>6, <2>1, RingAfterDel
  <1>8. IndexLinks'
    BY <1>2, <1>7, DelIndexed
  <1>9. Listing'
    <2>1. PICK s : IsList(link, List, s, Listed)
      BY <1>3 DEF IInv, Listing
    <2>2. PICK i \in 1 .. Len(s) : s[i] = c
      BY <1>2, <2>1 DEF IsList, ToSet
    <2>3. PICK p : p = Before(List, s, i)
      OBVIOUS
    <2>4. link.prev[c] = p /\ link.next[p] = c /\ p \in Listed \cup {List}
      <3>1. /\ i \in 1 .. Len(s) + 1
            /\ c = IF i = Len(s) + 1 THEN List ELSE s[i]
        <4>1. Len(s) \in Nat
          BY <2>1 DEF IsList
        <4> QED BY <2>2, <4>1
      <3> QED BY <1>4, <1>6, <2>1, <2>3, <3>1, ListPrev
    <2>5. link'.next = [link.next EXCEPT ![p] = link.next[c], ![c] = POISON1]
      BY <1>2, <2>4 DEF list_del
    <2>6. p # c
      <3>1. IsInjective(s) /\ DOMAIN s = 1 .. Len(s)
        BY <2>1 DEF IsList
      <3>2. CASE i = 1
        BY <1>2, <1>5, <2>3, <3>2 DEF Before
      <3>3. CASE i # 1
        <4>1. i - 1 \in 1 .. Len(s) /\ i - 1 # i
          BY <3>3
        <4> QED BY <2>2, <2>3, <3>1, <3>3, <4>1 DEF Before, IsInjective
      <3> QED BY <3>2, <3>3
    <2>7. /\ link'.next[p] = link.next[c]
          /\ \A n \in (Listed \cup {List}) \ {p, c} : link'.next[n] = link.next[n]
      BY <1>4, <1>5, <1>6, <2>4, <2>5, <2>6 DEF Links
    <2>8. IsList(link', List, RemoveAt(s, i), Listed \ {c})
      BY <1>5, <2>1, <2>2, <2>3, <2>7, ListDel
    <2> QED BY <1>3, <2>8 DEF Listing
  <1>10. TypeOK'
    <2>1. link' \in LinkType
      <3>1. link.next \in [Nodes -> Nodes \cup Poisons] /\ link.prev \in [Nodes -> Nodes \cup Poisons]
        BY <1>1 DEF TypeOK
      <3>2. link.next[c] \in Nodes /\ link.prev[c] \in Nodes /\ c \in Nodes
        BY <1>5, <1>6 DEF Ring
      <3>3. link'.next \in [Nodes -> Nodes \cup Poisons]
        BY <1>2, <3>1, <3>2 DEF list_del, Poisons
      <3>4. link'.prev \in [Nodes -> Nodes \cup Poisons]
        BY <1>2, <3>1, <3>2 DEF list_del, Poisons
      <3> QED BY <1>2, <3>3, <3>4 DEF list_del, LinkType
    <2>2. listedAs' \in [Chains -> Names \cup {NULL}]
      BY <1>1, <1>2 DEF TypeOK
    <2>3. recent' \in Seq(Chains)
      BY <1>2, DelBuckets
    <2> QED BY <1>1, <1>2, <2>1, <2>2, <2>3, DelHash DEF TypeOK, LinkType
  <1>11. Indexing' /\ Enumerates(recent', Listed')
    BY <1>2, <1>3, DelBuckets
  <1> QED BY <1>8, <1>9, <1>10, <1>11 DEF IInv

-------------------------------------------------------------------------------
(* Allocation, release and names.                                          *)

\* Cleared memory, field by field.
LEMMA Cleared ==
    ASSUME TypeOK, NEW S, Zero(S)
    PROVE  /\ \A n \in Nodes : /\ link'.next[n] = IF n \in S THEN NULL ELSE link.next[n]
                               /\ link'.prev[n] = IF n \in S THEN NULL ELSE link.prev[n]
           /\ \A c \in Chains : /\ hash'.next[c] = IF c \in S THEN NULL ELSE hash.next[c]
                                /\ hash'.pprev[c] = IF c \in S THEN NULL ELSE hash.pprev[c]
           /\ \A b \in Buckets : List \notin S => hash'.first[b] = hash.first[b]
           /\ link' \in LinkType
           /\ hash' \in [first : [Buckets -> Chains \cup Poisons],
                         next  : [Chains -> Chains \cup Poisons],
                         pprev : [Chains -> Chains \cup Buckets \cup Poisons]]
           /\ name' \in [Chains -> Names \cup {NULL}]
  <1>1. /\ DOMAIN link.next = Nodes /\ DOMAIN link.prev = Nodes
        /\ DOMAIN hash.next = Chains /\ DOMAIN hash.pprev = Chains
        /\ DOMAIN name = Chains
    BY DEF TypeOK
  <1>2. /\ link' = [next |-> [n \in Nodes |-> IF n \in S THEN NULL ELSE link.next[n]],
                    prev |-> [n \in Nodes |-> IF n \in S THEN NULL ELSE link.prev[n]]]
        /\ hash' = [first |-> [b \in Buckets |-> IF List \in S THEN NULL ELSE hash.first[b]],
                    next  |-> [c \in Chains |-> IF c \in S THEN NULL ELSE hash.next[c]],
                    pprev |-> [c \in Chains |-> IF c \in S THEN NULL ELSE hash.pprev[c]]]
        /\ name' = [c \in Chains |-> IF c \in S THEN NULL ELSE name[c]]
    BY <1>1 DEF Zero
  <1>3. link' \in LinkType
    BY <1>2 DEF TypeOK, LinkType, Poisons
  <1>4. hash' \in [first : [Buckets -> Chains \cup Poisons],
                   next  : [Chains -> Chains \cup Poisons],
                   pprev : [Chains -> Chains \cup Buckets \cup Poisons]]
    BY <1>2 DEF TypeOK, Poisons
  <1>5. name' \in [Chains -> Names \cup {NULL}]
    BY <1>2 DEF TypeOK
  <1> QED BY <1>2, <1>3, <1>4, <1>5

\* A chain in no list is allocated or freed.
LEMMA MemoryIInv ==
    ASSUME IInv, NEW c \in Chains, chain_alloc(c) \/ chain_free(c)
    PROVE  IInv'
  <1> USE ChainListAssumption
  <1>1. TypeOK /\ IndexLinks
    BY DEF IInv
  <1>2. Zero({c}) /\ UNCHANGED << listedAs, recent >>
    BY DEF chain_alloc, chain_free
  <1>3. c \notin Listed /\ Listed \subseteq live'
    BY <1>1 DEF chain_alloc, chain_free, IndexLinks
  <1>4. live' \subseteq Nodes /\ (List \in live' <=> List \in live)
    BY <1>1 DEF chain_alloc, chain_free, TypeOK, Nodes
  <1>5. TypeOK'
    BY <1>1, <1>2, <1>4, Cleared DEF TypeOK, LinkType
  <1>6. \A n \in Listed \cup {List} :
           link'.next[n] = link.next[n] /\ link'.prev[n] = link.prev[n]
    BY <1>1, <1>2, <1>3, Cleared DEF Nodes, Listed
  <1>7. /\ \A d \in Listed : hash'.next[d] = hash.next[d] /\ hash'.pprev[d] = hash.pprev[d]
        /\ \A b \in Buckets : hash'.first[b] = hash.first[b]
    BY <1>1, <1>2, <1>3, Cleared DEF Listed
  <1> QED BY <1>2, <1>3, <1>4, <1>5, <1>6, <1>7, Untouched

\* A chain gets a name, or a name is looked up.
LEMMA NameIInv ==
    ASSUME IInv, UNCHANGED << live, link, hash, listedAs, recent >>,
           name' \in [Chains -> Names \cup {NULL}]
    PROVE  IInv'
  <1>1. TypeOK'
    BY DEF IInv, TypeOK
  <1>2. Listed \subseteq live'
    BY DEF IInv, IndexLinks
  <1> QED BY <1>1, <1>2, Untouched

\* Where nothing is listed, IInv only has the empty list and index to describe.
LEMMA NothingListed ==
    ASSUME TypeOK', Listed' = {}, recent' = <<>>,
           List \in live' => /\ link'.next[List] = List /\ link'.prev[List] = List
                             /\ \A b \in Buckets : hash'.first[b] = NULL
    PROVE  IInv'
  <1>1. IndexLinks'
    BY DEF IndexLinks, Ring
  <1>2. Enumerates(recent', Listed')
    BY EnumeratesEmpty
  <1>3. ASSUME List \in live' PROVE Listing' /\ Indexing'
    <2>1. IsList(link', List, <<>>, {})
      BY <1>3, ListEmpty
    <2>2. Listing'
      BY <2>1 DEF Listing
    <2>3. ASSUME NEW b \in Buckets
          PROVE  Chained(hash'.next, hash'.first[b], Only(recent', Keyed(b)'), NULL)
      <3>1. Only(recent', Keyed(b)') = <<>>
        BY OnlyOfEmpty
      <3>2. \A next : Chained(next, NULL, <<>>, NULL)
        BY DEF Chained
      <3> QED BY <1>3, <3>1, <3>2
    <2> QED BY <2>2, <2>3 DEF Indexing
  <1> QED BY <1>1, <1>2, <1>3 DEF IInv

\* nftnl_chain_list_alloc.
LEMMA ListAllocIInv == IInv /\ chain_list_alloc => IInv'
  <1> SUFFICES ASSUME IInv, chain_list_alloc PROVE IInv'
    OBVIOUS
  <1> USE ChainListAssumption
  <1>1. TypeOK /\ IndexLinks /\ Enumerates(recent, Listed)
    BY DEF IInv
  <1>2. Listed = {}
    BY <1>1 DEF chain_list_alloc, IndexLinks
  <1>3. Listed' = {} /\ recent' = recent
    BY <1>2 DEF chain_list_alloc, Listed
  <1>4. recent = <<>>
    <2>1. recent \in Seq({})
      BY <1>1, <1>2 DEF Enumerates
    <2> QED BY <2>1, EmptySeq
  <1>5. /\ link'.next = [link.next EXCEPT ![List] = List]
        /\ link'.prev = [link.prev EXCEPT ![List] = List]
        /\ link' = [next |-> link'.next, prev |-> link'.prev]
    BY DEF chain_list_alloc, INIT_LIST_HEAD
  <1>6. /\ link'.next \in [Nodes -> Nodes \cup Poisons]
        /\ link'.prev \in [Nodes -> Nodes \cup Poisons]
        /\ link'.next[List] = List /\ link'.prev[List] = List
    BY <1>1, <1>5 DEF TypeOK, Nodes
  <1>7. hash' \in [first : [Buckets -> Chains \cup Poisons],
                   next  : [Chains -> Chains \cup Poisons],
                   pprev : [Chains -> Chains \cup Buckets \cup Poisons]]
    BY <1>1 DEF chain_list_alloc, TypeOK, Poisons
  <1>8. \A b \in Buckets : hash'.first[b] = NULL
    BY <1>1 DEF chain_list_alloc, TypeOK
  <1>9. link' \in LinkType
    BY <1>5, <1>6 DEF LinkType
  <1>10. TypeOK'
    BY <1>1, <1>7, <1>9 DEF chain_list_alloc, TypeOK, LinkType, Nodes
  <1> QED BY <1>3, <1>4, <1>6, <1>8, <1>10, NothingListed

\* nftnl_chain_list_free.
LEMMA ListFreeIInv == IInv /\ chain_list_free => IInv'
  <1> SUFFICES ASSUME IInv, chain_list_free PROVE IInv'
    OBVIOUS
  <1> USE ChainListAssumption
  <1>1. TypeOK
    BY DEF IInv
  <1>2. Listed' = {} /\ List \notin live' /\ recent' = <<>>
    BY DEF chain_list_free, Listed
  <1>3. PICK S : S = Listed \cup {List}
    OBVIOUS
  <1>4. /\ link' \in LinkType
        /\ hash' \in [first : [Buckets -> Chains \cup Poisons],
                      next  : [Chains -> Chains \cup Poisons],
                      pprev : [Chains -> Chains \cup Buckets \cup Poisons]]
        /\ name' \in [Chains -> Names \cup {NULL}]
    BY <1>1, <1>3, Cleared DEF chain_list_free
  <1>5. recent' \in Seq(Chains)
    BY <1>2
  <1>6. TypeOK'
    BY <1>1, <1>4, <1>5 DEF chain_list_free, TypeOK, LinkType
  <1> QED BY <1>2, <1>6, NothingListed

\* The process ends at a fault, and another begins.
LEMMA RestartIInv == IInv /\ Restart => IInv'
  <1> SUFFICES ASSUME IInv, Restart PROVE IInv'
    OBVIOUS
  <1> USE ChainListAssumption
  <1>1. TypeOK
    BY DEF IInv
  <1>2. Listed' = {} /\ List \notin live' /\ recent' = <<>>
    BY DEF Restart, Listed
  <1>3. /\ link' \in LinkType
        /\ hash' \in [first : [Buckets -> Chains \cup Poisons],
                      next  : [Chains -> Chains \cup Poisons],
                      pprev : [Chains -> Chains \cup Buckets \cup Poisons]]
        /\ name' \in [Chains -> Names \cup {NULL}]
    BY <1>1, Cleared DEF Restart
  <1>4. recent' \in Seq(Chains)
    BY <1>2
  <1>5. TypeOK'
    BY <1>1, <1>3, <1>4 DEF Restart, TypeOK, LinkType
  <1> QED BY <1>2, <1>5, NothingListed

-------------------------------------------------------------------------------
(* The theorems.                                                           *)

\* The invariant holds at first.
LEMMA InitIInv == Init => IInv
  <1> SUFFICES ASSUME Init PROVE IInv
    OBVIOUS
  <1> USE ChainListAssumption
  <1>1. TypeOK
    BY DEF Init, TypeOK, Poisons
  <1>2. Listed = {} /\ List \notin live
    BY DEF Init, Listed
  <1>3. IndexLinks
    BY <1>2 DEF IndexLinks
  <1>4. Enumerates(recent, Listed)
    BY <1>2, EnumeratesEmpty DEF Init
  <1> QED BY <1>1, <1>2, <1>3, <1>4 DEF IInv

\* Every step keeps it.
LEMMA NextIInv == IInv /\ [Next]_vars => IInv'
  <1> SUFFICES ASSUME IInv, [Next]_vars PROVE IInv'
    OBVIOUS
  <1>1. name \in [Chains -> Names \cup {NULL}]
    BY DEF IInv, TypeOK
  <1>2. CASE UNCHANGED vars
    BY <1>1, <1>2, NameIInv DEF vars
  <1>3. ASSUME NEW c \in Chains, NEW nm \in Names \cup {NULL}, set_name(c, nm) PROVE IInv'
    BY <1>1, <1>3, NameIInv DEF set_name
  <1>4. ASSUME NEW nm \in Names, chain_list_lookup_byname(nm) PROVE IInv'
    BY <1>1, <1>4, NameIInv, RestartIInv DEF chain_list_lookup_byname
  <1>5. ASSUME NEW c \in Chains, unset_name(c) PROVE IInv'
    BY <1>1, <1>5, NameIInv DEF unset_name
  <1> QED BY <1>2, <1>3, <1>4, <1>5, MemoryIInv, ListAddIInv, ListAddTailIInv, DelIInv,
             ListAllocIInv, ListFreeIInv DEF Next

\* The list of chains and the name index hold the same chains and only well
\* formed pointers, in every state that can be reached (chain.c:1043-1085).
THEOREM IndexStaysIntact == Spec => []IndexIntegrity
  <1>1. Init => IInv
    BY InitIInv
  <1>2. IInv /\ [Next]_vars => IInv'
    BY NextIInv
  <1>3. IInv => IndexIntegrity
    BY Integrity
  <1> QED BY <1>1, <1>2, <1>3, PTL DEF Spec

\* What a lookup returns in a state of the invariant.
LEMMA LookupReturns ==
    ASSUME IInv, List \in live, NEW nm \in Names
    PROVE  LookupByName(nm) =
             Compared(First(recent, Keyed(Hash[nm]) \cap (Named(nm) \cup Named(NULL))))
  <1>1. TypeOK /\ IndexIsList /\ Hash[nm] \in Buckets
    BY LoopsExact, ChainListAssumption DEF IInv
  <1>2. Bucket(Hash[nm]) = Only(recent, Keyed(Hash[nm]))
    BY <1>1 DEF IndexIsList
  <1>3. recent \in Seq(Chains)
    BY <1>1 DEF TypeOK
  <1>4. \A T, U : Only(Only(recent, T), U) = Only(recent, T \cap U)
    BY <1>3, OnlyTwice
  <1> QED BY <1>2, <1>4 DEF LookupByName, First

\* A lookup finds the last added of the listed chains that have the name and
\* had one of the same hash when they were added, and NULL if there is none,
\* unless it meets a chain first that has lost its name (chain.c:217-222,
\* 1103-1117).
THEOREM LookupsAreExact == Spec => LookupExact
  <1>1. Init => IInv
    BY InitIInv
  <1>2. IInv /\ [Next]_vars => IInv'
    BY NextIInv
  <1>3. IInv /\ [Next]_vars =>
           [op'.fn = "lookup" =>
              LET met == Keyed(Hash[op'.name]) \cap (Named(op'.name) \cup Named(NULL))
              IN  op'.ret = Compared(First(recent, met))]_vars
    <2> SUFFICES ASSUME IInv, Next, op'.fn = "lookup"
                 PROVE  LET met == Keyed(Hash[op'.name]) \cap (Named(op'.name) \cup Named(NULL))
                        IN  op'.ret = Compared(First(recent, met))
      OBVIOUS
    <2>1. PICK nm \in Names : chain_list_lookup_byname(nm)
      <3>1. \A c : ~ chain_alloc(c) /\ ~ chain_free(c)
        BY DEF chain_alloc, chain_free, Call
      <3>2. \A c : ~ chain_list_add(c) /\ ~ chain_list_add_tail(c) /\ ~ chain_list_del(c)
        BY DEF chain_list_add, chain_list_add_tail, chain_list_del, Call
      <3>3. \A c, nm : ~ set_name(c, nm) /\ ~ unset_name(c)
        BY DEF set_name, unset_name, Call
      <3>4. ~ chain_list_alloc /\ ~ chain_list_free
        BY DEF chain_list_alloc, chain_list_free, Call
      <3> QED BY <3>1, <3>2, <3>3, <3>4 DEF Next
    <2>2. List \in live /\ op'.name = nm /\ op'.ret = LookupByName(nm)
      BY <2>1 DEF chain_list_lookup_byname, Call
    <2> QED BY <2>2, LookupReturns
  <1> QED BY <1>1, <1>2, <1>3, PTL DEF Spec, LookupExact
===============================================================================

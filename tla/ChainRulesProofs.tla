--------------------------- MODULE ChainRulesProofs ---------------------------
(***************************************************************************)
(* For any number of chains, rules and open walks: the lists of chains     *)
(* stay well-formed rings of allocated nodes, no walk holds a pointer that *)
(* dangles, the lists hold their rules and the walks hand out what they    *)
(* should, and all of it is what RuleSeqs says without pointers.           *)
(*                                                                         *)
(* IInv, the conjunction of the type invariant and the first two, is       *)
(* inductive: the walk needs the rings (its next pointer is read from      *)
(* one), and the rings need the types.  FullInv adds, for every chain,     *)
(* that the sequence read off its links has each of its rules once         *)
(* (ListsExact), and what is left to a walk, as a sequence cut out of that *)
(* one (WalkExact).  It rests on IInv for the nodes, not for the order:    *)
(* the order is followed edit by edit.                                     *)
(***************************************************************************)

EXTENDS ChainRules, ListLemmas

IInv == TypeOK /\ RingIntegrity /\ NoDanglingWalk

\* In the state of IInv the list_head fields are functions on the nodes.
LEMMA LinksOfNodes == TypeOK => Links(link, Nodes)
  BY DEF TypeOK, Links

\* In the beginning nothing is allocated.
LEMMA InitIInv == Init => IInv
  <1> SUFFICES ASSUME Init PROVE IInv
    OBVIOUS
  <1> USE NodesAssumption DEF Init
  <1>1. TypeOK
    BY DEF TypeOK, Nodes, Poisons, NoWalk
  <1>2. Linked = {}
    BY DEF Linked
  <1>3. RingIntegrity
    BY <1>2 DEF RingIntegrity, Ring
  <1>4. NoDanglingWalk
    BY DEF NoDanglingWalk, Open, NoWalk
  <1> QED BY <1>1, <1>3, <1>4 DEF IInv

\* What putting the unlisted rule r after the entry p of a list does.
LEMMA Put ==
    ASSUME IInv, NEW r \in Rules, NEW p \in Linked, Unlisted(r),
           link' = list_add_between(link, r, p, link.next[p]),
           home' = [home EXCEPT ![r] = Home(p)],
           live' = live,
           UNCHANGED walks
    PROVE  IInv'
  <1> USE NodesAssumption
  <1>1. TypeOK /\ RingIntegrity /\ NoDanglingWalk
    BY DEF IInv
  <1>2. Links(link, Nodes) /\ Ring(link, Linked) /\ Linked \in SUBSET Nodes
    BY <1>1, LinksOfNodes DEF RingIntegrity, Linked, Nodes
  <1>a. \A n \in Linked : n \in live /\ Home(n) \in live
    BY <1>1 DEF RingIntegrity
  <1>3. r \in Nodes \ Linked
    BY DEF Unlisted, Linked, Nodes
  <1>4. /\ Links(link', Nodes)
        /\ Ring(link', Linked \cup {r})
        /\ link'.next[r] = link.next[p]
        /\ link'.next[p] = r
        /\ \A n \in Linked \ {p} : link'.next[n] = link.next[n]
    BY <1>2, <1>3, AddBetween
  <1>5. Home(p) \in Chains \cap live /\ Home(p) # NULL
    BY <1>1, <1>a DEF Linked, Home, TypeOK, Nodes, Poisons
  <1>6. Linked' = Linked \cup {r}
    BY <1>1, <1>5 DEF Linked, TypeOK
  <1>7. /\ Home(r)' = Home(p)
        /\ \A n \in Linked : Home(n)' = Home(n)
    BY <1>1, <1>3, <1>5 DEF Linked, Home, TypeOK
  <1>8. TypeOK'
    <2>1. link' \in [next : [Nodes -> Nodes \cup Poisons],
                     prev : [Nodes -> Nodes \cup Poisons]]
      <3> DEFINE F == [Nodes -> Nodes \cup Poisons]
      <3>1. link.next \in F /\ link.prev \in F
        BY <1>1 DEF TypeOK
      <3>2. link.next[p] \in Nodes /\ p \in Nodes /\ r \in Nodes
        BY <1>2, <1>3 DEF Ring
      <3>3. [link.next EXCEPT ![r] = link.next[p], ![p] = r] \in F
        BY <3>1, <3>2
      <3>4. [link.prev EXCEPT ![link.next[p]] = r, ![r] = p] \in F
        BY <3>1, <3>2
      <3> QED BY <3>3, <3>4 DEF list_add_between
    <2> QED BY <2>1, <1>1, <1>5 DEF TypeOK, walks
  <1>9. RingIntegrity'
    <2>1. \A n \in Linked' : n \in live' /\ Home(n)' \in live'
      BY <1>a, <1>5, <1>6, <1>7 DEF Unlisted
    <2>2. ASSUME NEW n \in Linked \cup {r}
          PROVE  Home(link.next[n])' = Home(n)'
      <3>1. CASE n = r
        BY <3>1, <1>1, <1>2, <1>4, <1>7 DEF RingIntegrity, Ring
      <3>2. CASE n = p
        BY <3>2, <1>4, <1>7
      <3>3. CASE n \in Linked \ {p}
        BY <3>3, <1>1, <1>2, <1>4, <1>7 DEF RingIntegrity, Ring
      <3> QED BY <3>1, <3>2, <3>3
    <2> QED BY <2>1, <2>2, <1>4, <1>6 DEF RingIntegrity
  <1>10. NoDanglingWalk'
    BY <1>1, <1>6, <1>7 DEF NoDanglingWalk, Open, walks
  <1> QED BY <1>8, <1>9, <1>10 DEF IInv

\* A step that leaves the heap alone and makes the walk w stand on the node n
\* of the list of c, or closes it.
LEMMA MoveWalk ==
    ASSUME IInv, NEW w \in Walkers, UNCHANGED heap,
           NEW W \in [kind : {"none", "iter", "foreach"},
                      chain : Chains \cup {NULL}, saved : Nodes \cup {NULL}],
           walk' = [walk EXCEPT ![w] = W],
           W.kind # "none" =>
              /\ W.chain \in live
              /\ W.saved # NULL \/ W.kind = "foreach" =>
                    W.saved \in Linked /\ Home(W.saved) = W.chain,
           stable' \in [Walkers -> SUBSET Rules],
           seen' \in [Walkers -> Seq(Rules)]
    PROVE  IInv'
  <1>1. TypeOK'
    BY DEF IInv, TypeOK, heap
  <1>2. Linked' = Linked /\ \A n \in Nodes : Home(n)' = Home(n)
    BY DEF heap, Linked, Home
  <1>3. RingIntegrity'
    BY DEF IInv, RingIntegrity, heap, Linked, Home
  <1>4. NoDanglingWalk'
    BY <1>2 DEF IInv, TypeOK, NoDanglingWalk, Open, heap, Linked, Home
  <1> QED BY <1>1, <1>3, <1>4 DEF IInv

\* The next pointer of a linked node stays in its list.
LEMMA NextInList ==
    ASSUME IInv, NEW n \in Linked
    PROVE  link.next[n] \in Linked /\ Home(link.next[n]) = Home(n)
  BY DEF IInv, RingIntegrity, Ring

\* Deleting a rule no walk has saved.
LEMMA DelIInv ==
    ASSUME IInv, NEW r \in Rules, rule_del(r)
    PROVE  IInv'
  <1> USE NodesAssumption
  <1>1. TypeOK /\ RingIntegrity /\ NoDanglingWalk
    BY DEF IInv
  <1>2. Links(link, Nodes) /\ Ring(link, Linked) /\ Linked \in SUBSET Nodes
    BY <1>1, LinksOfNodes DEF RingIntegrity, Linked, Nodes
  <1>a. \A n \in Linked : n \in live /\ Home(n) \in live
    BY <1>1 DEF RingIntegrity
  <1>3. /\ r \in Linked
        /\ home[r] \in Chains /\ home[r] \notin Rules
        /\ Home(r) = home[r]
    BY <1>1 DEF rule_del, Linked, TypeOK, Home
  <1>4. /\ Links(link', Nodes)
        /\ Ring(link', Linked \ {r})
        /\ \A n \in Linked \ {r} :
              link'.next[n] \in {link.next[n], link.next[link.next[n]]}
    BY <1>2, <1>3, Del DEF rule_del
  <1>5. Linked' = Linked \ {r}
    BY <1>1, <1>3 DEF Linked, TypeOK, rule_del
  <1>6. \A n \in Linked \ {r} : Home(n)' = Home(n)
    BY <1>1 DEF Linked, Home, TypeOK, rule_del
  <1>7. TypeOK'
    <2>1. link' \in [next : [Nodes -> Nodes \cup Poisons],
                     prev : [Nodes -> Nodes \cup Poisons]]
      <3> DEFINE F == [Nodes -> Nodes \cup Poisons]
      <3>1. link.next \in F /\ link.prev \in F
        BY <1>1 DEF TypeOK
      <3>2. link.next[r] \in Nodes /\ link.prev[r] \in Nodes
        BY <1>2, <1>3 DEF Ring
      <3>3. [link.next EXCEPT ![link.prev[r]] = link.next[r], ![r] = POISON1] \in F
        BY <3>1, <3>2 DEF Poisons
      <3>4. [link.prev EXCEPT ![link.next[r]] = link.prev[r], ![r] = POISON2] \in F
        BY <3>1, <3>2 DEF Poisons
      <3> QED BY <3>3, <3>4 DEF list_del, rule_del
    <2>2. seen' \in [Walkers -> Seq(Rules)]
      BY <1>1, OnlyType DEF TypeOK, rule_del
    <2>3. /\ live' \subseteq Nodes
          /\ home' \in [Rules -> Chains \cup {NULL}]
          /\ stable' \in [Walkers -> SUBSET Rules]
      BY <1>1 DEF TypeOK, rule_del
    <2> QED BY <2>1, <2>2, <2>3, <1>1 DEF TypeOK, rule_del
  <1>8. RingIntegrity'
    <2>1. \A n \in Linked' : n \in live' /\ Home(n)' \in live'
      BY <1>a, <1>5, <1>6 DEF rule_del
    <2>2. ASSUME NEW n \in Linked \ {r}
          PROVE  Home(link.next[n])' = Home(n)'
      <3>1. link'.next[n] \in Linked \ {r}
        BY <1>4 DEF Ring
      <3>2. Home(link'.next[n]) = Home(n)
        BY <3>1, <1>1, <1>2, <1>3, <1>4 DEF RingIntegrity, Ring
      <3> QED BY <3>1, <3>2, <1>6
    <2> QED BY <2>1, <2>2, <1>4, <1>5 DEF RingIntegrity
  <1>9. NoDanglingWalk'
    BY <1>1, <1>5, <1>6 DEF NoDanglingWalk, Open, rule_del
  <1> QED BY <1>7, <1>8, <1>9 DEF IInv

\* Zeroing the memory of the nodes S, which no link of another list enters.
LEMMA Release ==
    ASSUME IInv, NEW S \in SUBSET Nodes,
           link' = Zero(S),
           live' \in SUBSET Nodes, live \ S \subseteq live',
           home' \in [Rules -> Chains \cup {NULL}],
           UNCHANGED walks,
           Linked' = Linked \ S,
           \A n \in Linked \ S : /\ Home(n)' = Home(n) /\ Home(n) \notin S
                                 /\ link.next[n] \notin S /\ link.prev[n] \notin S,
           \A w \in Walkers : Open(w) => /\ walk[w].chain \notin S
                                         /\ walk[w].saved \notin S
    PROVE  IInv'
  <1> USE NodesAssumption
  <1>1. TypeOK /\ RingIntegrity /\ NoDanglingWalk
    BY DEF IInv
  <1>2. Linked \subseteq Nodes
    BY DEF Linked, Nodes
  <1>3. \A n \in Nodes \ S : link'.next[n] = link.next[n] /\ link'.prev[n] = link.prev[n]
    BY DEF Zero
  <1>4. TypeOK'
    <2>1. link' \in [next : [Nodes -> Nodes \cup Poisons],
                     prev : [Nodes -> Nodes \cup Poisons]]
      BY <1>1 DEF TypeOK, Zero, Poisons
    <2> QED BY <2>1, <1>1 DEF TypeOK, walks
  <1>5. RingIntegrity'
    <2>1. \A n \in Linked' : n \in live' /\ Home(n)' \in live'
      BY <1>1 DEF RingIntegrity
    <2>2. Ring(link', Linked')
      BY <1>1, <1>2, <1>3 DEF RingIntegrity, Ring
    <2>3. \A n \in Linked' : Home(link.next[n])' = Home(n)'
      BY <1>1, <1>2, <1>3 DEF RingIntegrity, Ring
    <2> QED BY <2>1, <2>2, <2>3 DEF RingIntegrity
  <1>6. NoDanglingWalk'
    BY <1>1 DEF NoDanglingWalk, Open, walks
  <1> QED BY <1>4, <1>5, <1>6 DEF IInv

\* A new chain is a ring of its own.
LEMMA ChainAllocIInv ==
    ASSUME IInv, NEW c \in Chains, chain_alloc(c)
    PROVE  IInv'
  <1> USE NodesAssumption
  <1>1. TypeOK /\ RingIntegrity /\ NoDanglingWalk
    BY DEF IInv
  <1>2. Linked \subseteq Nodes /\ c \in Nodes \ Linked /\ c \notin Rules
    BY DEF Linked, Nodes, chain_alloc
  <1>3. Linked' = Linked \cup {c}
    BY DEF Linked, chain_alloc
  <1>4. /\ link'.next[c] = c /\ link'.prev[c] = c
        /\ \A n \in Linked : link'.next[n] = link.next[n] /\ link'.prev[n] = link.prev[n]
    BY <1>1, <1>2 DEF TypeOK, chain_alloc, INIT_LIST_HEAD
  <1>5. /\ Home(c)' = c
        /\ \A n \in Linked : Home(n)' = Home(n)
    BY <1>2 DEF Home, chain_alloc
  <1>6. TypeOK'
    <2>1. link' \in [next : [Nodes -> Nodes \cup Poisons],
                     prev : [Nodes -> Nodes \cup Poisons]]
      BY <1>1, <1>2 DEF TypeOK, chain_alloc, INIT_LIST_HEAD
    <2> QED BY <2>1, <1>1, <1>2 DEF TypeOK, chain_alloc, walks
  <1>7. RingIntegrity'
    <2>1. \A n \in Linked' : n \in live' /\ Home(n)' \in live'
      BY <1>1, <1>3, <1>5 DEF RingIntegrity, chain_alloc
    <2>2. Ring(link', Linked')
      BY <1>1, <1>2, <1>3, <1>4 DEF RingIntegrity, Ring
    <2>3. \A n \in Linked' : Home(link.next[n])' = Home(n)'
      BY <1>1, <1>3, <1>4, <1>5 DEF RingIntegrity, Ring
    <2> QED BY <2>1, <2>2, <2>3 DEF RingIntegrity
  <1>8. NoDanglingWalk'
    BY <1>1, <1>3, <1>5 DEF NoDanglingWalk, Open, chain_alloc, walks
  <1> QED BY <1>6, <1>7, <1>8 DEF IInv

\* chain_free releases the chain and every rule of its list.
LEMMA ChainFreeIInv ==
    ASSUME IInv, NEW c \in Chains, chain_free(c)
    PROVE  IInv'
  <1> USE NodesAssumption
  <1> DEFINE S == {c} \cup RulesOf(c)
  <1>1. TypeOK /\ RingIntegrity /\ NoDanglingWalk
    BY DEF IInv
  <1>2. c \notin Rules /\ S \subseteq Nodes /\ c # NULL
    BY DEF Nodes, RulesOf, Poisons
  <1>3. home' \in [Rules -> Chains \cup {NULL}]
    BY <1>1 DEF TypeOK, chain_free
  <1>4. Linked' = Linked \ S
    BY <1>1, <1>2, <1>3 DEF Linked, RulesOf, chain_free
  <1>5. \A n \in Linked : n \in S <=> Home(n) = c
    BY <1>2 DEF Linked, Home, RulesOf
  <1>6. ASSUME NEW n \in Linked \ S
        PROVE  /\ Home(n)' = Home(n) /\ Home(n) \notin S
               /\ link.next[n] \notin S /\ link.prev[n] \notin S
    <2>1. Home(n) # c
      BY <1>5
    <2>2. Home(n)' = Home(n)
      BY <2>1, <1>2 DEF Home, chain_free
    <2>3. Home(n) \notin S
      BY <2>1, <1>1, <1>2 DEF Home, Linked, RulesOf, TypeOK, Nodes, Poisons
    <2>4. link.next[n] \notin S /\ link.prev[n] \notin S
      BY <2>1, <1>1, <1>5 DEF RingIntegrity, Ring
    <2> QED BY <2>2, <2>3, <2>4
  <1>7. ASSUME NEW w \in Walkers, Open(w)
        PROVE  walk[w].chain \notin S /\ walk[w].saved \notin S
    <2>1. walk[w].chain \in Chains \cap live /\ walk[w].chain # c
      BY <1>1, <1>7 DEF NoDanglingWalk, TypeOK, chain_free, Open, Nodes, Poisons
    <2>2. walk[w].saved \notin S
      BY <2>1, <1>1, <1>2, <1>5, <1>7 DEF NoDanglingWalk, Nodes, Poisons
    <2> QED BY <2>1, <2>2 DEF RulesOf
  <1>8. /\ link' = Zero(S) /\ live' = live \ S /\ UNCHANGED walks
        /\ live \in SUBSET Nodes
    BY <1>1 DEF chain_free, TypeOK
  <1> HIDE DEF S
  <1> QED BY <1>2, <1>3, <1>4, <1>6, <1>7, <1>8, Release

\* One step of any call, per action of Next.
LEMMA NextIInv == IInv /\ [Next]_vars => IInv'
  <1> SUFFICES ASSUME IInv, [Next]_vars PROVE IInv'
    OBVIOUS
  <1> USE NodesAssumption
  <1>1. TypeOK /\ RingIntegrity /\ NoDanglingWalk
    BY DEF IInv
  <1>2. ASSUME NEW c \in Chains, chain_alloc(c) PROVE IInv'
    BY <1>2, ChainAllocIInv
  <1>3. ASSUME NEW c \in Chains, chain_free(c) PROVE IInv'
    BY <1>3, ChainFreeIInv
  <1>4. ASSUME NEW r \in Rules, rule_alloc(r) \/ rule_free(r) PROVE IInv'
    <2>1. r \notin Linked /\ r \in Nodes /\ r \notin Chains
      BY <1>1, <1>4 DEF Linked, rule_alloc, rule_free, Unlisted, RingIntegrity, Nodes
    <2>2. Linked' = Linked \ {r} /\ Linked' = Linked
      BY <2>1, <1>4 DEF Linked, rule_alloc, rule_free
    <2>3. ASSUME NEW n \in Linked \ {r}
          PROVE  /\ Home(n)' = Home(n) /\ Home(n) \notin {r}
                 /\ link.next[n] \notin {r} /\ link.prev[n] \notin {r}
      <3>1. link.next[n] \in Linked /\ link.prev[n] \in Linked
        BY <1>1 DEF RingIntegrity, Ring
      <3>2. Home(n)' = Home(n)
        BY <1>4 DEF Home, rule_alloc, rule_free
      <3>3. Home(n) # r
        BY <1>1, <2>1 DEF Home, Linked, TypeOK, Nodes, Poisons
      <3> QED BY <3>1, <3>2, <3>3, <2>1
    <2>4. ASSUME NEW w \in Walkers, Open(w)
          PROVE  walk[w].chain \notin {r} /\ walk[w].saved \notin {r}
      BY <2>1, <2>4, <1>1 DEF NoDanglingWalk, TypeOK, Nodes, Poisons
    <2>5. /\ link' = Zero({r}) /\ UNCHANGED walks
          /\ live' \in SUBSET Nodes /\ live \ {r} \subseteq live'
          /\ home' \in [Rules -> Chains \cup {NULL}]
      BY <2>1, <1>1, <1>4 DEF TypeOK, rule_alloc, rule_free
    <2> HIDE DEF IInv
    <2> QED BY <2>1, <2>2, <2>3, <2>4, <2>5, Release
  <1>5. ASSUME NEW r \in Rules, rule_del(r) PROVE IInv'
    BY <1>5, DelIInv
  <1>6. ASSUME NEW r \in Rules, NEW c \in Chains, rule_add(r, c) PROVE IInv'
    <2>1. c \in Linked /\ Home(c) = c
      BY <1>6 DEF rule_add, Linked, Home
    <2> QED BY <2>1, <1>6, Put DEF rule_add, list_add
  <1>7. ASSUME NEW r \in Rules, NEW c \in Chains, rule_add_tail(r, c) PROVE IInv'
    <2>1. c \in Linked /\ Home(c) = c
      BY <1>7 DEF rule_add_tail, Linked, Home
    <2>2. /\ link.prev[c] \in Linked
          /\ link.next[link.prev[c]] = c
          /\ Home(link.prev[c]) = c
      BY <2>1, <1>1 DEF RingIntegrity, Ring
    <2> QED BY <2>2, <1>7, Put DEF rule_add_tail, list_add_tail
  <1>8. ASSUME NEW r \in Rules, NEW pos \in Rules, rule_insert_at(r, pos) PROVE IInv'
    <2>1. pos \in Linked /\ Home(pos) = home[pos]
      BY <1>8 DEF rule_insert_at, Linked, Home
    <2>2. /\ link.prev[pos] \in Linked
          /\ link.next[link.prev[pos]] = pos
          /\ Home(link.prev[pos]) = home[pos]
      BY <2>1, <1>1 DEF RingIntegrity, Ring
    <2> QED BY <2>2, <1>8, Put DEF rule_insert_at, list_add_tail
  <1>9. ASSUME NEW r \in Rules, NEW pos \in Rules, rule_append_at(r, pos) PROVE IInv'
    <2>1. pos \in Linked /\ Home(pos) = home[pos]
      BY <1>9 DEF rule_append_at, Linked, Home
    <2> QED BY <2>1, <1>9, Put DEF rule_append_at, list_add
  <1>10. ASSUME UNCHANGED << heap, walks >> PROVE IInv'
    BY <1>1, <1>10 DEF IInv, TypeOK, RingIntegrity, NoDanglingWalk, Linked, Home,
                       Open, heap, walks, Ring
  <1>11. ASSUME NEW w \in Walkers, NEW c \in Chains,
                iter_create(w, c) \/ foreach_start(w, c)
         PROVE  IInv'
    <2>1. /\ c \in Linked /\ Home(c) = c /\ c \in live
          /\ link.next[c] \in Linked /\ Home(link.next[c]) = c
      BY <1>11, NextInList DEF iter_create, foreach_start, Linked, Home
    <2>2. UNCHANGED heap /\ stable' \in [Walkers -> SUBSET Rules]
                         /\ seen' \in [Walkers -> Seq(Rules)]
      <3>1. UNCHANGED heap
        BY <1>11 DEF iter_create, foreach_start
      <3>2. NewLap(w, c)
        BY <1>11 DEF iter_create, foreach_start
      <3> QED BY <3>1, <3>2, <1>1 DEF NewLap, TypeOK, RulesOf
    <2>3. Linked \subseteq Nodes
      BY DEF Linked, Nodes
    <2>4. PICK k \in {"iter", "foreach"}, s \in {NULL, link.next[c]} :
             /\ k = "foreach" => s = link.next[c]
             /\ walk' = [walk EXCEPT ![w] = [kind |-> k, chain |-> c, saved |-> s]]
      BY <1>11 DEF iter_create, foreach_start
    <2> QED BY <2>1, <2>2, <2>3, <2>4, MoveWalk
  <1>12. ASSUME NEW w \in Walkers, foreach_next(w) \/ iter_next(w) \/ iter_end(w)
         PROVE  IInv'
    <2> DEFINE n == walk[w].saved
               W == At(w, link.next[n])
    <2>1. Open(w) /\ n # NULL
      <3>1. CASE iter_next(w) \/ iter_end(w)
        BY <3>1 DEF iter_next, iter_end, Open
      <3>2. CASE foreach_next(w)
        <4>1. Open(w) /\ n \in Linked
          BY <3>2, <1>1 DEF foreach_next, Open, NoDanglingWalk
        <4> QED BY <4>1, <1>1 DEF Linked, TypeOK, Nodes, Poisons
      <3> QED BY <1>12, <3>1, <3>2
    <2>2. /\ W = [kind |-> walk[w].kind, chain |-> walk[w].chain, saved |-> link.next[n]]
          /\ walk[w] \in [kind : {"none", "iter", "foreach"},
                           chain : Chains \cup {NULL}, saved : Nodes \cup {NULL}]
          /\ walk[w].chain \in live
          /\ n \in Linked /\ Home(n) = walk[w].chain
      BY <2>1, <1>1 DEF NoDanglingWalk, TypeOK, At
    <2>3. /\ link.next[n] \in Linked
          /\ Home(link.next[n]) = walk[w].chain
          /\ link.next[n] \in Nodes
      BY <2>2, NextInList DEF Linked, Nodes
    <2>4. /\ walk' = [walk EXCEPT ![w] = W]
          /\ UNCHANGED heap
      BY <1>1, <1>12 DEF foreach_next, iter_next, iter_end, HandOut, TypeOK
    <2>5. stable' \in [Walkers -> SUBSET Rules] /\ seen' \in [Walkers -> Seq(Rules)]
      <3>1. CASE foreach_next(w) \/ iter_next(w)
        <4>1. n \in stable[w] => Append(seen[w], n) \in Seq(Rules)
          BY <1>1 DEF TypeOK
        <4>2. HandOut(w)
          BY <3>1 DEF foreach_next, iter_next
        <4> QED BY <4>1, <4>2, <1>1 DEF HandOut, TypeOK
      <3>2. CASE iter_end(w)
        BY <3>2, <1>1 DEF iter_end, NewLap, TypeOK, RulesOf
      <3> QED BY <1>12, <3>1, <3>2
    <2> QED BY <2>2, <2>3, <2>4, <2>5, MoveWalk
  <1>13. ASSUME NEW w \in Walkers, walk_close(w) PROVE IInv'
    <2>1. /\ walk' = [walk EXCEPT ![w] = NoWalk]
          /\ UNCHANGED heap
          /\ stable' \in [Walkers -> SUBSET Rules] /\ seen' \in [Walkers -> Seq(Rules)]
      BY <1>1, <1>13 DEF walk_close, TypeOK
    <2>2. NoWalk \in [kind : {"none", "iter", "foreach"},
                      chain : Chains \cup {NULL}, saved : Nodes \cup {NULL}]
      BY DEF NoWalk
    <2>3. NoWalk.kind = "none"
      BY DEF NoWalk
    <2> QED BY <2>1, <2>2, <2>3, MoveWalk
  <1> QED
    BY <1>2, <1>3, <1>4, <1>5, <1>6, <1>7, <1>8, <1>9, <1>10, <1>11, <1>12, <1>13
       DEF Next, vars, heap, walks, lookup_byindex, iter_null

-------------------------------------------------------------------------------
(* A walk and the edits of the list it is in.  s is the list of the chain  *)
(* c, T the rules the walk must hand out, done those it has handed out and *)
(* r the rule it has saved.                                                *)

\* What is ahead begins at the position of the saved rule.
LEMMA AheadIs ==
    ASSUME NEW S, NEW s \in Seq(S), IsInjective(s), NEW k \in 1 .. Len(s),
           NEW c, s[k] \notin {NULL, c}
    PROVE  Ahead(s, c, s[k]) = SubSeq(s, k, Len(s))
  <1> DEFINE I == {i \in 1 .. Len(s) : s[i] = s[k]}
  <1>1. Len(s) \in Nat /\ k \in Int /\ DOMAIN s = 1 .. Len(s)
    OBVIOUS
  <1>2. I = {k}
    BY <1>1 DEF IsInjective
  <1>3. SelectInSeq(s, LAMBDA x : x = s[k]) = IF I # {} THEN Min(I) ELSE 0
    BY DEF SelectInSeq
  <1>4. Min({k}) = k
    BY <1>1 DEF Min
  <1>5. SelectInSeq(s, LAMBDA x : x = s[k]) = k
    BY <1>2, <1>3, <1>4
  <1> QED BY <1>5 DEF Ahead

\* What is ahead is a sequence of the same rules.
LEMMA AheadType ==
    ASSUME NEW S, NEW s \in Seq(S), IsInjective(s), NEW c,
           NEW r, r \in {NULL, c} \cup ToSet(s)
    PROVE  Ahead(s, c, r) \in Seq(S)
  <1>1. CASE r \in {NULL, c}
    BY <1>1 DEF Ahead
  <1>2. CASE r \notin {NULL, c}
    <2>1. PICK k \in 1 .. Len(s) : s[k] = r
      BY <1>2 DEF ToSet
    <2>2. Ahead(s, c, r) = SubSeq(s, k, Len(s))
      BY <1>2, <2>1, AheadIs
    <2>3. k \in 1 .. Len(s) + 1 /\ Len(s) \in k - 1 .. Len(s)
      OBVIOUS
    <2> QED BY <2>2, <2>3, Part
  <1> QED BY <1>1, <1>2

\* A new lap has everything ahead of it.
LEMMA ExactStart ==
    ASSUME NEW S, NEW s \in Seq(S), IsInjective(s), NEW c, NULL \notin S, c \notin S,
           NEW r, r = IF s = <<>> THEN c ELSE s[1], NEW T
    PROVE  Exact(s, T, <<>>, c, r)
  <1>1. Ahead(s, c, r) = s
    <2>1. CASE s = <<>>
      BY <2>1 DEF Ahead
    <2>2. CASE s # <<>>
      <3>1. Len(s) \in Nat /\ 1 \in 1 .. Len(s) /\ s[1] \in S
        BY <2>2, EmptySeq
      <3>2. Ahead(s, c, s[1]) = SubSeq(s, 1, Len(s))
        BY <3>1, AheadIs
      <3>3. SubSeq(s, 1, Len(s)) = s
        BY SubSeqFull
      <3> QED BY <2>2, <3>2, <3>3
    <2> QED BY <2>1, <2>2
  <1>2. <<>> \o Only(s, T) = Only(s, T)
    BY OnlyType, ConcatEmptySeq
  <1> QED BY <1>1, <1>2 DEF Exact

\* An iterator over an empty list has nothing to hand out.
LEMMA ExactNull ==
    ASSUME NEW c, NEW T
    PROVE  Exact(<<>>, T, <<>>, c, NULL)
  <1>1. Ahead(<<>>, c, NULL) = <<>>
    BY DEF Ahead
  <1> QED BY <1>1, OnlyOfEmpty DEF Exact

\* Handing out the saved rule moves it from what is ahead to what is done.
LEMMA ExactHandOut ==
    ASSUME NEW S, NEW s \in Seq(S), IsInjective(s), NEW c, NULL \notin S, c \notin S,
           NEW T, NEW done \in Seq(S), NEW k \in 1 .. Len(s),
           Exact(s, T, done, c, s[k]),
           NEW n, n = IF k = Len(s) THEN c ELSE s[k + 1]
    PROVE  Exact(s, T, IF s[k] \in T THEN Append(done, s[k]) ELSE done, c, n)
  <1>0. PICK e, rest, one : e = s[k] /\ rest = SubSeq(s, k + 1, Len(s)) /\ one = << s[k] >>
    OBVIOUS
  <1>1. Len(s) \in Nat /\ k \in Int /\ 1 <= k /\ k <= Len(s) /\ e \in S
    BY <1>0
  <1>2. Ahead(s, c, e) = one \o rest
    <2>1. Ahead(s, c, e) = SubSeq(s, k, Len(s))
      BY <1>0, <1>1, AheadIs
    <2>2. SubSeq(s, k, Len(s)) = one \o rest
      BY <1>0, <1>1, SubSeqRecursiveFirst
    <2> QED BY <2>1, <2>2
  <1>3. Ahead(s, c, n) = rest
    <2>1. CASE k = Len(s)
      <3>1. SubSeq(s, Len(s) + 1, Len(s)) = <<>>
        BY <1>1, SubSeqEmpty
      <3> QED BY <1>0, <2>1, <3>1 DEF Ahead
    <2>2. CASE k # Len(s)
      <3>1. k + 1 \in 1 .. Len(s)
        BY <1>1, <2>2
      <3>2. n = s[k + 1] /\ s[k + 1] \in S
        BY <2>2, <3>1
      <3> QED BY <1>0, <3>1, <3>2, AheadIs
    <2> QED BY <2>1, <2>2
  <1>4. rest \in Seq(S) /\ one \in Seq(S)
    <2>1. k + 1 \in 1 .. Len(s) + 1 /\ Len(s) \in (k + 1) - 1 .. Len(s)
      BY <1>1
    <2> QED BY <1>0, <1>1, <2>1, Part
  <1>5. Only(one, T) = IF e \in T THEN one ELSE <<>>
    BY <1>0, <1>1, OnlyOne
  <1>6. Only(one \o rest, T) = Only(one, T) \o Only(rest, T)
    <2>1. \A x, y \in Seq(S) : Only(x \o y, T) = Only(x, T) \o Only(y, T)
      BY OnlyConcat
    <2> QED BY <1>4, <2>1
  <1>7. Only(rest, T) \in Seq(S)
    BY <1>4, OnlyType
  <1>8. Only(s, T) = done \o (Only(one, T) \o Only(rest, T))
    BY <1>0, <1>2, <1>6 DEF Exact
  <1>9. CASE e \in T
    <2>1. \A x \in Seq(S) : Append(done, e) \o x = done \o (<< e >> \o x)
      BY <1>1, MoveOver
    <2>2. Append(done, e) \o Only(rest, T) = done \o (one \o Only(rest, T))
      BY <1>0, <1>7, <2>1
    <2>3. Only(s, T) = Append(done, e) \o Only(rest, T)
      BY <1>5, <1>8, <1>9, <2>2
    <2> QED BY <1>0, <1>3, <1>9, <2>3 DEF Exact
  <1>10. CASE e \notin T
    <2>1. <<>> \o Only(rest, T) = Only(rest, T)
      BY <1>7, ConcatEmptySeq
    <2>2. Only(s, T) = done \o Only(rest, T)
      BY <1>5, <1>8, <1>10, <2>1
    <2> QED BY <1>0, <1>3, <1>10, <2>2 DEF Exact
  <1> QED BY <1>9, <1>10

\* A rule put into the list is none of those the walk must hand out.
LEMMA ExactInsert ==
    ASSUME NEW S, NEW s \in Seq(S), IsInjective(s), NEW c, NULL \notin S, c \notin S,
           NEW r, r \in {NULL, c} \cup ToSet(s),
           NEW T, NEW done \in Seq(S), Exact(s, T, done, c, r),
           NEW e \in S, e \notin T, NEW i \in 1 .. Len(s) + 1,
           NEW t, t = InsertAt(s, i, e), IsInjective(t)
    PROVE  Exact(t, T, done, c, r)
  <1>1. Only(t, T) = Only(s, T)
    BY OnlyInsert
  <1>2. Only(Ahead(t, c, r), T) = Only(Ahead(s, c, r), T)
    <2>1. CASE r \in {NULL, c}
      BY <2>1 DEF Ahead
    <2>2. CASE r \notin {NULL, c}
      <3>1. PICK k \in 1 .. Len(s) : s[k] = r
        BY <2>2 DEF ToSet
      <3>0. PICK rest : rest = SubSeq(s, k, Len(s))
        OBVIOUS
      <3>2. Ahead(s, c, r) = rest
        BY <2>2, <3>0, <3>1, AheadIs
      <3>3. Len(s) \in Nat /\ k \in Int /\ i \in Int /\ 1 <= k /\ k <= Len(s)
        OBVIOUS
      <3>4. /\ t \in Seq(S) /\ Len(t) = Len(s) + 1
            /\ \A j \in 1 .. i - 1 : t[j] = s[j]
            /\ \A j \in i + 1 .. Len(s) + 1 : t[j] = s[j - 1]
        <4>1. t \in Seq(S) /\ Inserted(t, s, i, e)
          BY InsertAtProperties
        <4> QED BY <4>1 DEF Inserted
      <3>5. /\ i <= k => SubSeq(t, k + 1, Len(t)) = rest
            /\ i > k => /\ i - k + 1 \in 1 .. Len(rest) + 1
                        /\ SubSeq(t, k, Len(t)) = InsertAt(rest, i - k + 1, e)
        <4>1. RestInserted(t, rest, k, i, e)
          BY <3>0, InsertAtRest
        <4> QED BY <4>1 DEF RestInserted
      <3>6. rest \in Seq(S)
        <4>1. k \in 1 .. Len(s) + 1 /\ Len(s) \in k - 1 .. Len(s)
          BY <3>3
        <4> QED BY <3>0, <4>1, Part
      <3>7. CASE i <= k
        <4>1. k + 1 \in i + 1 .. Len(s) + 1 /\ k + 1 \in 1 .. Len(t) /\ (k + 1) - 1 = k
          BY <3>3, <3>4, <3>7
        <4>2. t[k + 1] = r
          BY <3>1, <3>4, <4>1
        <4>3. Ahead(t, c, r) = SubSeq(t, k + 1, Len(t))
          BY <2>2, <3>4, <4>1, <4>2, AheadIs
        <4> QED BY <3>2, <3>5, <3>7, <4>3
      <3>8. CASE i > k
        <4>1. k \in 1 .. i - 1 /\ k \in 1 .. Len(t)
          BY <3>3, <3>4, <3>8
        <4>2. t[k] = r
          BY <3>1, <3>4, <4>1
        <4>3. Ahead(t, c, r) = SubSeq(t, k, Len(t))
          BY <2>2, <3>4, <4>1, <4>2, AheadIs
        <4>4. PICK d : d \in 1 .. Len(rest) + 1 /\ Ahead(t, c, r) = InsertAt(rest, d, e)
          BY <3>5, <3>8, <4>3
        <4>5. Only(InsertAt(rest, d, e), T) = Only(rest, T)
          BY <3>6, <4>4, OnlyInsert
        <4> QED BY <3>2, <4>4, <4>5
      <3> QED BY <3>3, <3>7, <3>8
    <2> QED BY <2>1, <2>2
  <1> QED BY <1>1, <1>2 DEF Exact

\* So is a rule taken out of it, once it is no longer to be handed out.
LEMMA ExactRemove ==
    ASSUME NEW S, NEW s \in Seq(S), IsInjective(s), NEW c, NULL \notin S, c \notin S,
           NEW r, r \in {NULL, c} \cup ToSet(s),
           NEW T, NEW done \in Seq(S), Exact(s, T, done, c, r),
           NEW i \in 1 .. Len(s), s[i] \notin T, s[i] # r,
           NEW t, t = RemoveAt(s, i), IsInjective(t)
    PROVE  Exact(t, T, done, c, r)
  <1>1. Only(t, T) = Only(s, T)
    BY OnlyRemove
  <1>2. Only(Ahead(t, c, r), T) = Only(Ahead(s, c, r), T)
    <2>1. CASE r \in {NULL, c}
      BY <2>1 DEF Ahead
    <2>2. CASE r \notin {NULL, c}
      <3>1. PICK k \in 1 .. Len(s) : s[k] = r
        BY <2>2 DEF ToSet
      <3>0. PICK rest : rest = SubSeq(s, k, Len(s))
        OBVIOUS
      <3>2. Ahead(s, c, r) = rest
        BY <2>2, <3>0, <3>1, AheadIs
      <3>3. /\ Len(s) \in Nat /\ k \in Int /\ i \in Int /\ 1 <= k /\ k <= Len(s)
            /\ 1 <= i /\ i <= Len(s) /\ k # i
        BY <3>1
      <3>4. /\ t \in Seq(S) /\ Len(t) = Len(s) - 1
            /\ \A j \in 1 .. i - 1 : t[j] = s[j]
            /\ \A j \in i .. Len(s) - 1 : t[j] = s[j + 1]
        <4>1. t \in Seq(S) /\ Removed(t, s, i)
          BY RemoveAtProperties
        <4> QED BY <4>1 DEF Removed
      <3>5. /\ i < k => SubSeq(t, k - 1, Len(t)) = rest
            /\ i > k => /\ i - k + 1 \in 1 .. Len(rest)
                        /\ SubSeq(t, k, Len(t)) = RemoveAt(rest, i - k + 1)
        <4>1. RestRemoved(t, rest, k, i)
          BY <3>0, RemoveAtRest
        <4> QED BY <4>1 DEF RestRemoved
      <3>6. /\ rest \in Seq(S) /\ Len(rest) = Len(s) - k + 1
            /\ \A j \in 1 .. Len(s) - k + 1 : rest[j] = s[k + j - 1]
        <4>1. k \in 1 .. Len(s) + 1 /\ Len(s) \in k - 1 .. Len(s)
          BY <3>3
        <4> QED BY <3>0, <4>1, Part
      <3>7. CASE i < k
        <4>1. k - 1 \in i .. Len(s) - 1 /\ k - 1 \in 1 .. Len(t) /\ (k - 1) + 1 = k
          BY <3>3, <3>4, <3>7
        <4>2. t[k - 1] = r
          BY <3>1, <3>4, <4>1
        <4>3. Ahead(t, c, r) = SubSeq(t, k - 1, Len(t))
          BY <2>2, <3>4, <4>1, <4>2, AheadIs
        <4> QED BY <3>2, <3>5, <3>7, <4>3
      <3>8. CASE i > k
        <4>1. k \in 1 .. i - 1 /\ k \in 1 .. Len(t)
          BY <3>3, <3>4, <3>8
        <4>2. t[k] = r
          BY <3>1, <3>4, <4>1
        <4>3. Ahead(t, c, r) = SubSeq(t, k, Len(t))
          BY <2>2, <3>4, <4>1, <4>2, AheadIs
        <4>4. PICK d : d = i - k + 1
          OBVIOUS
        <4>5. d \in 1 .. Len(rest) /\ Ahead(t, c, r) = RemoveAt(rest, d)
          BY <3>5, <3>8, <4>3, <4>4
        <4>6. rest[d] = s[i]
          <5>1. d \in 1 .. Len(s) - k + 1 /\ k + d - 1 = i
            BY <3>3, <3>8, <4>4
          <5> QED BY <3>6, <5>1
        <4>7. Only(RemoveAt(rest, d), T) = Only(rest, T)
          BY <3>6, <4>5, <4>6, OnlyRemove
        <4> QED BY <3>2, <4>5, <4>7
      <3> QED BY <3>3, <3>7, <3>8
    <2> QED BY <2>1, <2>2
  <1> QED BY <1>1, <1>2 DEF Exact

\* A rule that is no longer to be handed out is forgotten on both sides.
LEMMA ExactForget ==
    ASSUME NEW S, NEW s \in Seq(S), IsInjective(s), NEW c,
           NEW r, r \in {NULL, c} \cup ToSet(s),
           NEW T, NEW done \in Seq(S), Exact(s, T, done, c, r), NEW e
    PROVE  Exact(s, T \ {e}, Only(done, S \ {e}), c, r)
  <1> DEFINE a == Ahead(s, c, r)
             U == S \ {e}
             p == Only(a, T)
  <1>1. a \in Seq(S)
    BY AheadType
  <1>2. ASSUME NEW q \in Seq(S) PROVE Only(Only(q, T), U) = Only(q, T \ {e})
    <2>1. Only(Only(q, T), U) = Only(q, T \cap U)
      BY OnlyTwice
    <2>2. S \cap (T \cap U) = S \cap (T \ {e})
      OBVIOUS
    <2>3. Only(q, T \cap U) = Only(q, T \ {e})
      BY <2>2, OnlySame
    <2> QED BY <2>1, <2>3
  <1>3. p \in Seq(S)
    BY <1>1, OnlyType
  <1>4. Only(s, T) = done \o p
    BY DEF Exact
  <1> HIDE DEF p, U
  <1>5. Only(done \o p, U) = Only(done, U) \o Only(p, U)
    BY <1>3, OnlyConcat
  <1>6. Only(p, U) = Only(a, T \ {e})
    BY <1>1, <1>2 DEF p
  <1>7. Only(s, T \ {e}) = Only(done, U) \o Only(a, T \ {e})
    BY <1>2, <1>4, <1>5, <1>6
  <1> QED BY <1>7 DEF Exact, U

-------------------------------------------------------------------------------
(* What every call does to the lists, as sequences.                        *)

\* The list of every chain holds its rules, each once.
ListsExact ==
    \A c \in Chains \cap live : IsList(link, c, RuleList(c), RulesOf(c))

\* A walk is only meant to hand out rules that are still in its list.
StableListed ==
    \A w \in Walkers : Open(w) => stable[w] \subseteq RulesOf(walk[w].chain)

FullInv == IInv /\ ListsExact /\ StableListed /\ WalkExact

\* After the step the list of c is the sequence t and all others are as before.
ListBecomes(c, t) ==
    /\ ListsExact'
    /\ RingFrom(link', c, Cardinality(Rules)) = t
    /\ \A d \in (Chains \cap live') \ {c} :
          d \in live /\ RingFrom(link', d, Cardinality(Rules)) = RuleList(d)

\* What a loop over the list of a chain finds.
LEMMA ListIs ==
    ASSUME NEW l, DOMAIN l.next = Nodes, NEW c \in Chains, NEW R \in SUBSET Rules,
           NEW s, IsList(l, c, s, R)
    PROVE  /\ RingFrom(l, c, Cardinality(Rules)) = s
           /\ Len(s) = Cardinality(R)
           /\ ToSet(s) = R
  <1>1. R \in SUBSET DOMAIN l.next /\ c \notin R /\ R \subseteq Rules
    BY NodesAssumption DEF Nodes
  <1> QED BY <1>1, ListFollowed, FiniteAssumption

\* The list of a chain in the state of the invariant.
LEMMA InList ==
    ASSUME TypeOK, ListsExact, NEW c \in Chains \cap live
    PROVE  /\ RuleList(c) \in Seq(RulesOf(c)) /\ RuleList(c) \in Seq(Rules)
           /\ IsInjective(RuleList(c))
           /\ ToSet(RuleList(c)) = RulesOf(c)
           /\ Len(RuleList(c)) = Cardinality(RulesOf(c))
           /\ NULL \notin Rules /\ c \notin Rules
  <1>1. IsList(link, c, RuleList(c), RulesOf(c))
    BY DEF ListsExact
  <1>2. RuleList(c) \in Seq(RulesOf(c)) /\ IsInjective(RuleList(c))
    BY <1>1 DEF IsList
  <1>3. RulesOf(c) \subseteq Rules /\ DOMAIN link.next = Nodes
    BY DEF RulesOf, TypeOK
  <1>4. RuleList(c) \in Seq(Rules)
    BY <1>2, <1>3, SeqMonotonic
  <1>5. ToSet(RuleList(c)) = RulesOf(c) /\ Len(RuleList(c)) = Cardinality(RulesOf(c))
    BY <1>1, <1>3, ListIs
  <1> QED BY <1>2, <1>4, <1>5, NodesAssumption DEF Nodes, Poisons

\* To know the lists after a step it is enough to name them.
LEMMA ListsAre ==
    ASSUME TypeOK', NEW c, NEW t,
           \A d \in Chains \cap live' :
              /\ d # c => d \in live
              /\ IsList(link', d, IF d = c THEN t ELSE RuleList(d),
                        {r \in Rules : home'[r] = d}),
           c \in Chains \cap live'
    PROVE  ListBecomes(c, t)
  <1>1. DOMAIN link'.next = Nodes
    BY DEF TypeOK
  <1>2. \A d \in Chains \cap live' :
           RingFrom(link', d, Cardinality(Rules)) = IF d = c THEN t ELSE RuleList(d)
    BY <1>1, ListIs
  <1>3. ListsExact'
    BY <1>2 DEF ListsExact, RuleList, RulesOf
  <1> QED BY <1>2, <1>3 DEF ListBecomes

\* A step that leaves the links of the remaining lists alone.
LEMMA ListsKept ==
    ASSUME TypeOK', ListsExact,
           \A d \in Chains \cap live' :
              /\ d \in live
              /\ {r \in Rules : home'[r] = d} = RulesOf(d)
              /\ \A n \in RulesOf(d) \cup {d} : link'.next[n] = link.next[n]
    PROVE  /\ ListsExact'
           /\ \A d \in Chains \cap live' : RingFrom(link', d, Cardinality(Rules)) = RuleList(d)
  <1>1. DOMAIN link'.next = Nodes
    BY DEF TypeOK
  <1>2. \A d \in Chains \cap live' :
           IsList(link', d, RuleList(d), {r \in Rules : home'[r] = d})
    BY ListUnchanged DEF ListsExact
  <1>3. \A d \in Chains \cap live' : RingFrom(link', d, Cardinality(Rules)) = RuleList(d)
    BY <1>1, <1>2, ListIs
  <1>4. ListsExact'
    BY <1>2, <1>3 DEF ListsExact, RuleList, RulesOf
  <1> QED BY <1>3, <1>4

\* An unlisted rule linked behind an entry of a list, or behind its head.
LEMMA PutLists ==
    ASSUME IInv, ListsExact, TypeOK',
           NEW r \in Rules, Unlisted(r), NEW c \in Chains \cap live,
           NEW i \in 1 .. Len(RuleList(c)) + 1,
           NEW p, p = Before(c, RuleList(c), i),
           link' = list_add_between(link, r, p, link.next[p]),
           home' = [home EXCEPT ![r] = c], live' = live
    PROVE  ListBecomes(c, InsertAt(RuleList(c), i, r))
  <1> USE NodesAssumption
  <1>1. TypeOK /\ RingIntegrity
    BY DEF IInv
  <1>2. Links(link, Nodes) /\ Ring(link, Linked) /\ Linked \in SUBSET Nodes
    BY <1>1, LinksOfNodes DEF RingIntegrity, Linked, Nodes
  <1>3. \A d \in Chains \cap live : RulesOf(d) \cup {d} \subseteq Linked /\ d \notin Rules
    BY <1>1 DEF RulesOf, Linked, Nodes, Poisons
  <1>4. IsList(link, c, RuleList(c), RulesOf(c))
    BY DEF ListsExact
  <1>5. p \in RulesOf(c) \cup {c}
    BY <1>2, <1>3, <1>4, ListPrev
  <1>6. r \in Nodes \ Linked /\ p \in Linked
    BY <1>3, <1>5 DEF Unlisted, Linked, Nodes
  <1>7. /\ link'.next[r] = link.next[p]
        /\ link'.next[p] = r
        /\ \A n \in Linked \ {p} : link'.next[n] = link.next[n]
    <2>1. link'.next = [link.next EXCEPT ![r] = link.next[p], ![p] = r]
      BY DEF list_add_between
    <2> QED BY <1>2, <1>6, <2>1 DEF Links
  <1>8. IsList(link', c, InsertAt(RuleList(c), i, r), RulesOf(c) \cup {r})
    <2>1. c \notin RulesOf(c) /\ r \notin RulesOf(c) \cup {c}
      BY <1>3, <1>6 DEF RulesOf
    <2>2. \A n \in (RulesOf(c) \cup {c}) \ {p} : link'.next[n] = link.next[n]
      BY <1>3, <1>7
    <2> QED BY <1>4, <1>7, <2>1, <2>2, ListInsert
  <1>9. {q \in Rules : home'[q] = c} = RulesOf(c) \cup {r}
    BY <1>1 DEF TypeOK, RulesOf
  <1>10. ASSUME NEW d \in Chains \cap live, d # c
         PROVE  IsList(link', d, RuleList(d), {q \in Rules : home'[q] = d})
    <2>1. IsList(link, d, RuleList(d), RulesOf(d))
      BY DEF ListsExact
    <2>2. {q \in Rules : home'[q] = d} = RulesOf(d)
      BY <1>1, <1>10 DEF TypeOK, RulesOf, Unlisted, Nodes, Poisons
    <2>3. p \notin RulesOf(d) \cup {d}
      BY <1>3, <1>5, <1>10 DEF RulesOf
    <2>4. \A n \in RulesOf(d) \cup {d} : link'.next[n] = link.next[n]
      BY <1>3, <1>7, <2>3
    <2>5. IsList(link', d, RuleList(d), RulesOf(d))
      BY <2>1, <2>4, ListUnchanged
    <2> QED BY <2>2, <2>5
  <1>11. PICK t : t = InsertAt(RuleList(c), i, r)
    OBVIOUS
  <1>12. \A d \in Chains \cap live' :
            /\ d # c => d \in live
            /\ IsList(link', d, IF d = c THEN t ELSE RuleList(d),
                      {q \in Rules : home'[q] = d})
    BY <1>8, <1>9, <1>10, <1>11
  <1>13. ListBecomes(c, t)
    BY <1>12, ListsAre
  <1> QED BY <1>11, <1>13

\* A listed rule is taken out of its list at its position.
LEMMA DelLists ==
    ASSUME IInv, ListsExact, TypeOK', NEW r \in Rules, rule_del(r)
    PROVE  /\ home[r] \in Chains \cap live
           /\ \E i \in 1 .. Len(RuleList(home[r])) :
                 /\ RuleList(home[r])[i] = r
                 /\ ListBecomes(home[r], RemoveAt(RuleList(home[r]), i))
  <1> USE NodesAssumption
  <1>1. TypeOK /\ RingIntegrity
    BY DEF IInv
  <1>2. Links(link, Nodes) /\ Ring(link, Linked) /\ Linked \in SUBSET Nodes
    BY <1>1, LinksOfNodes DEF RingIntegrity, Linked, Nodes
  <1>3. \A d \in Chains \cap live : RulesOf(d) \cup {d} \subseteq Linked /\ d \notin Rules
    BY <1>1 DEF RulesOf, Linked, Nodes, Poisons
  <1>4. r \in Linked /\ Home(r) = home[r] /\ home[r] \in Chains \cap live
    BY <1>1 DEF rule_del, RingIntegrity, Linked, Home, TypeOK
  <1>5. PICK c \in Chains \cap live : c = home[r]
    BY <1>4
  <1>6. IsList(link, c, RuleList(c), RulesOf(c)) /\ r \in RulesOf(c)
    BY <1>5 DEF ListsExact, RulesOf
  <1>7. PICK i \in 1 .. Len(RuleList(c)) : RuleList(c)[i] = r
    BY <1>6 DEF IsList, ToSet
  <1>8. PICK p : p = Before(c, RuleList(c), i)
    OBVIOUS
  <1>9. link.prev[r] = p /\ link.next[p] = r /\ p \in RulesOf(c) \cup {c}
    <2>1. /\ i \in 1 .. Len(RuleList(c)) + 1
          /\ r = IF i = Len(RuleList(c)) + 1 THEN c ELSE RuleList(c)[i]
      <3>1. Len(RuleList(c)) \in Nat
        BY <1>6 DEF IsList
      <3> QED BY <1>7, <3>1
    <2> QED BY <1>2, <1>3, <1>6, <1>8, <2>1, ListPrev
  <1>10. link'.next = [link.next EXCEPT ![p] = link.next[r], ![r] = POISON1]
    BY <1>9 DEF rule_del, list_del
  <1>11. p # r
    <2>1. IsInjective(RuleList(c)) /\ DOMAIN RuleList(c) = 1 .. Len(RuleList(c))
      BY <1>6 DEF IsList
    <2>2. CASE i = 1
      BY <1>3, <1>8, <2>2, NodesAssumption DEF Before
    <2>3. CASE i # 1
      <3>1. i - 1 \in 1 .. Len(RuleList(c)) /\ i - 1 # i
        BY <2>3
      <3> QED BY <1>7, <1>8, <2>1, <2>3, <3>1 DEF Before, IsInjective
    <2> QED BY <2>2, <2>3
  <1>12. /\ link'.next[p] = link.next[r]
         /\ \A n \in Linked \ {p, r} : link'.next[n] = link.next[n]
    BY <1>2, <1>3, <1>9, <1>10, <1>11 DEF Links
  <1>13. IsList(link', c, RemoveAt(RuleList(c), i), RulesOf(c) \ {r})
    <2>1. c \notin RulesOf(c)
      BY <1>3 DEF RulesOf
    <2>2. \A n \in (RulesOf(c) \cup {c}) \ {p, r} : link'.next[n] = link.next[n]
      BY <1>3, <1>12
    <2> QED BY <1>6, <1>7, <1>8, <1>12, <2>1, <2>2, ListDel
  <1>14. {q \in Rules : home'[q] = c} = RulesOf(c) \ {r}
    BY <1>1, <1>5 DEF TypeOK, RulesOf, rule_del, Nodes, Poisons
  <1>15. ASSUME NEW d \in Chains \cap live, d # c
         PROVE  IsList(link', d, RuleList(d), {q \in Rules : home'[q] = d})
    <2>1. IsList(link, d, RuleList(d), RulesOf(d))
      BY DEF ListsExact
    <2>2. {q \in Rules : home'[q] = d} = RulesOf(d)
      BY <1>1, <1>5, <1>15 DEF TypeOK, RulesOf, rule_del, Nodes, Poisons
    <2>3. p \notin RulesOf(d) \cup {d} /\ r \notin RulesOf(d) \cup {d}
      BY <1>3, <1>5, <1>9, <1>15 DEF RulesOf
    <2>4. \A n \in RulesOf(d) \cup {d} : link'.next[n] = link.next[n]
      BY <1>3, <1>12, <2>3
    <2>5. IsList(link', d, RuleList(d), RulesOf(d))
      BY <2>1, <2>4, ListUnchanged
    <2> QED BY <2>2, <2>5
  <1>16. PICK t : t = RemoveAt(RuleList(c), i)
    OBVIOUS
  <1>17. live' = live
    BY DEF rule_del
  <1>18. \A d \in Chains \cap live' :
            /\ d # c => d \in live
            /\ IsList(link', d, IF d = c THEN t ELSE RuleList(d),
                      {q \in Rules : home'[q] = d})
    BY <1>13, <1>14, <1>15, <1>16, <1>17
  <1>19. ListBecomes(c, t)
    BY <1>17, <1>18, ListsAre
  <1> QED BY <1>4, <1>5, <1>7, <1>16, <1>19

\* A listed rule has a position in the list of its chain.
LEMMA Position ==
    ASSUME IInv, ListsExact, NEW pos \in Rules, home[pos] # NULL
    PROVE  \E c \in Chains \cap live : \E i \in 1 .. Len(RuleList(c)) :
              /\ c = home[pos] /\ pos \in RulesOf(c) /\ RuleList(c)[i] = pos
  <1>1. TypeOK /\ RingIntegrity
    BY DEF IInv
  <1>2. home[pos] \in Chains \cap live
    BY <1>1 DEF RingIntegrity, Linked, Home, TypeOK
  <1>3. PICK c \in Chains \cap live : c = home[pos]
    BY <1>2
  <1>4. ToSet(RuleList(c)) = RulesOf(c) /\ RuleList(c) \in Seq(Rules)
    BY <1>1, InList
  <1>5. pos \in RulesOf(c)
    BY <1>3 DEF RulesOf
  <1>6. PICK i \in 1 .. Len(RuleList(c)) : RuleList(c)[i] = pos
    BY <1>4, <1>5 DEF ToSet
  <1> QED BY <1>3, <1>5, <1>6

\* In the state of the invariant prev leads to the entry before.
LEMMA PrevIs ==
    ASSUME IInv, ListsExact, NEW c \in Chains \cap live,
           NEW i \in 1 .. Len(RuleList(c)) + 1,
           NEW n, n = IF i = Len(RuleList(c)) + 1 THEN c ELSE RuleList(c)[i]
    PROVE  /\ link.prev[n] = Before(c, RuleList(c), i)
           /\ link.next[Before(c, RuleList(c), i)] = n
  <1>1. Ring(link, Linked) /\ RulesOf(c) \cup {c} \subseteq Linked
    BY NodesAssumption DEF IInv, TypeOK, RingIntegrity, RulesOf, Linked, Nodes, Poisons
  <1>2. IsList(link, c, RuleList(c), RulesOf(c))
    BY DEF ListsExact
  <1> QED BY <1>1, <1>2, ListPrev

\* nftnl_chain_rule_add puts the rule first.
LEMMA AddLists ==
    ASSUME IInv, ListsExact, TypeOK', NEW r \in Rules, NEW c \in Chains, rule_add(r, c)
    PROVE  ListBecomes(c, InsertAt(RuleList(c), 1, r))
  <1>1. c \in Chains \cap live /\ Unlisted(r)
    BY DEF rule_add
  <1>2. Len(RuleList(c)) \in Nat
    BY <1>1, InList DEF IInv
  <1>3. 1 \in 1 .. Len(RuleList(c)) + 1 /\ c = Before(c, RuleList(c), 1)
    BY <1>2 DEF Before
  <1>4. /\ link' = list_add_between(link, r, c, link.next[c])
        /\ home' = [home EXCEPT ![r] = c] /\ live' = live
    BY DEF rule_add, list_add
  <1> QED BY <1>1, <1>3, <1>4, PutLists

\* nftnl_chain_rule_add_tail puts it last.
LEMMA AddTailLists ==
    ASSUME IInv, ListsExact, TypeOK', NEW r \in Rules, NEW c \in Chains,
           rule_add_tail(r, c)
    PROVE  ListBecomes(c, InsertAt(RuleList(c), Len(RuleList(c)) + 1, r))
  <1>1. c \in Chains \cap live /\ Unlisted(r)
    BY DEF rule_add_tail
  <1>2. PICK i : i = Len(RuleList(c)) + 1
    OBVIOUS
  <1>3. i \in 1 .. Len(RuleList(c)) + 1
    <2>1. Len(RuleList(c)) \in Nat
      BY <1>1, InList DEF IInv
    <2> QED BY <1>2, <2>1
  <1>4. PICK p : p = Before(c, RuleList(c), i)
    OBVIOUS
  <1>5. link.prev[c] = p /\ link.next[p] = c
    BY <1>1, <1>2, <1>3, <1>4, PrevIs
  <1>6. /\ link' = list_add_between(link, r, p, link.next[p])
        /\ home' = [home EXCEPT ![r] = c] /\ live' = live
    BY <1>5 DEF rule_add_tail, list_add_tail
  <1>7. ListBecomes(c, InsertAt(RuleList(c), i, r))
    BY <1>1, <1>3, <1>4, <1>6, PutLists
  <1> QED BY <1>2, <1>7

\* nftnl_chain_rule_insert_at puts it before pos.
LEMMA InsertAtLists ==
    ASSUME IInv, ListsExact, TypeOK', NEW r \in Rules, NEW pos \in Rules,
           rule_insert_at(r, pos)
    PROVE  \E c \in Chains \cap live : \E i \in 1 .. Len(RuleList(c)) :
              /\ c = home[pos] /\ RuleList(c)[i] = pos
              /\ ListBecomes(c, InsertAt(RuleList(c), i, r))
  <1>1. Unlisted(r) /\ home[pos] # NULL
    BY DEF rule_insert_at
  <1>0. PICK c \in Chains \cap live : \E i \in 1 .. Len(RuleList(c)) :
           c = home[pos] /\ RuleList(c)[i] = pos
    BY <1>1, Position
  <1>2. PICK i \in 1 .. Len(RuleList(c)) : c = home[pos] /\ RuleList(c)[i] = pos
    BY <1>0
  <1>3. i \in 1 .. Len(RuleList(c)) + 1 /\ i # Len(RuleList(c)) + 1
    <2>1. Len(RuleList(c)) \in Nat
      BY InList DEF IInv
    <2> QED BY <2>1
  <1>4. PICK p : p = Before(c, RuleList(c), i)
    OBVIOUS
  <1>5. link.prev[pos] = p /\ link.next[p] = pos
    BY <1>2, <1>3, <1>4, PrevIs
  <1>6. /\ link' = list_add_between(link, r, p, link.next[p])
        /\ home' = [home EXCEPT ![r] = c] /\ live' = live
    BY <1>2, <1>5 DEF rule_insert_at, list_add_tail
  <1>7. ListBecomes(c, InsertAt(RuleList(c), i, r))
    BY <1>1, <1>3, <1>4, <1>6, PutLists
  <1> QED BY <1>2, <1>7

\* nftnl_chain_rule_append_at puts it after pos.
LEMMA AppendAtLists ==
    ASSUME IInv, ListsExact, TypeOK', NEW r \in Rules, NEW pos \in Rules,
           rule_append_at(r, pos)
    PROVE  \E c \in Chains \cap live : \E i \in 1 .. Len(RuleList(c)) :
              /\ c = home[pos] /\ RuleList(c)[i] = pos
              /\ ListBecomes(c, InsertAt(RuleList(c), i + 1, r))
  <1>1. Unlisted(r) /\ home[pos] # NULL
    BY DEF rule_append_at
  <1>0. PICK c \in Chains \cap live : \E i \in 1 .. Len(RuleList(c)) :
           c = home[pos] /\ RuleList(c)[i] = pos
    BY <1>1, Position
  <1>2. PICK i \in 1 .. Len(RuleList(c)) : c = home[pos] /\ RuleList(c)[i] = pos
    BY <1>0
  <1>3. PICK j : j = i + 1
    OBVIOUS
  <1>4. j \in 1 .. Len(RuleList(c)) + 1 /\ j # 1 /\ j - 1 = i
    <2>1. Len(RuleList(c)) \in Nat
      BY InList DEF IInv
    <2> QED BY <1>3, <2>1
  <1>5. pos = Before(c, RuleList(c), j)
    BY <1>2, <1>4 DEF Before
  <1>6. /\ link' = list_add_between(link, r, pos, link.next[pos])
        /\ home' = [home EXCEPT ![r] = c] /\ live' = live
    BY <1>2 DEF rule_append_at, list_add
  <1>7. ListBecomes(c, InsertAt(RuleList(c), j, r))
    BY <1>1, <1>4, <1>5, <1>6, PutLists
  <1> QED BY <1>2, <1>3, <1>7

\* A new chain has an empty list.
LEMMA ChainAllocLists ==
    ASSUME IInv, ListsExact, TypeOK', NEW c \in Chains, chain_alloc(c)
    PROVE  ListBecomes(c, <<>>)
  <1>1. TypeOK /\ RingIntegrity
    BY DEF IInv
  <1>2. c \notin live /\ c \in Nodes /\ live' = live \cup {c} /\ home' = home
    BY DEF chain_alloc, Nodes
  <1>3. /\ link'.next[c] = c
        /\ \A n \in Nodes \ {c} : link'.next[n] = link.next[n]
    BY <1>1, <1>2 DEF chain_alloc, INIT_LIST_HEAD, TypeOK
  <1>4. RulesOf(c) = {}
    BY <1>1, <1>2, NodesAssumption
       DEF RulesOf, RingIntegrity, Linked, Home, Nodes, Poisons
  <1>5. IsList(link', c, <<>>, {})
    BY <1>3, ListEmpty
  <1>6. ASSUME NEW d \in Chains \cap live
        PROVE  d # c /\ IsList(link', d, RuleList(d), RulesOf(d))
    <2>1. d # c /\ \A n \in RulesOf(d) \cup {d} : n \in Nodes \ {c}
      BY <1>2, NodesAssumption DEF RulesOf, Nodes
    <2>2. \A n \in RulesOf(d) \cup {d} : link'.next[n] = link.next[n]
      BY <1>3, <2>1
    <2>3. IsList(link, d, RuleList(d), RulesOf(d))
      BY DEF ListsExact
    <2>4. IsList(link', d, RuleList(d), RulesOf(d))
      BY <2>2, <2>3, ListUnchanged
    <2> QED BY <2>1, <2>4
  <1>7. PICK t : t = <<>>
    OBVIOUS
  <1>8. \A d \in Chains \cap live' :
           /\ d # c => d \in live
           /\ IsList(link', d, IF d = c THEN t ELSE RuleList(d),
                     {q \in Rules : home'[q] = d})
    BY <1>2, <1>4, <1>5, <1>6, <1>7 DEF RulesOf
  <1>9. ListBecomes(c, t)
    BY <1>2, <1>8, ListsAre
  <1> QED BY <1>7, <1>9

\* Releasing a chain with its rules, or an unlisted rule, touches no other list.
LEMMA FreeLists ==
    ASSUME IInv, ListsExact, TypeOK', NEW S,
           \/ \E c \in Chains : chain_free(c) /\ S = {c} \cup RulesOf(c)
           \/ \E r \in Rules : (rule_alloc(r) \/ rule_free(r)) /\ S = {r}
    PROVE  /\ ListsExact'
           /\ \A d \in Chains \cap live' :
                 d \in live /\ RingFrom(link', d, Cardinality(Rules)) = RuleList(d)
  <1> USE NodesAssumption
  <1>1. TypeOK /\ RingIntegrity
    BY DEF IInv
  <1>2. link' = Zero(S)
    BY DEF chain_free, rule_alloc, rule_free
  <1>3. \A n \in Nodes \ S : link'.next[n] = link.next[n]
    BY <1>2 DEF Zero
  <1>4. ASSUME NEW d \in Chains \cap live'
        PROVE  /\ d \in live
               /\ {r \in Rules : home'[r] = d} = RulesOf(d)
               /\ RulesOf(d) \cup {d} \subseteq Nodes \ S
    <2>1. ASSUME NEW c \in Chains, chain_free(c), S = {c} \cup RulesOf(c)
          PROVE  /\ d \in live
                 /\ {r \in Rules : home'[r] = d} = RulesOf(d)
                 /\ RulesOf(d) \cup {d} \subseteq Nodes \ S
      <3>1. d \in live /\ d # c /\ d \notin Rules /\ c \notin Rules /\ d # NULL
        BY <2>1 DEF chain_free, Nodes, Poisons
      <3>2. {r \in Rules : home'[r] = d} = RulesOf(d)
        BY <2>1, <3>1 DEF chain_free, RulesOf
      <3> QED BY <2>1, <3>1, <3>2 DEF RulesOf, Nodes
    <2>2. ASSUME NEW r \in Rules, rule_alloc(r) \/ rule_free(r), S = {r}
          PROVE  /\ d \in live
                 /\ {q \in Rules : home'[q] = d} = RulesOf(d)
                 /\ RulesOf(d) \cup {d} \subseteq Nodes \ S
      <3>1. home' = home /\ d \in live /\ d \notin Rules /\ d # NULL
        BY <2>2 DEF rule_alloc, rule_free, Nodes, Poisons
      <3>2. home[r] = NULL
        BY <1>1, <2>2 DEF rule_alloc, rule_free, Unlisted, RingIntegrity, Linked
      <3> QED BY <2>2, <3>1, <3>2 DEF RulesOf, Nodes
    <2> QED BY <2>1, <2>2
  <1>5. \A d \in Chains \cap live' :
           /\ d \in live
           /\ {r \in Rules : home'[r] = d} = RulesOf(d)
           /\ \A n \in RulesOf(d) \cup {d} : link'.next[n] = link.next[n]
    BY <1>3, <1>4
  <1> QED BY <1>5, ListsKept

-------------------------------------------------------------------------------
(* The walks, and the whole invariant.                                     *)

\* Where an open walk may stand.
LEMMA WalkPlace ==
    ASSUME IInv, ListsExact, NEW w \in Walkers, Open(w)
    PROVE  /\ walk[w].chain \in Chains \cap live
           /\ walk[w].saved \in {NULL, walk[w].chain} \cup ToSet(RuleList(walk[w].chain))
           /\ seen[w] \in Seq(Rules) /\ stable[w] \in SUBSET Rules
  <1>1. TypeOK /\ NoDanglingWalk
    BY DEF IInv
  <1>2. /\ walk[w].chain \in Chains \cup {NULL} /\ walk[w].chain \in live
        /\ walk[w].saved # NULL => /\ walk[w].saved \in Linked
                                   /\ Home(walk[w].saved) = walk[w].chain
        /\ seen[w] \in Seq(Rules) /\ stable[w] \in SUBSET Rules
    BY <1>1 DEF NoDanglingWalk, TypeOK
  <1>3. walk[w].chain \in Chains \cap live
    BY <1>1, <1>2, NodesAssumption DEF TypeOK, Poisons
  <1>4. ToSet(RuleList(walk[w].chain)) = RulesOf(walk[w].chain)
    BY <1>1, <1>3, InList
  <1>5. walk[w].saved # NULL => walk[w].saved \in {walk[w].chain} \cup RulesOf(walk[w].chain)
    BY <1>2 DEF Linked, Home, RulesOf
  <1> QED BY <1>2, <1>3, <1>4, <1>5

\* After a rule is put into a list, no walk misses or repeats a rule.
LEMMA PutFull ==
    ASSUME FullInv, IInv', NEW r \in Rules, Unlisted(r), NEW c \in Chains \cap live,
           NEW i \in 1 .. Len(RuleList(c)) + 1,
           ListBecomes(c, InsertAt(RuleList(c), i, r)),
           home' = [home EXCEPT ![r] = c], live' = live, UNCHANGED walks
    PROVE  FullInv'
  <1>1. TypeOK /\ IInv /\ ListsExact /\ StableListed /\ WalkExact
    BY DEF FullInv, IInv
  <1>2. ListsExact' /\ TypeOK'
    BY DEF ListBecomes, IInv
  <1>3. StableListed'
    <2> SUFFICES ASSUME NEW w \in Walkers, Open(w), NEW q \in stable[w]
                 PROVE  q \in RulesOf(walk[w].chain)'
      BY DEF StableListed, Open, walks
    <2>1. q \in RulesOf(walk[w].chain) /\ walk[w].chain \in Chains
      BY <1>1, WalkPlace DEF StableListed
    <2>2. q # r
      BY <2>1, NodesAssumption DEF RulesOf, Unlisted, Nodes, Poisons
    <2> QED BY <1>1, <2>1, <2>2 DEF RulesOf, TypeOK, walks
  <1>4. PICK t : t = InsertAt(RuleList(c), i, r)
    OBVIOUS
  <1>5. ListBecomes(c, t)
    BY <1>4
  <1>6. WalkExact'
    <2> SUFFICES ASSUME NEW w \in Walkers, Open(w)
                 PROVE  Exact(RingFrom(link', walk[w].chain, Cardinality(Rules)),
                              stable[w], seen[w], walk[w].chain, walk[w].saved)
      BY DEF WalkExact, RuleList, Open, walks
    <2>1. PICK d, saved, T, done :
             d = walk[w].chain /\ saved = walk[w].saved /\ T = stable[w] /\ done = seen[w]
      OBVIOUS
    <2>2. /\ d \in Chains \cap live /\ saved \in {NULL, d} \cup ToSet(RuleList(d))
          /\ done \in Seq(Rules) /\ T \subseteq RulesOf(d)
      BY <1>1, <2>1, WalkPlace DEF StableListed
    <2>3. Exact(RuleList(d), T, done, d, saved)
      BY <1>1, <2>1 DEF WalkExact
    <2>4. CASE d = c
      <3>1. r \notin T
        BY <2>2, NodesAssumption DEF RulesOf, Unlisted, Nodes, Poisons
      <3>2. RingFrom(link', c, Cardinality(Rules)) = t
        BY <1>5 DEF ListBecomes
      <3>3. IsInjective(t)
        <4>1. c \in Chains \cap live'
          OBVIOUS
        <4>2. IsList(link', c, RingFrom(link', c, Cardinality(Rules)),
                     {q \in Rules : home'[q] = c})
          BY <1>2, <4>1 DEF ListsExact, RuleList, RulesOf
        <4> QED BY <3>2, <4>2 DEF IsList
      <3>4. PICK s : s = RuleList(c)
        OBVIOUS
      <3>5. s \in Seq(Rules) /\ IsInjective(s) /\ c \notin Rules /\ NULL \notin Rules
        BY <1>1, <3>4, InList
      <3>6. Exact(t, T, done, c, saved)
        BY <1>4, <2>2, <2>3, <2>4, <3>1, <3>3, <3>4, <3>5, ExactInsert
      <3> QED BY <2>1, <2>4, <3>2, <3>6
    <2>5. CASE d # c
      <3>1. RingFrom(link', d, Cardinality(Rules)) = RuleList(d)
        BY <1>5, <2>2, <2>5 DEF ListBecomes
      <3> QED BY <2>1, <2>3, <3>1
    <2> QED BY <2>4, <2>5
  <1> QED BY <1>2, <1>3, <1>6 DEF FullInv

\* Nor after a rule is taken out.
LEMMA DelFull ==
    ASSUME FullInv, IInv', NEW r \in Rules, rule_del(r)
    PROVE  FullInv'
  <1>1. TypeOK /\ IInv /\ ListsExact /\ StableListed /\ WalkExact
    BY DEF FullInv, IInv
  <1>2. TypeOK'
    BY DEF IInv
  <1>3. /\ home[r] \in Chains \cap live
        /\ \E i \in 1 .. Len(RuleList(home[r])) :
              /\ RuleList(home[r])[i] = r
              /\ ListBecomes(home[r], RemoveAt(RuleList(home[r]), i))
    BY <1>1, <1>2, DelLists
  <1>4. PICK c \in Chains \cap live : c = home[r]
    BY <1>3
  <1>5. PICK i \in 1 .. Len(RuleList(c)) :
           RuleList(c)[i] = r /\ ListBecomes(c, RemoveAt(RuleList(c), i))
    BY <1>3, <1>4
  <1>6. ListsExact'
    BY <1>5 DEF ListBecomes
  <1>7. /\ \A w \in Walkers : walk[w].saved # r
        /\ walk' = walk /\ live' = live
        /\ stable' = [w \in Walkers |-> stable[w] \ {r}]
        /\ seen' = [w \in Walkers |-> Only(seen[w], Rules \ {r})]
        /\ home' = [home EXCEPT ![r] = NULL]
    BY DEF rule_del
  <1>8. StableListed'
    <2> SUFFICES ASSUME NEW w \in Walkers, Open(w), NEW q \in stable[w] \ {r}
                 PROVE  q \in RulesOf(walk[w].chain)'
      BY <1>7 DEF StableListed, Open
    <2>1. q \in RulesOf(walk[w].chain)
      BY <1>1 DEF StableListed
    <2> QED BY <1>1, <1>7, <2>1 DEF RulesOf, TypeOK
  <1>9. PICK t : t = RemoveAt(RuleList(c), i)
    OBVIOUS
  <1>10. ListBecomes(c, t)
    BY <1>5, <1>9
  <1>11. WalkExact'
    <2> SUFFICES ASSUME NEW w \in Walkers, Open(w)
                 PROVE  Exact(RingFrom(link', walk[w].chain, Cardinality(Rules)),
                              stable[w] \ {r}, Only(seen[w], Rules \ {r}),
                              walk[w].chain, walk[w].saved)
      BY <1>7 DEF WalkExact, RuleList, Open
    <2>1. PICK d, saved, T, done :
             d = walk[w].chain /\ saved = walk[w].saved /\ T = stable[w] /\ done = seen[w]
      OBVIOUS
    <2>2. /\ d \in Chains \cap live /\ saved \in {NULL, d} \cup ToSet(RuleList(d))
          /\ done \in Seq(Rules) /\ saved # r
      BY <1>1, <1>7, <2>1, WalkPlace
    <2>3. Exact(RuleList(d), T, done, d, saved)
      BY <1>1, <2>1 DEF WalkExact
    <2>4. PICK s : s = RuleList(d)
      OBVIOUS
    <2>5. s \in Seq(Rules) /\ IsInjective(s) /\ d \notin Rules /\ NULL \notin Rules
      BY <1>1, <2>2, <2>4, InList
    <2>6. PICK V, past : V = T \ {r} /\ past = Only(done, Rules \ {r})
      OBVIOUS
    <2>7. Exact(s, V, past, d, saved)
      BY <2>2, <2>3, <2>4, <2>5, <2>6, ExactForget
    <2>8. past \in Seq(Rules) /\ r \notin V
      BY <2>2, <2>6, OnlyType
    <2>9. CASE d = c
      <3>1. RingFrom(link', c, Cardinality(Rules)) = t
        BY <1>10 DEF ListBecomes
      <3>2. IsInjective(t)
        <4>1. c \in Chains \cap live'
          BY <1>7
        <4>2. IsList(link', c, RingFrom(link', c, Cardinality(Rules)),
                     {q \in Rules : home'[q] = c})
          BY <1>6, <4>1 DEF ListsExact, RuleList, RulesOf
        <4> QED BY <3>1, <4>2 DEF IsList
      <3>3. i \in 1 .. Len(s) /\ s[i] = r /\ t = RemoveAt(s, i)
        BY <1>5, <1>9, <2>4, <2>9
      <3>4. Exact(t, V, past, c, saved)
        BY <2>2, <2>4, <2>5, <2>7, <2>8, <2>9, <3>2, <3>3, ExactRemove
      <3> QED BY <2>1, <2>6, <2>9, <3>1, <3>4
    <2>10. CASE d # c
      <3>1. RingFrom(link', d, Cardinality(Rules)) = s
        BY <1>7, <1>10, <2>2, <2>4, <2>10 DEF ListBecomes
      <3> QED BY <2>1, <2>6, <2>7, <3>1
    <2> QED BY <2>9, <2>10
  <1> QED BY <1>6, <1>8, <1>11 DEF FullInv

\* A step that leaves the heap alone and puts one walk where it should be.
LEMMA MoveFull ==
    ASSUME FullInv, IInv', UNCHANGED heap, NEW w \in Walkers, NEW W, NEW T, NEW done,
           walk' = [walk EXCEPT ![w] = W],
           stable' = [stable EXCEPT ![w] = T], seen' = [seen EXCEPT ![w] = done],
           W.kind # "none" => /\ T \subseteq RulesOf(W.chain)
                              /\ Exact(RuleList(W.chain), T, done, W.chain, W.saved)
    PROVE  FullInv'
  <1>1. TypeOK /\ IInv /\ ListsExact /\ StableListed /\ WalkExact
    BY DEF FullInv, IInv
  <1>2. ListsExact'
    BY <1>1 DEF ListsExact, heap, RuleList, RulesOf
  <1>3. \A v \in Walkers : /\ walk'[v] = IF v = w THEN W ELSE walk[v]
                           /\ stable'[v] = IF v = w THEN T ELSE stable[v]
                           /\ seen'[v] = IF v = w THEN done ELSE seen[v]
    BY <1>1 DEF TypeOK
  <1>4. StableListed'
    <2> SUFFICES ASSUME NEW v \in Walkers, walk'[v].kind # "none"
                 PROVE  stable'[v] \subseteq RulesOf(walk'[v].chain)
      BY DEF StableListed, Open, RulesOf, heap
    <2> QED BY <1>1, <1>3 DEF StableListed, Open
  <1>5. WalkExact'
    <2> SUFFICES ASSUME NEW v \in Walkers, walk'[v].kind # "none"
                 PROVE  Exact(RuleList(walk'[v].chain), stable'[v], seen'[v],
                              walk'[v].chain, walk'[v].saved)
      BY DEF WalkExact, Open, RuleList, heap
    <2>1. CASE v = w
      BY <1>3, <2>1
    <2>2. CASE v # w
      <3>1. walk'[v] = walk[v] /\ stable'[v] = stable[v] /\ seen'[v] = seen[v]
        BY <1>3, <2>2
      <3>2. Exact(RuleList(walk[v].chain), stable[v], seen[v], walk[v].chain, walk[v].saved)
        BY <1>1, <3>1 DEF WalkExact, Open
      <3> QED BY <3>1, <3>2
    <2> QED BY <2>1, <2>2
  <1> QED BY <1>2, <1>4, <1>5 DEF FullInv

\* What the head of a chain points to is where a lap starts.
LEMMA LapStart ==
    ASSUME IInv, ListsExact, NEW c \in Chains \cap live
    PROVE  /\ \A T : Exact(RuleList(c), T, <<>>, c, link.next[c])
           /\ list_empty(link, c) => \A T : Exact(RuleList(c), T, <<>>, c, NULL)
  <1>1. TypeOK
    BY DEF IInv
  <1>2. PICK s : s = RuleList(c)
    OBVIOUS
  <1>3. s \in Seq(Rules) /\ IsInjective(s) /\ c \notin Rules /\ NULL \notin Rules
    BY <1>1, <1>2, InList
  <1>4. link.next[c] = IF s = <<>> THEN c ELSE s[1]
    BY <1>2 DEF ListsExact, IsList, Chained
  <1>5. ASSUME NEW T PROVE Exact(s, T, <<>>, c, link.next[c])
    BY <1>3, <1>4, ExactStart
  <1>6. ASSUME list_empty(link, c) PROVE s = <<>>
    <2>1. SUFFICES ASSUME s # <<>> PROVE FALSE
      OBVIOUS
    <2>2. s[1] \in Rules
      BY <1>3, <2>1, EmptySeq
    <2> QED BY <1>3, <1>4, <1>6, <2>1, <2>2 DEF list_empty
  <1> QED BY <1>2, <1>5, <1>6, ExactNull

\* Handing out the saved rule.
LEMMA HandOutFull ==
    ASSUME FullInv, IInv', NEW w \in Walkers, Open(w), HandOut(w),
           walk[w].saved \notin {NULL, walk[w].chain}
    PROVE  FullInv'
  <1>1. TypeOK /\ IInv /\ ListsExact /\ StableListed /\ WalkExact
    BY DEF FullInv, IInv
  <1>2. PICK c, r, T, done :
           c = walk[w].chain /\ r = walk[w].saved /\ T = stable[w] /\ done = seen[w]
    OBVIOUS
  <1>3. /\ c \in Chains \cap live /\ r \in ToSet(RuleList(c)) /\ done \in Seq(Rules)
        /\ T \subseteq RulesOf(c)
    BY <1>1, <1>2, WalkPlace DEF StableListed
  <1>4. PICK s : s = RuleList(c)
    OBVIOUS
  <1>5. s \in Seq(Rules) /\ IsInjective(s) /\ c \notin Rules /\ NULL \notin Rules
    BY <1>1, <1>3, <1>4, InList
  <1>6. PICK k \in 1 .. Len(s) : s[k] = r
    BY <1>3, <1>4 DEF ToSet
  <1>7. link.next[r] = IF k = Len(s) THEN c ELSE s[k + 1]
    <2>1. ListsExact
      BY <1>1
    <2>2. IsList(link, c, s, RulesOf(c))
      BY <1>3, <1>4, <2>1 DEF ListsExact
    <2>3. link.next[s[k]] = IF k = Len(s) THEN c ELSE s[k + 1]
      BY <2>2 DEF IsList, Chained
    <2> QED BY <1>6, <2>3
  <1>8. Exact(s, T, done, c, r)
    BY <1>1, <1>2, <1>4 DEF WalkExact
  <1>9. PICK past, n : /\ past = IF r \in T THEN Append(done, r) ELSE done
                       /\ n = link.next[r]
    OBVIOUS
  <1>10. Exact(s, T, past, c, n)
    BY <1>5, <1>3, <1>6, <1>7, <1>8, <1>9, ExactHandOut
  <1>11. PICK W : W = [kind |-> walk[w].kind, chain |-> c, saved |-> n]
    OBVIOUS
  <1>12. /\ walk' = [walk EXCEPT ![w] = W]
         /\ stable' = [stable EXCEPT ![w] = T]
         /\ seen' = [seen EXCEPT ![w] = past]
         /\ UNCHANGED heap
    BY <1>1, <1>2, <1>9, <1>11 DEF HandOut, At, TypeOK
  <1>13. T \subseteq RulesOf(W.chain) /\ Exact(RuleList(W.chain), T, past, W.chain, W.saved)
    BY <1>3, <1>4, <1>10, <1>11
  <1> QED BY <1>12, <1>13, MoveFull

\* In the beginning there are no lists and no walks.
LEMMA InitFull == Init => FullInv
  <1> SUFFICES ASSUME Init PROVE FullInv
    OBVIOUS
  <1>1. IInv
    BY InitIInv
  <1>2. ListsExact
    BY DEF ListsExact, Init
  <1>3. StableListed /\ WalkExact
    BY DEF StableListed, WalkExact, Open, Init, NoWalk
  <1> QED BY <1>1, <1>2, <1>3 DEF FullInv

\* A release or an allocation that no open walk is concerned by.
LEMMA FreeFull ==
    ASSUME FullInv, IInv', ListsExact', UNCHANGED walks,
           \A d \in Chains \cap live' :
              d \in live /\ RingFrom(link', d, Cardinality(Rules)) = RuleList(d),
           \A w \in Walkers : Open(w) => walk[w].chain \in Chains \cap live',
           \A w \in Walkers : Open(w) =>
              {r \in Rules : home'[r] = walk[w].chain} = RulesOf(walk[w].chain)
    PROVE  FullInv'
  <1>1. StableListed /\ WalkExact
    BY DEF FullInv
  <1>2. StableListed'
    <2> SUFFICES ASSUME NEW w \in Walkers, Open(w)
                 PROVE  stable[w] \subseteq {r \in Rules : home'[r] = walk[w].chain}
      BY DEF StableListed, Open, RulesOf, walks
    <2> QED BY <1>1 DEF StableListed
  <1>3. WalkExact'
    <2> SUFFICES ASSUME NEW w \in Walkers, Open(w)
                 PROVE  Exact(RingFrom(link', walk[w].chain, Cardinality(Rules)),
                              stable[w], seen[w], walk[w].chain, walk[w].saved)
      BY DEF WalkExact, RuleList, Open, walks
    <2>1. RingFrom(link', walk[w].chain, Cardinality(Rules)) = RuleList(walk[w].chain)
      OBVIOUS
    <2> QED BY <1>1, <2>1 DEF WalkExact
  <1> QED BY <1>2, <1>3 DEF FullInv

\* One step of any call.
LEMMA NextFull == FullInv /\ [Next]_vars => FullInv'
  <1> SUFFICES ASSUME FullInv, [Next]_vars PROVE FullInv'
    OBVIOUS
  <1>1. TypeOK /\ IInv /\ RingIntegrity /\ NoDanglingWalk
        /\ ListsExact /\ StableListed /\ WalkExact
    BY DEF FullInv, IInv
  <1>2. IInv' /\ TypeOK'
    <2>1. IInv'
      BY <1>1, NextIInv
    <2> QED BY <2>1 DEF IInv
  <1>3. ASSUME NEW c \in Chains, chain_alloc(c) PROVE FullInv'
    <2>1. ListBecomes(c, <<>>)
      BY <1>1, <1>2, <1>3, ChainAllocLists
    <2>2. c \notin live /\ live' = live \cup {c} /\ home' = home /\ UNCHANGED walks
      BY <1>3 DEF chain_alloc
    <2>3. StableListed'
      BY <1>1, <2>2 DEF StableListed, RulesOf, Open, walks
    <2>4. WalkExact'
      <3> SUFFICES ASSUME NEW w \in Walkers, Open(w)
                   PROVE  Exact(RingFrom(link', walk[w].chain, Cardinality(Rules)),
                                stable[w], seen[w], walk[w].chain, walk[w].saved)
        BY <2>2 DEF WalkExact, RuleList, Open, walks
      <3>1. walk[w].chain \in (Chains \cap live') \ {c}
        BY <1>1, <2>2, WalkPlace
      <3>2. RingFrom(link', walk[w].chain, Cardinality(Rules)) = RuleList(walk[w].chain)
        BY <2>1, <3>1 DEF ListBecomes
      <3> QED BY <1>1, <3>2 DEF WalkExact
    <2>5. ListsExact'
      BY <2>1 DEF ListBecomes
    <2> QED BY <1>2, <2>3, <2>4, <2>5 DEF FullInv
  <1>4. ASSUME NEW c \in Chains, chain_free(c) PROVE FullInv'
    <2>1. /\ ListsExact'
          /\ \A d \in Chains \cap live' :
                d \in live /\ RingFrom(link', d, Cardinality(Rules)) = RuleList(d)
      <3>1. PICK S : S = {c} \cup RulesOf(c)
        OBVIOUS
      <3> QED BY <1>1, <1>2, <1>4, <3>1, FreeLists
    <2>2. ASSUME NEW w \in Walkers, Open(w)
          PROVE  /\ walk[w].chain \in Chains \cap live'
                 /\ {r \in Rules : home'[r] = walk[w].chain} = RulesOf(walk[w].chain)
      <3>1. PICK d : d = walk[w].chain
        OBVIOUS
      <3>2. d \in Chains \cap live /\ d # c
        BY <1>1, <1>4, <2>2, <3>1, WalkPlace DEF chain_free
      <3>3. d \in live' /\ d # NULL
        BY <1>4, <3>2, NodesAssumption DEF chain_free, RulesOf, Nodes, Poisons
      <3>4. {r \in Rules : home'[r] = d} = RulesOf(d)
        BY <1>4, <3>2, <3>3 DEF chain_free, RulesOf
      <3> QED BY <3>1, <3>2, <3>3, <3>4
    <2>3. UNCHANGED walks
      BY <1>4 DEF chain_free
    <2> QED BY <1>2, <2>1, <2>2, <2>3, FreeFull
  <1>5. ASSUME NEW r \in Rules, rule_alloc(r) \/ rule_free(r) PROVE FullInv'
    <2>1. /\ ListsExact'
          /\ \A d \in Chains \cap live' :
                d \in live /\ RingFrom(link', d, Cardinality(Rules)) = RuleList(d)
      <3>1. PICK S : S = {r}
        OBVIOUS
      <3> QED BY <1>1, <1>2, <1>5, <3>1, FreeLists
    <2>2. ASSUME NEW w \in Walkers, Open(w)
          PROVE  /\ walk[w].chain \in Chains \cap live'
                 /\ {q \in Rules : home'[q] = walk[w].chain} = RulesOf(walk[w].chain)
      <3>1. walk[w].chain \in Chains \cap live
        BY <1>1, <2>2, WalkPlace
      <3>2. walk[w].chain \in live'
        BY <1>5, <3>1, NodesAssumption DEF rule_alloc, rule_free
      <3>3. home' = home
        BY <1>5 DEF rule_alloc, rule_free
      <3> QED BY <3>1, <3>2, <3>3 DEF RulesOf
    <2>3. UNCHANGED walks
      BY <1>5 DEF rule_alloc, rule_free
    <2> QED BY <1>2, <2>1, <2>2, <2>3, FreeFull
  <1>6. ASSUME NEW r \in Rules, rule_del(r) PROVE FullInv'
    BY <1>2, <1>6, DelFull
  <1>7. ASSUME NEW r \in Rules, NEW c \in Chains, rule_add(r, c) PROVE FullInv'
    <2>1. /\ c \in Chains \cap live /\ Unlisted(r)
          /\ home' = [home EXCEPT ![r] = c] /\ live' = live /\ UNCHANGED walks
      BY <1>7 DEF rule_add
    <2>2. ListBecomes(c, InsertAt(RuleList(c), 1, r))
      BY <1>1, <1>2, <1>7, AddLists
    <2>3. 1 \in 1 .. Len(RuleList(c)) + 1
      <3>1. Len(RuleList(c)) \in Nat
        BY <1>1, <2>1, InList
      <3> QED BY <3>1
    <2> QED BY <1>2, <2>1, <2>2, <2>3, PutFull
  <1>8. ASSUME NEW r \in Rules, NEW c \in Chains, rule_add_tail(r, c) PROVE FullInv'
    <2>1. /\ c \in Chains \cap live /\ Unlisted(r)
          /\ home' = [home EXCEPT ![r] = c] /\ live' = live /\ UNCHANGED walks
      BY <1>8 DEF rule_add_tail
    <2>2. PICK i : i = Len(RuleList(c)) + 1
      OBVIOUS
    <2>3. ListBecomes(c, InsertAt(RuleList(c), i, r))
      BY <1>1, <1>2, <1>8, <2>2, AddTailLists
    <2>4. i \in 1 .. Len(RuleList(c)) + 1
      <3>1. Len(RuleList(c)) \in Nat
        BY <1>1, <2>1, InList
      <3> QED BY <2>2, <3>1
    <2> QED BY <1>2, <2>1, <2>3, <2>4, PutFull
  <1>9. ASSUME NEW r \in Rules, NEW pos \in Rules, rule_insert_at(r, pos) PROVE FullInv'
    <2>1. PICK c \in Chains \cap live : \E i \in 1 .. Len(RuleList(c)) :
             c = home[pos] /\ ListBecomes(c, InsertAt(RuleList(c), i, r))
      BY <1>1, <1>2, <1>9, InsertAtLists
    <2>2. PICK i \in 1 .. Len(RuleList(c)) :
             c = home[pos] /\ ListBecomes(c, InsertAt(RuleList(c), i, r))
      BY <2>1
    <2>3. /\ Unlisted(r) /\ home' = [home EXCEPT ![r] = c] /\ live' = live
          /\ UNCHANGED walks
      BY <1>9, <2>2 DEF rule_insert_at
    <2>4. i \in 1 .. Len(RuleList(c)) + 1
      <3>1. Len(RuleList(c)) \in Nat
        BY <1>1, InList
      <3> QED BY <3>1
    <2> QED BY <1>2, <2>2, <2>3, <2>4, PutFull
  <1>10. ASSUME NEW r \in Rules, NEW pos \in Rules, rule_append_at(r, pos) PROVE FullInv'
    <2>1. PICK c \in Chains \cap live : \E i \in 1 .. Len(RuleList(c)) :
             c = home[pos] /\ ListBecomes(c, InsertAt(RuleList(c), i + 1, r))
      BY <1>1, <1>2, <1>10, AppendAtLists
    <2>2. PICK i \in 1 .. Len(RuleList(c)) :
             c = home[pos] /\ ListBecomes(c, InsertAt(RuleList(c), i + 1, r))
      BY <2>1
    <2>3. /\ Unlisted(r) /\ home' = [home EXCEPT ![r] = c] /\ live' = live
          /\ UNCHANGED walks
      BY <1>10, <2>2 DEF rule_append_at
    <2>4. i + 1 \in 1 .. Len(RuleList(c)) + 1
      <3>1. Len(RuleList(c)) \in Nat
        BY <1>1, InList
      <3> QED BY <3>1
    <2>5. PICK j : j = i + 1
      OBVIOUS
    <2> QED BY <1>2, <2>2, <2>3, <2>4, <2>5, PutFull
  <1>11. ASSUME UNCHANGED << heap, walks >> PROVE FullInv'
    <2>1. ListsExact'
      BY <1>1, <1>11 DEF ListsExact, RuleList, RulesOf, heap
    <2>2. StableListed'
      BY <1>1, <1>11 DEF StableListed, RulesOf, Open, heap, walks
    <2>3. WalkExact'
      BY <1>1, <1>11 DEF WalkExact, RuleList, Open, heap, walks
    <2> QED BY <1>2, <2>1, <2>2, <2>3 DEF FullInv
  <1>12. ASSUME NEW w \in Walkers, NEW c \in Chains,
                iter_create(w, c) \/ foreach_start(w, c)
         PROVE  FullInv'
    <2>1. c \in Chains \cap live /\ UNCHANGED heap
      BY <1>12 DEF iter_create, foreach_start
    <2>2. PICK T, done : T = RulesOf(c) /\ done = <<>>
      OBVIOUS
    <2>3. stable' = [stable EXCEPT ![w] = T] /\ seen' = [seen EXCEPT ![w] = done]
      BY <1>12, <2>2 DEF iter_create, foreach_start, NewLap
    <2>4. PICK k, s : /\ walk' = [walk EXCEPT ![w] = [kind |-> k, chain |-> c, saved |-> s]]
                      /\ s = link.next[c] \/ (list_empty(link, c) /\ s = NULL)
      BY <1>12 DEF iter_create, foreach_start
    <2>5. Exact(RuleList(c), T, done, c, s)
      BY <1>1, <2>1, <2>2, <2>4, LapStart
    <2>6. PICK W : W = [kind |-> k, chain |-> c, saved |-> s]
      OBVIOUS
    <2>7. T \subseteq RulesOf(W.chain) /\ Exact(RuleList(W.chain), T, done, W.chain, W.saved)
      BY <2>2, <2>5, <2>6
    <2> QED BY <1>2, <2>1, <2>3, <2>4, <2>6, <2>7, MoveFull
  <1>13. ASSUME NEW w \in Walkers, foreach_next(w) PROVE FullInv'
    <2>1. Open(w) /\ HandOut(w) /\ walk[w].saved # walk[w].chain
      BY <1>13 DEF foreach_next, Open
    <2>2. walk[w].saved # NULL
      BY <1>1, <1>13, <2>1, NodesAssumption
         DEF foreach_next, NoDanglingWalk, Linked, Nodes, Poisons
    <2> QED BY <1>2, <2>1, <2>2, HandOutFull
  <1>14. ASSUME NEW w \in Walkers, iter_next(w) PROVE FullInv'
    <2>1. Open(w) /\ HandOut(w) /\ walk[w].saved # NULL
      BY <1>14 DEF iter_next, Open
    <2>2. walk[w].saved # walk[w].chain
      BY <1>14 DEF iter_next, Wraps
    <2> QED BY <1>2, <2>1, <2>2, HandOutFull
  <1>15. ASSUME NEW w \in Walkers, iter_end(w) PROVE FullInv'
    <2>1. PICK c : c = walk[w].chain
      OBVIOUS
    <2>2. Open(w) /\ UNCHANGED heap /\ c \in Chains \cap live
      BY <1>1, <1>15, <2>1, WalkPlace DEF iter_end, Open
    <2>3. PICK T, done : T = RulesOf(c) /\ done = <<>>
      OBVIOUS
    <2>4. stable' = [stable EXCEPT ![w] = T] /\ seen' = [seen EXCEPT ![w] = done]
      BY <1>15, <2>1, <2>3 DEF iter_end, NewLap
    <2>5. PICK W : W = [kind |-> walk[w].kind, chain |-> c, saved |-> link.next[c]]
      OBVIOUS
    <2>6. walk' = [walk EXCEPT ![w] = W]
      BY <1>15, <2>1, <2>5 DEF iter_end, Wraps, At
    <2>7. T \subseteq RulesOf(W.chain) /\ Exact(RuleList(W.chain), T, done, W.chain, W.saved)
      BY <1>1, <2>2, <2>3, <2>5, LapStart
    <2> QED BY <1>2, <2>2, <2>4, <2>6, <2>7, MoveFull
  <1>16. ASSUME NEW w \in Walkers, walk_close(w) PROVE FullInv'
    <2>1. /\ walk' = [walk EXCEPT ![w] = NoWalk] /\ UNCHANGED heap
          /\ stable' = [stable EXCEPT ![w] = {}] /\ seen' = [seen EXCEPT ![w] = <<>>]
      BY <1>16 DEF walk_close
    <2>2. NoWalk.kind = "none"
      BY DEF NoWalk
    <2> QED BY <1>2, <2>1, <2>2, MoveFull
  <1> QED
    BY <1>3, <1>4, <1>5, <1>6, <1>7, <1>8, <1>9, <1>10, <1>11, <1>12, <1>13, <1>14,
       <1>15, <1>16
       DEF Next, vars, heap, walks, lookup_byindex, iter_null

-------------------------------------------------------------------------------
(* The refinement of RuleSeqs.                                             *)

\* The sequences that the lists implement.
Lists == [c \in Chains |-> IF c \in live THEN RuleList(c) ELSE <<>>]

\* The states of the loop of nftnl_rule_lookup_byindex, one per step.
NthSteps(next, c, n, at) ==
    at = [i \in 0 .. n |-> IF i = 0 THEN next[c]
                           ELSE IF at[i - 1] = c THEN c ELSE next[at[i - 1]]]

\* There is one sequence of states.
LEMMA NthUnique ==
    ASSUME NEW next, NEW c, NEW n \in Nat,
           NEW g, NthSteps(next, c, n, g), NEW h, NthSteps(next, c, n, h)
    PROVE  g = h
  <1> DEFINE T == {i \in Nat : i \in 0 .. n => g[i] = h[i]}
  <1>1. 0 \in T
    BY DEF NthSteps
  <1>2. ASSUME NEW i \in Nat, i \in T PROVE i + 1 \in T
    <2> SUFFICES ASSUME i + 1 \in 0 .. n PROVE g[i + 1] = h[i + 1]
      OBVIOUS
    <2>1. g[i] = h[i] /\ i + 1 # 0 /\ (i + 1) - 1 = i
      BY <1>2
    <2>2. \A j \in 0 .. n : j # 0 =>
             /\ g[j] = IF g[j - 1] = c THEN c ELSE next[g[j - 1]]
             /\ h[j] = IF h[j - 1] = c THEN c ELSE next[h[j - 1]]
      BY DEF NthSteps
    <2> QED BY <2>1, <2>2
  <1> HIDE DEF T
  <1>3. Nat \subseteq T
    BY <1>1, <1>2, SetInduction
  <1>4. \A i \in 0 .. n : g[i] = h[i]
    BY <1>3 DEF T
  <1>5. g = [i \in 0 .. n |-> g[i]] /\ h = [i \in 0 .. n |-> h[i]]
    BY DEF NthSteps
  <1> QED BY <1>4, <1>5

\* The steps along the links of a list.
LEMMA NthAlong ==
    ASSUME NEW R, NEW s \in Seq(R), NEW c, c \notin R, NEW next,
           Chained(next, next[c], s, c), NEW n \in Nat
    PROVE  NthSteps(next, c, n, [i \in 0 .. n |-> IF i < Len(s) THEN s[i + 1] ELSE c])
  <1> DEFINE g == [i \in 0 .. n |-> IF i < Len(s) THEN s[i + 1] ELSE c]
  <1>1. Len(s) \in Nat /\ \A i \in 1 .. Len(s) : s[i] \in R
    OBVIOUS
  <1>2. next[c] = IF Len(s) = 0 THEN c ELSE s[1]
    BY EmptySeq DEF Chained
  <1>3. \A i \in 1 .. Len(s) : next[s[i]] = IF i = Len(s) THEN c ELSE s[i + 1]
    BY DEF Chained
  <1>4. ASSUME NEW i \in 0 .. n
        PROVE  g[i] = IF i = 0 THEN next[c]
                      ELSE IF g[i - 1] = c THEN c ELSE next[g[i - 1]]
    <2>1. CASE i = 0
      BY <1>1, <1>2, <2>1
    <2>2. CASE i # 0 /\ i <= Len(s)
      <3>1. g[i - 1] = s[i] /\ s[i] # c
        BY <1>1, <2>2
      <3>2. next[s[i]] = IF i = Len(s) THEN c ELSE s[i + 1]
        BY <1>3, <2>2
      <3>3. g[i] = IF i = Len(s) THEN c ELSE s[i + 1]
        BY <1>1, <2>2
      <3> QED BY <2>2, <3>1, <3>2, <3>3
    <2>3. CASE i > Len(s)
      BY <1>1, <2>3
    <2> QED BY <1>1, <2>1, <2>2, <2>3
  <1> QED BY <1>4 DEF NthSteps

\* The states that the loop goes through.
NthStates(next, c, n) ==
    LET at[i \in 0 .. n] ==
          IF i = 0 THEN next[c]
          ELSE IF at[i - 1] = c THEN c ELSE next[at[i - 1]]
    IN  at

\* They are the ones that satisfy the equation of the loop.
LEMMA NthChosen ==
    ASSUME NEW next, NEW c, NEW n \in Nat, NEW g, NthSteps(next, c, n, g)
    PROVE  NthStates(next, c, n) = g
  <1>1. \A h : NthSteps(next, c, n, h) => h = g
    BY NthUnique
  <1> QED BY <1>1 DEF NthStates, NthSteps

\* A lookup by index answers by position.
LEMMA NthIs ==
    ASSUME IInv, ListsExact, NEW c \in Chains \cap live, NEW n \in Nat
    PROVE  Nth(c, n) = IF n < Len(RuleList(c)) THEN RuleList(c)[n + 1] ELSE NULL
  <1>1. PICK s : s = RuleList(c)
    OBVIOUS
  <1>2. s \in Seq(Rules) /\ c \notin Rules
    BY <1>1, InList DEF IInv
  <1>3. Chained(link.next, link.next[c], s, c)
    BY <1>1 DEF ListsExact, IsList
  <1>4. PICK g : g = [i \in 0 .. n |-> IF i < Len(s) THEN s[i + 1] ELSE c]
    OBVIOUS
  <1>5. NthSteps(link.next, c, n, g)
    BY <1>2, <1>3, <1>4, NthAlong
  <1>6. PICK h : h = NthStates(link.next, c, n)
    OBVIOUS
  <1>7. h = g
    BY <1>5, <1>6, NthChosen
  <1>10. Nth(c, n) = IF h[n] = c THEN NULL ELSE h[n]
    BY <1>6 DEF Nth, NthStates
  <1>8. g[n] = IF n < Len(s) THEN s[n + 1] ELSE c
    BY <1>4
  <1>9. n < Len(s) => s[n + 1] # c
    BY <1>2
  <1> QED BY <1>1, <1>7, <1>8, <1>9, <1>10

\* The rules that the sequences hold.
LEMMA ListedRules ==
    ASSUME IInv, ListsExact
    PROVE  Abs!Listed = {r \in Rules : home[r] # NULL}
  <1>1. TypeOK /\ RingIntegrity
    BY DEF IInv
  <1>2. \A c \in Chains : Abs!ToSet(Lists[c]) = IF c \in live THEN RulesOf(c) ELSE {}
    <2> SUFFICES ASSUME NEW c \in Chains
                 PROVE  Abs!ToSet(Lists[c]) = IF c \in live THEN RulesOf(c) ELSE {}
      OBVIOUS
    <2>1. CASE c \in live
      BY <1>1, <2>1, InList DEF Lists, Abs!ToSet, ToSet
    <2>2. CASE c \notin live
      BY <2>2 DEF Lists, Abs!ToSet
    <2> QED BY <2>1, <2>2
  <1>3. \A r \in Rules : home[r] # NULL => home[r] \in Chains \cap live
    BY <1>1 DEF RingIntegrity, Linked, Home, TypeOK
  <1>4. Abs!Listed = UNION {Abs!ToSet(Lists[c]) : c \in Chains}
    BY DEF Abs!Listed, Lists
  <1>5. ASSUME NEW r \in Abs!Listed PROVE r \in Rules /\ home[r] # NULL
    <2>1. PICK c \in Chains : r \in Abs!ToSet(Lists[c])
      BY <1>4
    <2>2. r \in RulesOf(c)
      BY <1>2, <2>1
    <2> QED BY <2>2, NodesAssumption DEF RulesOf, Nodes, Poisons
  <1>6. ASSUME NEW r \in Rules, home[r] # NULL PROVE r \in Abs!Listed
    <2>1. home[r] \in Chains \cap live
      BY <1>3, <1>6
    <2>2. r \in Abs!ToSet(Lists[home[r]])
      BY <1>2, <2>1 DEF RulesOf
    <2> QED BY <1>4, <2>1, <2>2
  <1> QED BY <1>5, <1>6

\* An edit of one list is an edit of one sequence.
LEMMA EditIs ==
    ASSUME NEW c \in Chains \cap live, NEW t, ListBecomes(c, t), live' = live
    PROVE  Lists' = [Lists EXCEPT ![c] = t]
  BY DEF ListBecomes, Lists, RuleList

\* The initial states map to initial states of RuleSeqs.
LEMMA AbsInit == Init => Abs!Init
  BY DEF Init, Abs!Init, Call, Abs!Call

\* One step of any call is a step of RuleSeqs or changes nothing its caller sees.
LEMMA AbsNext ==
    ASSUME FullInv, FullInv', [Next]_vars
    PROVE  [Abs!Next]_(Abs!vars)
  <1>1. TypeOK /\ IInv /\ RingIntegrity /\ NoDanglingWalk /\ ListsExact
    BY DEF FullInv, IInv
  <1>2. TypeOK' /\ ListsExact'
    BY DEF FullInv, IInv
  <1>3. Abs!vars = << Lists, op >> /\ Abs!vars' = << Lists', op' >>
    BY DEF Abs!vars, Lists
  <1>4. ASSUME Lists' = Lists, op' = op PROVE [Abs!Next]_(Abs!vars)
    BY <1>3, <1>4
  <1>5. \A r \in Rules : Unlisted(r) => r \notin Abs!Listed
    BY <1>1, ListedRules DEF Unlisted
  <1>6. \A s, i, e : Abs!InsertAt(s, i, e) = InsertAt(s, i, e)
    BY DEF Abs!InsertAt, InsertAt
  <1>7. \A s, i : Abs!RemoveAt(s, i) = RemoveAt(s, i)
    BY DEF Abs!RemoveAt, RemoveAt
  <1>8. \A f, r, at, ret : Abs!Call(f, r, at, ret) = Call(f, r, at, ret)
    BY DEF Abs!Call, Call
  <1>9. \A c \in Chains \cap live : /\ Lists[c] = RuleList(c)
                                    /\ RuleList(c) \in Seq(Rules)
                                    /\ DOMAIN Lists[c] = 1 .. Len(RuleList(c))
    BY <1>1, InList DEF Lists
  <1>10. ASSUME NEW c \in Chains, chain_alloc(c) PROVE [Abs!Next]_(Abs!vars)
    <2>1. ListBecomes(c, <<>>)
      BY <1>1, <1>2, <1>10, ChainAllocLists
    <2>2. c \notin live /\ live' = live \cup {c} /\ op' = op
      BY <1>10 DEF chain_alloc
    <2>3. Lists' = Lists
      BY <2>1, <2>2 DEF ListBecomes, Lists, RuleList
    <2> QED BY <1>4, <2>2, <2>3
  <1>11. ASSUME NEW c \in Chains, chain_free(c) PROVE [Abs!Next]_(Abs!vars)
    <2>1. \A d \in Chains \cap live' :
             d \in live /\ RingFrom(link', d, Cardinality(Rules)) = RuleList(d)
      <3>1. PICK S : S = {c} \cup RulesOf(c)
        OBVIOUS
      <3> QED BY <1>1, <1>2, <1>11, <3>1, FreeLists
    <2>2. live' = live \ ({c} \cup RulesOf(c)) /\ op' = Call("chain_free", NULL, c, NULL)
      BY <1>11 DEF chain_free
    <2>3. \A d \in Chains : d \in live' <=> d \in live /\ d # c
      BY <2>2, NodesAssumption DEF RulesOf
    <2>4. Lists' = [Lists EXCEPT ![c] = <<>>]
      BY <2>1, <2>3 DEF Lists, RuleList
    <2>5. Abs!chain_free(c)
      BY <1>8, <2>2, <2>4 DEF Abs!chain_free, Lists
    <2> QED BY <2>5 DEF Abs!Next
  <1>12. ASSUME NEW r \in Rules, rule_alloc(r) \/ rule_free(r) PROVE [Abs!Next]_(Abs!vars)
    <2>1. \A d \in Chains \cap live' :
             d \in live /\ RingFrom(link', d, Cardinality(Rules)) = RuleList(d)
      <3>1. PICK S : S = {r}
        OBVIOUS
      <3> QED BY <1>1, <1>2, <1>12, <3>1, FreeLists
    <2>2. op' = op /\ \A d \in Chains : d \in live' <=> d \in live
      BY <1>12, NodesAssumption DEF rule_alloc, rule_free
    <2>3. Lists' = Lists
      BY <2>1, <2>2 DEF Lists, RuleList
    <2> QED BY <1>4, <2>2, <2>3
  <1>13. ASSUME NEW r \in Rules, rule_del(r) PROVE [Abs!Next]_(Abs!vars)
    <2>1. PICK c \in Chains \cap live : c = home[r]
      BY <1>1, <1>2, <1>13, DelLists
    <2>2. PICK i \in 1 .. Len(RuleList(c)) :
             RuleList(c)[i] = r /\ ListBecomes(c, RemoveAt(RuleList(c), i))
      BY <1>1, <1>2, <1>13, <2>1, DelLists
    <2>3. PICK t : t = RemoveAt(RuleList(c), i)
      OBVIOUS
    <2>4. live' = live /\ op' = Call("del", r, NULL, NULL)
      BY <1>13 DEF rule_del
    <2>5. Lists' = [Lists EXCEPT ![c] = t]
      BY <2>2, <2>3, <2>4, EditIs
    <2>6. i \in DOMAIN Lists[c] /\ Lists[c][i] = r /\ t = Abs!RemoveAt(Lists[c], i)
      BY <1>7, <1>9, <2>2, <2>3
    <2>7. Abs!rule_del(r)
      BY <1>8, <2>4, <2>5, <2>6 DEF Abs!rule_del, Lists
    <2> QED BY <2>7 DEF Abs!Next
  <1>14. ASSUME NEW r \in Rules, NEW c \in Chains, rule_add(r, c) PROVE [Abs!Next]_(Abs!vars)
    <2>1. /\ c \in Chains \cap live /\ Unlisted(r) /\ live' = live
          /\ op' = Call("add", r, c, NULL)
      BY <1>14 DEF rule_add
    <2>2. PICK t : t = InsertAt(RuleList(c), 1, r)
      OBVIOUS
    <2>3. Lists' = [Lists EXCEPT ![c] = t]
      <3>1. ListBecomes(c, t)
        BY <1>1, <1>2, <1>14, <2>2, AddLists
      <3> QED BY <2>1, <3>1, EditIs
    <2>4. t = Abs!InsertAt(Lists[c], 1, r)
      BY <1>6, <1>9, <2>1, <2>2
    <2>5. Abs!rule_add(r, c)
      BY <1>5, <1>8, <2>1, <2>3, <2>4 DEF Abs!rule_add, Abs!Put, Lists
    <2> QED BY <2>5 DEF Abs!Next
  <1>15. ASSUME NEW r \in Rules, NEW c \in Chains, rule_add_tail(r, c)
         PROVE  [Abs!Next]_(Abs!vars)
    <2>1. /\ c \in Chains \cap live /\ Unlisted(r) /\ live' = live
          /\ op' = Call("add_tail", r, c, NULL)
      BY <1>15 DEF rule_add_tail
    <2>2. PICK t : t = InsertAt(RuleList(c), Len(RuleList(c)) + 1, r)
      OBVIOUS
    <2>3. Lists' = [Lists EXCEPT ![c] = t]
      <3>1. ListBecomes(c, t)
        BY <1>1, <1>2, <1>15, <2>2, AddTailLists
      <3> QED BY <2>1, <3>1, EditIs
    <2>4. t = Abs!InsertAt(Lists[c], Len(Lists[c]) + 1, r)
      BY <1>6, <1>9, <2>1, <2>2
    <2>5. Abs!rule_add_tail(r, c)
      BY <1>5, <1>8, <2>1, <2>3, <2>4 DEF Abs!rule_add_tail, Abs!Put, Lists
    <2> QED BY <2>5 DEF Abs!Next
  <1>16. ASSUME NEW r \in Rules, NEW pos \in Rules, rule_insert_at(r, pos)
         PROVE  [Abs!Next]_(Abs!vars)
    <2>1. PICK c \in Chains \cap live : \E i \in 1 .. Len(RuleList(c)) :
             RuleList(c)[i] = pos /\ ListBecomes(c, InsertAt(RuleList(c), i, r))
      BY <1>1, <1>2, <1>16, InsertAtLists
    <2>2. PICK i \in 1 .. Len(RuleList(c)) :
             RuleList(c)[i] = pos /\ ListBecomes(c, InsertAt(RuleList(c), i, r))
      BY <2>1
    <2>3. PICK t : t = InsertAt(RuleList(c), i, r)
      OBVIOUS
    <2>4. Unlisted(r) /\ live' = live /\ op' = Call("insert_at", r, pos, NULL)
      BY <1>16 DEF rule_insert_at
    <2>5. Lists' = [Lists EXCEPT ![c] = t]
      BY <2>2, <2>3, <2>4, EditIs
    <2>6. i \in DOMAIN Lists[c] /\ Lists[c][i] = pos /\ t = Abs!InsertAt(Lists[c], i, r)
      BY <1>6, <1>9, <2>2, <2>3
    <2>7. Abs!rule_insert_at(r, pos)
      BY <1>5, <1>8, <2>4, <2>5, <2>6 DEF Abs!rule_insert_at, Abs!Put, Lists
    <2> QED BY <2>7 DEF Abs!Next
  <1>17. ASSUME NEW r \in Rules, NEW pos \in Rules, rule_append_at(r, pos)
         PROVE  [Abs!Next]_(Abs!vars)
    <2>1. PICK c \in Chains \cap live : \E i \in 1 .. Len(RuleList(c)) :
             RuleList(c)[i] = pos /\ ListBecomes(c, InsertAt(RuleList(c), i + 1, r))
      BY <1>1, <1>2, <1>17, AppendAtLists
    <2>2. PICK i \in 1 .. Len(RuleList(c)) :
             RuleList(c)[i] = pos /\ ListBecomes(c, InsertAt(RuleList(c), i + 1, r))
      BY <2>1
    <2>3. PICK t : t = InsertAt(RuleList(c), i + 1, r)
      OBVIOUS
    <2>4. Unlisted(r) /\ live' = live /\ op' = Call("append_at", r, pos, NULL)
      BY <1>17 DEF rule_append_at
    <2>5. Lists' = [Lists EXCEPT ![c] = t]
      BY <2>2, <2>3, <2>4, EditIs
    <2>6. i \in DOMAIN Lists[c] /\ Lists[c][i] = pos /\ t = Abs!InsertAt(Lists[c], i + 1, r)
      BY <1>6, <1>9, <2>2, <2>3
    <2>7. Abs!rule_append_at(r, pos)
      BY <1>5, <1>8, <2>4, <2>5, <2>6 DEF Abs!rule_append_at, Abs!Put, Lists
    <2> QED BY <2>7 DEF Abs!Next
  <1>18. ASSUME UNCHANGED heap PROVE Lists' = Lists
    BY <1>18 DEF heap, Lists, RuleList
  <1>19. ASSUME NEW c \in Chains, NEW index \in 0 .. Cardinality(RulesOf(c)),
                lookup_byindex(c, index)
         PROVE  [Abs!Next]_(Abs!vars)
    <2>1. c \in Chains \cap live /\ UNCHANGED heap
          /\ op' = Call("lookup", index, c, Nth(c, index))
      BY <1>19 DEF lookup_byindex
    <2>2. Len(RuleList(c)) = Cardinality(RulesOf(c)) /\ Lists[c] = RuleList(c)
      BY <1>1, <1>9, <2>1, InList
    <2>3. index \in 0 .. Len(Lists[c]) /\ index \in Nat
      BY <2>2
    <2>4. Nth(c, index) = IF index < Len(Lists[c]) THEN Lists[c][index + 1] ELSE NULL
      BY <1>1, <2>1, <2>2, <2>3, NthIs
    <2>5. Abs!lookup_byindex(c, index)
      BY <1>8, <1>18, <2>1, <2>4 DEF Abs!lookup_byindex, Lists
    <2> QED BY <2>3, <2>5 DEF Abs!Next, Lists
  <1>20. ASSUME NEW w \in Walkers, Open(w), UNCHANGED heap, NEW r,
                r = NULL \/ (r = walk[w].saved /\ r \notin {NULL, walk[w].chain}),
                op' = Call("walk", NULL, walk[w].chain, r)
         PROVE  [Abs!Next]_(Abs!vars)
    <2>1. PICK c : c = walk[w].chain
      OBVIOUS
    <2>2. c \in Chains \cap live /\ (r = NULL \/ r \in ToSet(RuleList(c)))
      BY <1>1, <1>20, <2>1, WalkPlace
    <2>3. r = NULL \/ (r \in Rules /\ r \in Abs!ToSet(Lists[c]))
      BY <1>9, <2>2 DEF ToSet, Abs!ToSet
    <2>4. Abs!walk_next(c, r)
      BY <1>8, <1>18, <1>20, <2>1, <2>3 DEF Abs!walk_next, Lists
    <2> QED BY <2>2, <2>3, <2>4 DEF Abs!Next
  <1>21. ASSUME NEW w \in Walkers, foreach_next(w) \/ iter_next(w) \/ iter_end(w) \/ iter_null(w)
         PROVE  [Abs!Next]_(Abs!vars)
    <2>1. Open(w) /\ UNCHANGED heap
      BY <1>21 DEF foreach_next, iter_next, iter_end, iter_null, HandOut, Open
    <2>2. CASE iter_end(w) \/ iter_null(w)
      BY <1>20, <2>1, <2>2 DEF iter_end, iter_null
    <2>3. CASE iter_next(w)
      <3>1. walk[w].saved \notin {NULL, walk[w].chain}
        BY <2>3 DEF iter_next, Wraps
      <3> QED BY <1>20, <2>1, <2>3, <3>1 DEF iter_next, HandOut
    <2>4. CASE foreach_next(w)
      <3>1. walk[w].saved \notin {NULL, walk[w].chain}
        BY <1>1, <2>1, <2>4, NodesAssumption
           DEF foreach_next, NoDanglingWalk, Linked, Nodes, Poisons
      <3> QED BY <1>20, <2>1, <2>4, <3>1 DEF foreach_next, HandOut
    <2> QED BY <1>21, <2>2, <2>3, <2>4
  <1>22. ASSUME UNCHANGED << heap, op >> PROVE [Abs!Next]_(Abs!vars)
    BY <1>4, <1>18, <1>22
  <1> QED
    BY <1>10, <1>11, <1>12, <1>13, <1>14, <1>15, <1>16, <1>17, <1>19, <1>21, <1>22
       DEF Next, vars, heap, iter_create, foreach_start, walk_close

-------------------------------------------------------------------------------

\* The type invariant, and with it everything an open walk or a list_head
\* may hold (chain.c:102-142, 956).
THEOREM TypeCorrect == Spec => []TypeOK
  <1>1. IInv => TypeOK
    BY DEF IInv
  <1> QED BY <1>1, InitIInv, NextIInv, PTL DEF Spec

\* No sequence of list edits, allocations and releases of src/chain.c:102-568
\* breaks a ring, links two chains or leaves a freed rule in a list.
THEOREM ListsStayWellFormed == Spec => []RingIntegrity
  <1>1. IInv => RingIntegrity
    BY DEF IInv
  <1> QED BY <1>1, InitIInv, NextIInv, PTL DEF Spec

\* The rule an iterator or a foreach has saved (chain.c:934, 995) is allocated
\* and in the list of its chain whenever it is used.
THEOREM WalksNeverDangle == Spec => []NoDanglingWalk
  <1>1. IInv => NoDanglingWalk
    BY DEF IInv
  <1> QED BY <1>1, InitIInv, NextIInv, PTL DEF Spec

\* The list that starts at a chain holds every rule put in it and not taken
\* out again, each once: nothing is cut off, and nftnl_chain_free, which
\* frees what it finds in the list, frees them all (chain.c:121, 540-568).
THEOREM ListsHoldTheirRules == Spec => []ListHoldsRules
  <1>1. FullInv => ListHoldsRules
    BY InList DEF FullInv, IInv, ListHoldsRules
  <1> QED BY <1>1, InitFull, NextFull, PTL DEF Spec

\* However the caller edits the lists around them, any number of walks each
\* hand out every rule that stays in its list exactly once and in list order
\* (list_for_each_entry_safe in chain.c:934, nftnl_rule_iter_next in 986).
THEOREM WalksAreExact == Spec => []WalkExact
  <1>1. FullInv => WalkExact
    BY DEF FullInv
  <1> QED BY <1>1, InitFull, NextFull, PTL DEF Spec

\* The pointers of chain.c:102-142 and 540-999 implement sequences of rules:
\* every call edits the sequence of its chain as its name says and no other, a
\* lookup answers by position, and a walk hands out only listed rules.
THEOREM ListsAreSequences == Spec => ImplementsRuleSeqs
  <1>1. FullInv /\ FullInv' /\ [Next]_vars => [Abs!Next]_(Abs!vars)
    BY AbsNext
  <1> QED BY <1>1, AbsInit, InitFull, NextFull, PTL DEF Spec, ImplementsRuleSeqs, Abs!Spec
===============================================================================

------------------------------ MODULE ChainRules ------------------------------
(***************************************************************************)
(* The rules of chains, src/chain.c: the list operations of                *)
(* nftnl_chain_rule_*, the allocation and release of chains and rules, and *)
(* the walks a caller may have open over a chain while it goes on editing  *)
(* it: an iterator (nftnl_rule_iter) or a nftnl_rule_foreach whose         *)
(* callback is running.  A walk keeps a pointer to the rule it will hand   *)
(* out next, read before the caller's edits and used after them.           *)
(*                                                                         *)
(* The functions check nothing, so their guards are the contract of a      *)
(* caller: only an unlisted rule is added, only a listed one is deleted or *)
(* used as a position, only an unlisted one is freed, a chain with an open *)
(* walk is not freed, and the one rule a walk has saved is not deleted     *)
(* (every other rule may be, the one handed out last included: that is     *)
(* what list_for_each_entry_safe is for).                                  *)
(***************************************************************************)

EXTENDS LinuxList, SequencesExt, FiniteSets

CONSTANTS Chains, Rules, Walkers, NULL

Nodes == Chains \cup Rules
Poisons == {NULL, POISON1, POISON2}   \* what a field of an unlisted rule holds

ASSUME NodesAssumption ==
    /\ Chains \cap Rules = {}
    /\ Nodes \cap Poisons = {}

ASSUME FiniteAssumption == IsFiniteSet(Rules)   \* memory is finite

VARIABLES
    live,    \* chains and rules that are allocated
    link,    \* their list_head fields: rule_list of a chain, head of a rule
    home,    \* auxiliary: the chain whose list a rule is in, NULL if none
    walk,    \* open walks: [kind, chain, saved]
    stable,  \* auxiliary: rules listed in the chain during the whole lap
    seen,    \* auxiliary: the stable rules handed out in this lap, in order
    op       \* the last call, as in RuleSeqs

vars == << live, link, home, walk, stable, seen, op >>
heap == << live, link, home >>
walks == << walk, stable, seen >>

Call(fn, rule, at, ret) ==
    [fn |-> fn, rule |-> rule, at |-> at, ret |-> ret]

NoWalk == [kind |-> "none", chain |-> NULL, saved |-> NULL]

RulesOf(c) == {r \in Rules : home[r] = c}
Unlisted(r) == r \in live /\ home[r] = NULL
Open(w) == walk[w].kind # "none"

Init ==
    /\ live = {}
    /\ link = [next |-> [n \in Nodes |-> NULL], prev |-> [n \in Nodes |-> NULL]]
    /\ home = [r \in Rules |-> NULL]
    /\ walk = [w \in Walkers |-> NoWalk]
    /\ stable = [w \in Walkers |-> {}]
    /\ seen = [w \in Walkers |-> <<>>]
    /\ op = Call("none", NULL, NULL, NULL)

-------------------------------------------------------------------------------
(* Allocation and release.  An allocation that fails changes nothing.      *)
(* calloc zeroes the fields; those of freed memory may hold anything, and  *)
(* are shown as zero too.                                                  *)

Zero(S) ==
    [next |-> [n \in Nodes |-> IF n \in S THEN NULL ELSE link.next[n]],
     prev |-> [n \in Nodes |-> IF n \in S THEN NULL ELSE link.prev[n]]]

chain_alloc(c) ==
    /\ c \in Chains \ live
    /\ live' = live \cup {c}
    /\ link' = INIT_LIST_HEAD(link, c)
    /\ UNCHANGED << home, walks, op >>

\* Mutant: the rules of a chain stay allocated and listed.
chain_free_LeaksRules(c) ==
    /\ c \in Chains \cap live
    /\ \A w \in Walkers : walk[w].chain # c
    /\ live' = live \ {c}
    /\ link' = Zero({c})
    /\ op' = Call("chain_free", NULL, c, NULL)
    /\ UNCHANGED << home, walks >>

\* The rules of the chain are freed with it; nothing is unlinked.
chain_free(c) ==
    /\ c \in Chains \cap live
    /\ \A w \in Walkers : walk[w].chain # c
    /\ live' = live \ ({c} \cup RulesOf(c))
    /\ link' = Zero({c} \cup RulesOf(c))
    /\ home' = [r \in Rules |-> IF home[r] = c THEN NULL ELSE home[r]]
    /\ op' = Call("chain_free", NULL, c, NULL)
    /\ UNCHANGED walks

rule_alloc(r) ==
    /\ r \in Rules \ live
    /\ live' = live \cup {r}
    /\ link' = Zero({r})
    /\ UNCHANGED << home, walks, op >>

rule_free(r) ==
    /\ Unlisted(r)
    /\ live' = live \ {r}
    /\ link' = Zero({r})
    /\ UNCHANGED << home, walks, op >>

-------------------------------------------------------------------------------
(* nftnl_chain_rule_*: every one is a single call on the list.             *)

rule_add(r, c) ==
    /\ Unlisted(r) /\ c \in live
    /\ link' = list_add(link, r, c)
    /\ home' = [home EXCEPT ![r] = c]
    /\ op' = Call("add", r, c, NULL)
    /\ UNCHANGED << live, walks >>

rule_add_tail(r, c) ==
    /\ Unlisted(r) /\ c \in live
    /\ link' = list_add_tail(link, r, c)
    /\ home' = [home EXCEPT ![r] = c]
    /\ op' = Call("add_tail", r, c, NULL)
    /\ UNCHANGED << live, walks >>

\* Mutant: as nftnl_rule_list_insert_at of src/rule.c, which uses list_add.
rule_insert_at_After(r, pos) ==
    /\ Unlisted(r) /\ home[pos] # NULL
    /\ link' = list_add(link, r, pos)
    /\ home' = [home EXCEPT ![r] = home[pos]]
    /\ op' = Call("insert_at", r, pos, NULL)
    /\ UNCHANGED << live, walks >>

\* Before pos: list_add_tail with the position as the head.
rule_insert_at(r, pos) ==
    /\ Unlisted(r) /\ home[pos] # NULL
    /\ link' = list_add_tail(link, r, pos)
    /\ home' = [home EXCEPT ![r] = home[pos]]
    /\ op' = Call("insert_at", r, pos, NULL)
    /\ UNCHANGED << live, walks >>

\* After pos.
rule_append_at(r, pos) ==
    /\ Unlisted(r) /\ home[pos] # NULL
    /\ link' = list_add(link, r, pos)
    /\ home' = [home EXCEPT ![r] = home[pos]]
    /\ op' = Call("append_at", r, pos, NULL)
    /\ UNCHANGED << live, walks >>

rule_del(r) ==
    /\ home[r] # NULL
    /\ \A w \in Walkers : walk[w].saved # r
    /\ link' = list_del(link, r)
    /\ home' = [home EXCEPT ![r] = NULL]
    /\ stable' = [w \in Walkers |-> stable[w] \ {r}]
    /\ seen' = [w \in Walkers |-> Only(seen[w], Rules \ {r})]
    /\ op' = Call("del", r, NULL, NULL)
    /\ UNCHANGED << live, walk >>

\* nftnl_rule_lookup_byindex: index steps along the list from its first entry.
Nth(c, index) ==
    LET at[i \in 0 .. index] ==
          IF i = 0 THEN link.next[c]
          ELSE IF at[i - 1] = c THEN c ELSE link.next[at[i - 1]]
    IN  IF at[index] = c THEN NULL ELSE at[index]

lookup_byindex(c, index) ==
    /\ c \in live
    /\ op' = Call("lookup", index, c, Nth(c, index))
    /\ UNCHANGED << heap, walks >>

-------------------------------------------------------------------------------
(* Walks.  A lap begins when a walk stands before the first rule.          *)

NewLap(w, c) ==
    /\ stable' = [stable EXCEPT ![w] = RulesOf(c)]
    /\ seen' = [seen EXCEPT ![w] = <<>>]

\* An iterator over an empty list gets cur = NULL and never moves again.
iter_create(w, c) ==
    /\ ~ Open(w) /\ c \in live
    /\ walk' = [walk EXCEPT ![w] =
          [kind |-> "iter", chain |-> c,
           saved |-> IF list_empty(link, c) THEN NULL ELSE link.next[c]]]
    /\ NewLap(w, c)
    /\ UNCHANGED << heap, op >>

\* list_for_each_entry_safe before its first test: tmp is the first entry.
foreach_start(w, c) ==
    /\ ~ Open(w) /\ c \in live
    /\ walk' = [walk EXCEPT ![w] =
          [kind |-> "foreach", chain |-> c, saved |-> link.next[c]]]
    /\ NewLap(w, c)
    /\ UNCHANGED << heap, op >>

\* The walk w goes on to the entry n.
At(w, n) == [kind |-> walk[w].kind, chain |-> walk[w].chain, saved |-> n]

\* The saved rule is handed out and its successor saved in its place.
HandOut(w) ==
    LET r == walk[w].saved
    IN  /\ walk' = [walk EXCEPT ![w] = At(w, link.next[r])]
        /\ seen' = [seen EXCEPT ![w] = IF r \in stable[w] THEN Append(@, r) ELSE @]
        /\ op' = Call("walk", NULL, walk[w].chain, r)
        /\ UNCHANGED << heap, stable >>

foreach_next(w) ==
    /\ walk[w].kind = "foreach" /\ walk[w].saved # walk[w].chain
    /\ HandOut(w)

\* Mutant: it asks whether it arrived at the list head, one rule too early.
Wraps_AtHead(w) == link.next[walk[w].saved] = walk[w].chain

\* nftnl_rule_iter_next moves first and then asks whether it arrived at the
\* first rule: it did so only if it came from the list head.
Wraps(w) == link.next[walk[w].saved] = link.next[walk[w].chain]

iter_next(w) ==
    /\ walk[w].kind = "iter" /\ walk[w].saved # NULL /\ ~ Wraps(w)
    /\ HandOut(w)

\* NULL is returned, and the next call begins a new lap.
iter_end(w) ==
    /\ walk[w].kind = "iter" /\ walk[w].saved # NULL /\ Wraps(w)
    /\ walk' = [walk EXCEPT ![w] = At(w, link.next[walk[w].saved])]
    /\ NewLap(w, walk[w].chain)
    /\ op' = Call("walk", NULL, walk[w].chain, NULL)
    /\ UNCHANGED heap

\* An iterator created on an empty list.
iter_null(w) ==
    /\ walk[w].kind = "iter" /\ walk[w].saved = NULL
    /\ op' = Call("walk", NULL, walk[w].chain, NULL)
    /\ UNCHANGED << heap, walks >>

\* nftnl_rule_iter_destroy, a foreach whose callback returned a negative
\* value, or one that has reached the head.
walk_close(w) ==
    /\ Open(w)
    /\ walk' = [walk EXCEPT ![w] = NoWalk]
    /\ stable' = [stable EXCEPT ![w] = {}]
    /\ seen' = [seen EXCEPT ![w] = <<>>]
    /\ UNCHANGED << heap, op >>

-------------------------------------------------------------------------------

Next ==
    \/ \E c \in Chains : chain_alloc(c) \/ chain_free(c)
    \/ \E r \in Rules : rule_alloc(r) \/ rule_free(r) \/ rule_del(r)
    \/ \E r \in Rules, c \in Chains : rule_add(r, c) \/ rule_add_tail(r, c)
    \/ \E r, pos \in Rules : rule_insert_at(r, pos) \/ rule_append_at(r, pos)
    \/ \E c \in Chains : \E index \in 0 .. Cardinality(RulesOf(c)) :
          lookup_byindex(c, index)
    \/ \E w \in Walkers, c \in Chains : iter_create(w, c) \/ foreach_start(w, c)
    \/ \E w \in Walkers : \/ foreach_next(w)
                          \/ iter_next(w)
                          \/ iter_end(w)
                          \/ iter_null(w)
                          \/ walk_close(w)

Spec == Init /\ [][Next]_vars

-------------------------------------------------------------------------------
(* Properties.                                                             *)

\* Every variable has its type: the fields of a list_head hold a node, a
\* poison or zero, and a walk holds a chain and a node (chain.c:102-142, 956).
TypeOK ==
    /\ live \subseteq Nodes
    /\ link \in [next : [Nodes -> Nodes \cup Poisons],
                 prev : [Nodes -> Nodes \cup Poisons]]
    /\ home \in [Rules -> Chains \cup {NULL}]
    /\ walk \in [Walkers -> [kind : {"none", "iter", "foreach"},
                             chain : Chains \cup {NULL},
                             saved : Nodes \cup {NULL}]]
    /\ stable \in [Walkers -> SUBSET Rules]
    /\ seen \in [Walkers -> Seq(Rules)]

\* The nodes that take part in some list.
Linked == (Chains \cap live) \cup {r \in Rules : home[r] # NULL}

Home(n) == IF n \in Rules THEN home[n] ELSE n

\* Whatever the order of edits and releases, the list heads and listed rules
\* form well-formed rings of allocated nodes, and no link leads from the list
\* of one chain into that of another (chain.c:116-142, 540-568).
RingIntegrity ==
    /\ \A n \in Linked : n \in live /\ Home(n) \in live
    /\ Ring(link, Linked)
    /\ \A n \in Linked : Home(link.next[n]) = Home(n)

\* The pointer a walk has saved is never a freed or unlinked rule, or a rule
\* that meanwhile moved to another chain (chain.c:934, 995).
NoDanglingWalk ==
    \A w \in Walkers : Open(w) =>
        /\ walk[w].chain \in live
        /\ walk[w].saved # NULL \/ walk[w].kind = "foreach" =>
              /\ walk[w].saved \in Linked
              /\ Home(walk[w].saved) = walk[w].chain

RuleList(c) == RingFrom(link, c, Cardinality(Rules))

\* The list that starts at a chain holds every rule put in it and not taken
\* out again, each once: no edit cuts a part of it off, so nftnl_chain_free,
\* which frees what it finds there, frees them all (chain.c:121, 540-568).
ListHoldsRules ==
    \A c \in Chains \cap live :
        /\ ToSet(RuleList(c)) = RulesOf(c)
        /\ Len(RuleList(c)) = Cardinality(RulesOf(c))

\* What is left of the list s of the chain c for a walk that has saved r.
Ahead(s, c, r) ==
    IF r \in {NULL, c} THEN <<>>
    ELSE SubSeq(s, SelectInSeq(s, LAMBDA x : x = r), Len(s))

\* The walk w is where it should be in the list s: the rules of T handed out
\* so far, followed by those still ahead, are the rules of T in s.
Exact(s, T, done, c, r) == Only(s, T) = done \o Only(Ahead(s, c, r), T)

\* While the caller adds and deletes rules around it, a walk hands out each
\* rule that stays in the list during the whole lap exactly once and in list
\* order (list_for_each_entry_safe in chain.c:934, nftnl_rule_iter_next in 986).
WalkExact ==
    \A w \in Walkers : Open(w) =>
        Exact(RuleList(walk[w].chain), stable[w], seen[w], walk[w].chain, walk[w].saved)

\* The pointers implement sequences: every call changes the sequence of its
\* chain exactly as RuleSeqs says, and no other.
Abs == INSTANCE RuleSeqs
         WITH seqs <- [c \in Chains |-> IF c \in live THEN RuleList(c) ELSE <<>>]

ImplementsRuleSeqs == Abs!Spec
===============================================================================

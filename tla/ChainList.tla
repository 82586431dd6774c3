------------------------------- MODULE ChainList -------------------------------
(***************************************************************************)
(* The list of chains and its name index, src/chain.c: every chain that is *)
(* added is linked into the list and, by the hash of the name it has at    *)
(* that moment, into one hash chain.  The name of a listed chain may be    *)
(* set again (nftnl_chain_set_str); nothing rehashes it.                   *)
(*                                                                         *)
(* The functions check nothing: the guards are the caller's contract (a    *)
(* chain is named and in no list when it is added, a listed one is not     *)
(* freed).  A listed chain may lose its name, to an unset or to a set for  *)
(* which there is no memory; a lookup that meets it ends the process.      *)
(* src/set.c keeps its sets in the same way.                               *)
(***************************************************************************)

EXTENDS LinuxList, SequencesExt, FiniteSets

CONSTANTS Chains, Names, Buckets, NULL,
          List,    \* the struct nftnl_chain_list, and its list head
          Hash     \* djb_hash(name) % CHAIN_NAME_HSIZE

Nodes == Chains \cup {List}
Poisons == {NULL, POISON1, POISON2}

ASSUME ChainListAssumption ==
    /\ Hash \in [Names -> Buckets]
    /\ List \notin Chains
    /\ Chains \cap Buckets = {}
    /\ (Nodes \cup Buckets \cup Names) \cap Poisons = {}
    /\ POISON1 # NULL /\ POISON2 # NULL

ASSUME FiniteAssumption == IsFiniteSet(Chains)   \* memory is finite

VARIABLES
    live,     \* allocated chains, and List while it is
    name,     \* the name of a chain; NULL if c->name is NULL or was freed
    link,     \* list_head fields: list->list and chain->head
    hash,     \* name_hash and the hnode fields
    listedAs, \* auxiliary: the name a chain had when added, NULL if not listed
    recent,   \* auxiliary: the listed chains, the last added first
    op        \* the last call

vars == << live, name, link, hash, listedAs, recent, op >>

Call(fn, chain, nm, ret) == [fn |-> fn, chain |-> chain, name |-> nm, ret |-> ret]

\* A call that follows a name that is NULL or freed: it is undefined.
Fault == "fault"

Listed == {c \in Chains : listedAs[c] # NULL}

Init ==
    /\ live = {}
    /\ name = [c \in Chains |-> NULL]
    /\ link = [next |-> [n \in Nodes |-> NULL], prev |-> [n \in Nodes |-> NULL]]
    /\ hash = [first |-> [b \in Buckets |-> NULL],
               next  |-> [c \in Chains |-> NULL],
               pprev |-> [c \in Chains |-> NULL]]
    /\ listedAs = [c \in Chains |-> NULL]
    /\ recent = <<>>
    /\ op = Call("none", NULL, NULL, NULL)

-------------------------------------------------------------------------------

\* The memory of the nodes S, zeroed: calloc does it, and what freed memory
\* holds does not matter, so it is shown as zero too.
Zero(S) ==
    LET Clear(f) == [n \in DOMAIN f |-> IF n \in S THEN NULL ELSE f[n]]
    IN  /\ link' = [next |-> Clear(link.next), prev |-> Clear(link.prev)]
        /\ hash' = [first |-> [b \in Buckets |-> IF List \in S THEN NULL
                                                 ELSE hash.first[b]],
                    next  |-> Clear(hash.next),
                    pprev |-> Clear(hash.pprev)]
        /\ name' = Clear(name)

chain_alloc(c) ==
    /\ c \in Chains \ live
    /\ live' = live \cup {c}
    /\ Zero({c})
    /\ op' = Call("alloc", c, NULL, NULL)
    /\ UNCHANGED << listedAs, recent >>

chain_free(c) ==
    /\ c \in (Chains \cap live) \ Listed
    /\ live' = live \ {c}
    /\ Zero({c})
    /\ op' = Call("free", c, NULL, NULL)
    /\ UNCHANGED << listedAs, recent >>

\* nftnl_chain_set_str(c, NFTNL_CHAIN_NAME): also for a chain that is listed.
\* The old name is freed first, and without memory for the new one (NULL) there
\* is none.
set_name(c, nm) ==
    /\ c \in Chains \cap live
    /\ name' = [name EXCEPT ![c] = nm]
    /\ op' = Call("set_name", c, nm, NULL)
    /\ UNCHANGED << live, link, hash, listedAs, recent >>

\* nftnl_chain_unset(c, NFTNL_CHAIN_NAME): the name is freed, also of a chain
\* that is listed.
unset_name(c) ==
    /\ c \in Chains \cap live
    /\ name' = [name EXCEPT ![c] = NULL]
    /\ op' = Call("unset_name", c, NULL, NULL)
    /\ UNCHANGED << live, link, hash, listedAs, recent >>

chain_list_alloc ==
    /\ List \notin live
    /\ live' = live \cup {List}
    /\ link' = INIT_LIST_HEAD(link, List)
    /\ hash' = [hash EXCEPT !.first = [b \in Buckets |-> NULL]]
    /\ op' = Call("list_alloc", NULL, NULL, NULL)
    /\ UNCHANGED << name, listedAs, recent >>

\* Every listed chain is unlinked from both structures and freed.
chain_list_free ==
    /\ List \in live
    /\ live' = live \ (Listed \cup {List})
    /\ listedAs' = [c \in Chains |-> NULL]
    /\ recent' = <<>>
    /\ Zero(Listed \cup {List})
    /\ op' = Call("list_free", NULL, NULL, NULL)

\* What both additions share: the caller's contract and the name index.
Index(c) ==
    /\ List \in live /\ c \in (Chains \cap live) \ Listed /\ name[c] # NULL
    /\ hash' = hlist_add_head(hash, c, Hash[name[c]])
    /\ listedAs' = [listedAs EXCEPT ![c] = name[c]]
    /\ recent' = <<c>> \o recent
    /\ UNCHANGED << live, name >>

chain_list_add(c) ==
    /\ Index(c)
    /\ link' = list_add(link, c, List)
    /\ op' = Call("list_add", c, NULL, NULL)

chain_list_add_tail(c) ==
    /\ Index(c)
    /\ link' = list_add_tail(link, c, List)
    /\ op' = Call("list_add_tail", c, NULL, NULL)

chain_list_del(c) ==
    /\ c \in Listed
    /\ link' = list_del(link, c)
    /\ hash' = hlist_del(hash, c)
    /\ listedAs' = [listedAs EXCEPT ![c] = NULL]
    /\ recent' = Only(recent, Chains \ {c})
    /\ op' = Call("list_del", c, NULL, NULL)
    /\ UNCHANGED << live, name >>

Bucket(b) == HashChain(hash, b, Cardinality(Chains))

\* The first entry of s that is in T.
First(s, T) == IF Only(s, T) = <<>> THEN NULL ELSE Head(Only(s, T))

Named(nm) == {c \in Chains : name[c] = nm}

\* strcmp follows the name of a chain to the end of a name or to a fault.
Compared(c) == IF c # NULL /\ name[c] = NULL THEN Fault ELSE c

\* Mutant: the names are not compared, only their hashes.
LookupByName_HashOnly(nm) == First(Bucket(Hash[nm]), Chains)

\* The first chain of the bucket of nm whose name is nm now, or is not there.
LookupByName(nm) == Compared(First(Bucket(Hash[nm]), Named(nm) \cup Named(NULL)))

\* The process ends with all that it has, and another begins.
Restart ==
    /\ live' = {}
    /\ listedAs' = [c \in Chains |-> NULL]
    /\ recent' = <<>>
    /\ Zero(Nodes)

chain_list_lookup_byname(nm) ==
    /\ List \in live
    /\ op' = Call("lookup", NULL, nm, LookupByName(nm))
    /\ IF LookupByName(nm) = Fault THEN Restart
       ELSE UNCHANGED << live, name, link, hash, listedAs, recent >>

Next ==
    \/ \E c \in Chains : \/ chain_alloc(c)
                         \/ chain_free(c)
                         \/ unset_name(c)
                         \/ chain_list_add(c)
                         \/ chain_list_add_tail(c)
                         \/ chain_list_del(c)
    \/ \E c \in Chains, nm \in Names \cup {NULL} : set_name(c, nm)
    \/ \E nm \in Names : chain_list_lookup_byname(nm)
    \/ chain_list_alloc
    \/ chain_list_free

Spec == Init /\ [][Next]_vars

-------------------------------------------------------------------------------
(* Properties.                                                             *)

TypeOK ==
    /\ live \subseteq Nodes
    /\ name \in [Chains -> Names \cup {NULL}]
    /\ link \in [next : [Nodes -> Nodes \cup Poisons],
                 prev : [Nodes -> Nodes \cup Poisons]]
    /\ hash \in [first : [Buckets -> Chains \cup Poisons],
                 next  : [Chains -> Chains \cup Poisons],
                 pprev : [Chains -> Chains \cup Buckets \cup Poisons]]
    /\ listedAs \in [Chains -> Names \cup {NULL}]
    /\ recent \in Seq(Chains)

\* The bucket a listed chain was put in.
Key(c) == Hash[listedAs[c]]
Keyed(b) == {c \in Listed : Key(c) = b}

\* The pointers of the list and of the index are well formed whatever was
\* added, deleted or renamed in between: the listed chains and the head are
\* one ring; every next and pprev of the index points to an allocated, listed
\* chain of the same bucket, and the two agree (chain.c:1062-1085).
IndexLinks ==
    /\ Listed \subseteq live
    /\ Listed # {} => List \in live
    /\ List \in live => Ring(link, Listed \cup {List})
    /\ List \in live => \A b \in Buckets : hash.first[b] # NULL =>
          /\ hash.first[b] \in Listed
          /\ Key(hash.first[b]) = b
          /\ hash.pprev[hash.first[b]] = b
    /\ \A c \in Listed :
          /\ \/ hash.pprev[c] = Key(c) /\ hash.first[Key(c)] = c
             \/ hash.pprev[c] \in Listed /\ hash.next[hash.pprev[c]] = c
          /\ hash.next[c] # NULL =>
                /\ hash.next[c] \in Listed
                /\ Key(hash.next[c]) = Key(c)
                /\ hash.pprev[hash.next[c]] = c

\* The list and the index hold the same chains, each once, and a hash chain
\* runs from the chain added last to the one added first (chain.c:1062-1085).
IndexIsList ==
    List \in live =>
        /\ LET s == RingFrom(link, List, Cardinality(Chains))
           IN  Len(s) = Cardinality(Listed) /\ ToSet(s) = Listed
        /\ \A b \in Buckets : Bucket(b) = Only(recent, Keyed(b))

\* The shape of the memory, its pointers, and what they reach.
IndexIntegrity == TypeOK /\ IndexLinks /\ IndexIsList

\* What a lookup promises when names may collide, repeat and change: it finds
\* the last added of the listed chains that have the name now and had one of
\* the same hash when they were added; so a chain never renamed is never
\* missed, and no chain is found under a name it no longer has.  A chain of that
\* hash whose name was unset, or set without memory, is fatal, unless the one
\* that is found was added after it (chain.c:217-222, 1103-1117).
LookupExact ==
    [][op'.fn = "lookup" =>
          LET met == Keyed(Hash[op'.name]) \cap (Named(op'.name) \cup Named(NULL))
          IN  op'.ret = Compared(First(recent, met))]_vars
===============================================================================

------------------------------- MODULE RuleSeqs -------------------------------
(***************************************************************************)
(* What the rule-list functions of src/chain.c promise, without a pointer: *)
(* a chain is a sequence of rules, each call edits one sequence in one     *)
(* place, a lookup answers by position, and a walk only ever hands out     *)
(* rules that are in the sequence at that moment.  op is the last call as  *)
(* its caller sees it: the function, its arguments and what it returned.   *)
(***************************************************************************)

EXTENDS Naturals, SequencesExt

CONSTANTS Chains, Rules, NULL

VARIABLES seqs, op

vars == << seqs, op >>

Call(fn, rule, at, ret) ==
    [fn |-> fn, rule |-> rule, at |-> at, ret |-> ret]

Listed == UNION {ToSet(seqs[c]) : c \in Chains}

Init ==
    /\ seqs = [c \in Chains |-> <<>>]
    /\ op = Call("none", NULL, NULL, NULL)

\* The sequence of c gets rule as its i-th entry.
Put(rule, c, i) ==
    /\ rule \notin Listed
    /\ seqs' = [seqs EXCEPT ![c] = InsertAt(@, i, rule)]

rule_add(r, c) ==
    /\ op' = Call("add", r, c, NULL)
    /\ Put(r, c, 1)

rule_add_tail(r, c) ==
    /\ op' = Call("add_tail", r, c, NULL)
    /\ Put(r, c, Len(seqs[c]) + 1)

rule_insert_at(r, pos) ==
    /\ op' = Call("insert_at", r, pos, NULL)
    /\ \E c \in Chains : \E i \in DOMAIN seqs[c] :
          seqs[c][i] = pos /\ Put(r, c, i)

rule_append_at(r, pos) ==
    /\ op' = Call("append_at", r, pos, NULL)
    /\ \E c \in Chains : \E i \in DOMAIN seqs[c] :
          seqs[c][i] = pos /\ Put(r, c, i + 1)

rule_del(r) ==
    /\ op' = Call("del", r, NULL, NULL)
    /\ \E c \in Chains : \E i \in DOMAIN seqs[c] :
          /\ seqs[c][i] = r
          /\ seqs' = [seqs EXCEPT ![c] = RemoveAt(@, i)]

chain_free(c) ==
    /\ op' = Call("chain_free", NULL, c, NULL)
    /\ seqs' = [seqs EXCEPT ![c] = <<>>]

lookup_byindex(c, index) ==
    /\ op' = Call("lookup", index, c,
                  IF index < Len(seqs[c]) THEN seqs[c][index + 1] ELSE NULL)
    /\ UNCHANGED seqs

walk_next(c, r) ==
    /\ op' = Call("walk", NULL, c, r)
    /\ r \in ToSet(seqs[c]) \cup {NULL}
    /\ UNCHANGED seqs

Next ==
    \/ \E r \in Rules, c \in Chains :
          rule_add(r, c) \/ rule_add_tail(r, c) \/ walk_next(c, r)
    \/ \E r, pos \in Rules : rule_insert_at(r, pos) \/ rule_append_at(r, pos)
    \/ \E r \in Rules : rule_del(r)
    \/ \E c \in Chains : chain_free(c) \/ walk_next(c, NULL)
    \/ \E c \in Chains : \E i \in 0 .. Len(seqs[c]) : lookup_byindex(c, i)

Spec == Init /\ [][Next]_vars
===============================================================================

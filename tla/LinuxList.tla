------------------------------ MODULE LinuxList ------------------------------
(***************************************************************************)
(* The intrusive lists of include/linux_list.h, on which every container   *)
(* of the library is built: chains of a table, rules of a chain, elements  *)
(* and expressions of a set.  A list_head is a node; the links of all      *)
(* nodes form one record l = [next |-> f, prev |-> g].  A list is the ring *)
(* that starts at a head node, and an entry out of every list keeps        *)
(* whatever its two fields held last.                                      *)
(*                                                                         *)
(* Each operator performs the assignments of the C function in the order   *)
(* of the code (EXCEPT applies its updates from left to right, which       *)
(* matters when two of the arguments are the same node).                   *)
(***************************************************************************)

EXTENDS SeqParts

CONSTANTS POISON1, POISON2   \* LIST_POISON1, LIST_POISON2: never valid nodes

INIT_LIST_HEAD(l, ptr) ==
    [next |-> [l.next EXCEPT ![ptr] = ptr],
     prev |-> [l.prev EXCEPT ![ptr] = ptr]]

\* Mutant: the back pointer of the successor is forgotten.
list_add_between_NoBackLink(l, new, prev, next) ==
    [next |-> [l.next EXCEPT ![new] = next, ![prev] = new],
     prev |-> [l.prev EXCEPT ![new] = prev]]

\* __list_add: insert between two consecutive entries.
list_add_between(l, new, prev, next) ==
    [next |-> [l.next EXCEPT ![new] = next, ![prev] = new],
     prev |-> [l.prev EXCEPT ![next] = new, ![new] = prev]]

\* Insert new right after head (head may be any entry of the ring).
list_add(l, new, head) == list_add_between(l, new, head, l.next[head])

\* Insert new right before head.
list_add_tail(l, new, head) == list_add_between(l, new, l.prev[head], head)

\* Mutant: the forward pointer of the predecessor is not redirected.
list_del_KeepsForward(l, entry) ==
    [next |-> [l.next EXCEPT ![entry] = POISON1],
     prev |-> [l.prev EXCEPT ![l.next[entry]] = l.prev[entry],
                             ![entry] = POISON2]]

\* __list_del on the neighbours, then the entry is poisoned.
list_del(l, entry) ==
    [next |-> [l.next EXCEPT ![l.prev[entry]] = l.next[entry],
                             ![entry] = POISON1],
     prev |-> [l.prev EXCEPT ![l.next[entry]] = l.prev[entry],
                             ![entry] = POISON2]]

list_empty(l, head) == l.next[head] = head

(***************************************************************************)
(* What a loop over a list visits, in order: it starts at the entry first, *)
(* follows next while it stands on a node of S, and n steps at most.  The  *)
(* list_for_each macros stop at the head; at a value that is no node they  *)
(* would crash.                                                            *)
(***************************************************************************)
Follow(next, first, S, n) ==
    LET step[i \in 0 .. n] ==
          IF i = 0 THEN << <<>>, first >>
          ELSE LET s == step[i - 1]
               IN  IF s[2] \in S THEN << Append(s[1], s[2]), next[s[2]] >> ELSE s
    IN  step[n][1]

\* The entries of the ring of head, in list order.
RingFrom(l, head, n) == Follow(l.next, l.next[head], DOMAIN l.next \ {head}, n)

(***************************************************************************)
(* Ring(l, S): on the nodes S, next and prev are inverse bijections, so S  *)
(* is a disjoint union of well-formed rings and no link leaves S.          *)
(***************************************************************************)
Ring(l, S) ==
    \A n \in S : /\ l.next[n] \in S
                 /\ l.prev[n] \in S
                 /\ l.prev[l.next[n]] = n
                 /\ l.next[l.prev[n]] = n

(***************************************************************************)
(* The hash chains (struct hlist_head and hlist_node): h.first maps a      *)
(* bucket to its first node, h.next a node to its successor or NULL, and   *)
(* h.pprev a node to whatever holds the pointer to it, a bucket or a node. *)
(***************************************************************************)

\* What *pprev = to assigns.
Redirect(h, pprev, to) ==
    IF pprev \in DOMAIN h.first
    THEN [h EXCEPT !.first = [h.first EXCEPT ![pprev] = to]]
    ELSE [h EXCEPT !.next = [h.next EXCEPT ![pprev] = to]]

hlist_add_head(h, n, b) ==
    LET first == h.first[b]
    IN  [first |-> [h.first EXCEPT ![b] = n],
         next  |-> [h.next EXCEPT ![n] = first],
         pprev |-> [x \in DOMAIN h.pprev |-> IF x = n THEN b
                                             ELSE IF x = first THEN n
                                             ELSE h.pprev[x]]]

\* Mutant: the successor keeps its old back pointer.
hlist_del_NoBackLink(h, n) ==
    LET g == Redirect(h, h.pprev[n], h.next[n])
    IN  [first |-> g.first,
         next  |-> [g.next EXCEPT ![n] = POISON1],
         pprev |-> [g.pprev EXCEPT ![n] = POISON2]]

hlist_del(h, n) ==
    LET g == Redirect(h, h.pprev[n], h.next[n])
    IN  [first |-> g.first,
         next  |-> [g.next EXCEPT ![n] = POISON1],
         pprev |-> [x \in DOMAIN h.pprev |-> IF x = n THEN POISON2
                                             ELSE IF x = h.next[n] THEN h.pprev[n]
                                             ELSE h.pprev[x]]]

\* The nodes of bucket b in order, as hlist_for_each_entry visits them.
HashChain(h, b, n) == Follow(h.next, h.first[b], DOMAIN h.next, n)
==============================================================================

----------------------------- MODULE SetElemsDump -----------------------------
(***************************************************************************)
(* Sending the elements of a set in as many netlink messages as they need: *)
(* nftnl_set_elems_iter and nftnl_set_elems_nlmsg_build_payload_iter of    *)
(* src/set_elem.c.  The caller creates an iterator, builds one message     *)
(* after another while the builder returns a positive value, and destroys  *)
(* the iterator; elements are appended to the set (nftnl_set_elem_add) at  *)
(* any time between two calls.  One step is one turn of the builder's loop.*)
(***************************************************************************)

EXTENDS Integers, SequencesExt, FiniteSets

CONSTANTS Elems,
          Size,     \* bytes of the nest of an element, however many
          NestHdr,  \* bytes of the header of the list nest
          MaxNest,  \* UINT16_MAX, the most a nla_len can say
          ListHead, \* the list head of the set
          NULL

ASSUME DumpAssumption ==
    /\ Size \in [Elems -> Nat \ {0}]
    /\ NestHdr \in Nat /\ MaxNest \in Nat /\ NestHdr <= MaxNest
    /\ ListHead \notin Elems /\ NULL \notin Elems /\ ListHead # NULL

VARIABLES
    elems,  \* element_list of the set
    cur,    \* iter->cur: an element, ListHead, or NULL
    pc,     \* "none", "idle" between two messages, "build" in the loop, "done"
    elem,   \* the element the loop is about to write
    nest,   \* the elements in the nest being written
    len,    \* nlmsg_len, counted from the start of the nest
    out     \* auxiliary: the elements of the messages already complete

dumpVars == << elems, cur, pc, elem, nest, len, out >>

DumpInit ==
    /\ elems = <<>> /\ cur = NULL /\ pc = "none" /\ elem = NULL
    /\ nest = <<>> /\ len = 0 /\ out = <<>>

\* The list is circular: ListHead comes before the first and after the last.
IndexOf(e) == CHOOSE i \in DOMAIN elems : elems[i] = e

NextOf(e) ==
    LET i == IF e = ListHead THEN 0 ELSE IndexOf(e)
    IN  IF i = Len(elems) THEN ListHead ELSE elems[i + 1]

PrevOf(e) ==
    LET i == IF e = ListHead THEN Len(elems) + 1 ELSE IndexOf(e)
    IN  IF i = 1 THEN ListHead ELSE elems[i - 1]

elem_add(e) ==
    /\ pc # "build"
    /\ e \notin ToSet(elems)
    /\ elems' = Append(elems, e)
    /\ UNCHANGED << cur, pc, elem, nest, len, out >>

\* An iterator over an empty set gets cur = NULL, for good.
iter_create ==
    /\ pc = "none"
    /\ pc' = "idle"
    /\ cur' = IF elems = <<>> THEN NULL ELSE elems[1]
    /\ UNCHANGED << elems, elem, nest, len, out >>

\* nftnl_set_elems_iter_next moves first and then asks whether it arrived at
\* the first element: it did so only if it came from the list head.
Wraps == NextOf(cur) = NextOf(ListHead)

\* Mutant: cur is not moved.
iter_next_Stays ==
    /\ cur' = cur
    /\ elem' = IF cur = NULL \/ Wraps THEN NULL ELSE cur

\* Mutant: nothing tells the list head from an element.
iter_next_NoWrap ==
    /\ cur' = IF cur = NULL THEN NULL ELSE NextOf(cur)
    /\ elem' = cur

\* elem = nftnl_set_elems_iter_next(iter)
iter_next ==
    /\ cur' = IF cur = NULL THEN NULL ELSE NextOf(cur)
    /\ elem' = IF cur = NULL \/ Wraps THEN NULL ELSE cur

\* A set without elements: the message has no nest, and 0 is returned.
build_empty ==
    /\ pc = "idle" /\ elems = <<>>
    /\ pc' = "done"
    /\ UNCHANGED << elems, cur, elem, nest, len, out >>

build_start ==
    /\ pc = "idle" /\ elems # <<>>
    /\ nest' = <<>> /\ len' = NestHdr
    /\ iter_next
    /\ pc' = "build"
    /\ UNCHANGED << elems, out >>

\* nla_len of the nest of an element: the high bits of a longer nest are lost.
NlaLen(e) == Size[e] % (MaxNest + 1)

\* Mutant: only the elements before this one are measured.
Overflow_OneLate(e) == len > MaxNest

\* Mutant: the header of the nest is counted twice.
Overflow_HdrTwice(e) == len + NestHdr + NlaLen(e) > MaxNest

\* nftnl_attr_nest_overflow, once e has been written: it takes the length of e
\* from its nla_len.
Overflow(e) == len + NlaLen(e) > MaxNest

\* The element passes: the next one is fetched.
build_elem ==
    /\ pc = "build" /\ elem # NULL /\ ~ Overflow(elem)
    /\ nest' = Append(nest, elem)
    /\ len' = len + Size[elem]
    /\ iter_next
    /\ UNCHANGED << elems, pc, out >>

\* Mutant: the iterator does not go back, and the element is missed.
build_overflow_NoBack ==
    /\ pc = "build" /\ elem # NULL /\ Overflow(elem)
    /\ pc' = "idle" /\ elem' = NULL
    /\ len' = len + Size[elem] - NlaLen(elem)
    /\ out' = out \o nest
    /\ UNCHANGED << elems, cur, nest >>

\* It does not: nla_len bytes are taken off the message again, the iterator
\* goes back to it, and 1 is returned.
build_overflow ==
    /\ pc = "build" /\ elem # NULL /\ Overflow(elem)
    /\ cur' = PrevOf(cur)
    /\ pc' = "idle" /\ elem' = NULL
    /\ len' = len + Size[elem] - NlaLen(elem)
    /\ out' = out \o nest
    /\ UNCHANGED << elems, nest >>

\* The elements are exhausted: 0 is returned.
build_end ==
    /\ pc = "build" /\ elem = NULL
    /\ pc' = "done"
    /\ out' = out \o nest
    /\ UNCHANGED << elems, cur, elem, nest, len >>

iter_destroy ==
    /\ pc = "done"
    /\ pc' = "none" /\ cur' = NULL
    /\ out' = <<>> /\ nest' = <<>> /\ len' = 0
    /\ UNCHANGED << elems, elem >>

build == build_empty \/ build_start \/ build_elem \/ build_overflow \/ build_end

DumpNext ==
    \/ \E e \in Elems : elem_add(e)
    \/ iter_create \/ iter_destroy
    \/ build

\* The caller repeats the call while it returns a positive value, and a call
\* that has begun runs to its end.
DumpSpec == DumpInit /\ [][DumpNext]_dumpVars /\ WF_dumpVars(build)

-------------------------------------------------------------------------------
(* Properties.                                                             *)

Phases == {"none", "idle", "build", "done"}

TypeOK ==
    /\ elems \in Seq(Elems)
    /\ cur \in Elems \cup {ListHead, NULL}
    /\ pc \in Phases
    /\ elem \in Elems \cup {NULL}
    /\ nest \in Seq(Elems)
    /\ len \in Nat
    /\ out \in Seq(Elems)

\* The nest of an element is longer than its nla_len can say.
Truncated(e) == Size[e] > MaxNest

\* What has been written since the start of the list nest is no longer than
\* its 16-bit length can say, "the maximum payload that an attribute can
\* convey is UINT16_MAX" (set_elem.c:877), unless the nest of an element is
\* itself too long for its nla_len: such an element is the last one in the
\* nest, or was refused and could be taken off again only in part
\* (set_elem.c:875-882).
NestFits ==
    /\ len > MaxNest => \/ nest # <<>> /\ Truncated(Last(nest))
                        \/ pc = "idle" /\ cur \in Elems /\ Truncated(cur)
    /\ \A i \in 1 .. Len(nest) - 1 : ~ Truncated(nest[i])

\* What is written so far, in complete messages and in the current one, also if
\* it is longer than the lengths in the message say.
Written == IF pc = "build" THEN out \o nest ELSE out

\* However elements are appended between the messages and wherever they
\* overflow, what was written is a beginning of the set: no element is
\* missed, repeated or out of order (set_elem.c:851, 904-914).
DumpExact ==
    /\ Len(Written) <= Len(elems)
    /\ Written = SubSeq(elems, 1, Len(Written))

\* When the builder returns 0 all elements of the set are out, the ones
\* appended during the dump included; only an iterator created while the set
\* was empty sees none (set_elem.c:834, 899, 917).
DumpComplete ==
    [][pc # "done" /\ pc' = "done" => out' = elems' \/ cur = NULL]_dumpVars

\* By its nla_len an element does not fit beside the header of the list.  One
\* whose nest wraps to a small nla_len is not among these: it is sent.
Oversize(e) == NestHdr + NlaLen(e) > MaxNest

\* Such an element is never skipped and never sent: every further message has
\* an empty nest and a positive return value, and a caller that goes on while
\* it is positive never gets out (set_elem.c:875, 905-912).
OversizeStalls ==
    [](pc = "idle" /\ cur \in Elems /\ Oversize(cur)
          => [](pc \in {"idle", "build"}))

\* The calls of the caller amount to an ElemStream: every message carries the
\* next elements of the set and the dump ends, unless it comes to an element
\* that is refused in every message (set_elem.c:875, 888-918).
Phase == IF pc \in {"none", "done"} THEN pc
         ELSE IF cur = NULL THEN "blind" ELSE "dumping"

Abs == INSTANCE ElemStream
         WITH phase <- Phase, Unsendable <- {e \in Elems : Oversize(e)}

ImplementsElemStream == Abs!Spec
===============================================================================

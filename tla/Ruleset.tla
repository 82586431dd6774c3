------------------------------- MODULE Ruleset -------------------------------
(***************************************************************************)
(* A ruleset: up to four lists, of tables, chains, sets and rules, that the*)
(* program hands over, and their text, printed into a buffer               *)
(* (nftnl_ruleset_snprintf) or to a file (nftnl_ruleset_fprintf).          *)
(*                                                                         *)
(* A ruleset frees the lists it has.  Which ones those are is told by the  *)
(* bits of flags alone: the pointers stay when a list is taken out.        *)
(*                                                                         *)
(* A text is a sequence of characters, here the pair of an object and a    *)
(* number.  The parser of rulesets is a stub that always fails; what would *)
(* be called by it (nftnl_ruleset_cb) or with its context never is.        *)
(***************************************************************************)
EXTENDS SequencesExt, FiniteSets, Naturals

CONSTANTS Lists,        \* lists that the program can make
          ListKind,     \* the attribute each can be given for
          Objects,      \* objects to be put in lists
          TextLength,   \* length of the text of each
          BUFSIZ,       \* NFTNL_SNPRINTF_BUFSIZ
          MaxSize,      \* largest buffer of the program
          MaxObjects    \* objects in a list
Kinds == <<"TABLELIST", "CHAINLIST", "SETLIST", "RULELIST">>
RulesetAssumption ==
  /\ ListKind \in [Lists -> Range(Kinds)]
  /\ TextLength \in [Objects -> Nat \ {0}]
  /\ {BUFSIZ, MaxSize, MaxObjects} \subseteq Nat /\ BUFSIZ > 0

VARIABLES
  rs,        \* the ruleset: flags and four pointers; or none
  list,      \* who has each list, and the objects in it
  again,     \* the program handed over a list that the ruleset had already
  out        \* what the last call printed and returned

vars == <<rs, list, again, out>>

Null    == "null"
NoText  == [by |-> "none"]
Fault   == [by |-> "fault"]
NEWLINE == <<"newline">>
NUL     == <<"nul">>

\* A list is freed with its objects.
Free(lists) == [l \in Lists |-> IF l \in lists
                                THEN [by |-> "freed", objs |-> <<>>]
                                ELSE list[l]]
\* The lists that the bits of flags say the ruleset has.
Held == {rs.ptr[a] : a \in rs.flags}

Init ==
  /\ rs = [flags |-> {}, ptr |-> [a \in Range(Kinds) |-> Null]]
  /\ list = [l \in Lists |-> [by |-> "nobody", objs |-> <<>>]]
  /\ again = FALSE
  /\ out = NoText

Running == out = NoText

-----------------------------------------------------------------------------
(* Lists and who has them *)

Placed == UNION {Range(list[l].objs) : l \in Lists}

list_alloc(l) ==
  /\ Running
  /\ list[l].by = "nobody"
  /\ list' = [list EXCEPT ![l].by = "program"]
  /\ UNCHANGED <<rs, again, out>>

\* The program may add to a list it has handed over.
list_add_tail(o, l) ==
  /\ Running
  /\ list[l].by \in {"program", "ruleset"}
  /\ o \notin Placed /\ Len(list[l].objs) < MaxObjects
  /\ list' = [list EXCEPT ![l].objs = Append(@, o)]
  /\ UNCHANGED <<rs, again, out>>

\* The list of an attribute is freed, if its bit is set; a list freed before
\* is read again.
Unset(a) == IF a \in rs.flags THEN Free({rs.ptr[a]}) ELSE list
Twice(a) == a \in rs.flags /\ list[rs.ptr[a]].by = "freed"

ruleset_unset(a) ==
  /\ Running
  /\ a \in rs.flags
  /\ list' = Unset(a)
  /\ rs' = [rs EXCEPT !.flags = @ \ {a}]
  /\ out' = IF Twice(a) THEN Fault ELSE NoText
  /\ UNCHANGED again

\* Mutant: the old list is forgotten, not freed.
ruleset_set_forgets(l) ==
  LET a == ListKind[l] IN
    /\ Running
    /\ list[l].by = "program"
    /\ list' = [list EXCEPT ![l].by = "ruleset"]
    /\ rs' = [flags |-> rs.flags \cup {a}, ptr |-> [rs.ptr EXCEPT ![a] = l]]
    /\ UNCHANGED <<again, out>>

\* The old list is freed first: if it is the new one, the ruleset is left with
\* a list that is gone.
ruleset_set(l) ==
  LET a == ListKind[l] IN
    /\ Running
    /\ list[l].by \in {"program", "ruleset"}
    /\ list' = IF l \in Held THEN Unset(a)
               ELSE [Unset(a) EXCEPT ![l].by = "ruleset"]
    /\ rs' = [flags |-> rs.flags \cup {a}, ptr |-> [rs.ptr EXCEPT ![a] = l]]
    /\ again' = (again \/ l \in Held)
    /\ out' = IF Twice(a) THEN Fault ELSE NoText

\* The ruleset is freed with what it has, and the program begins another.
ruleset_free ==
  /\ Running
  /\ list' = Free(Held)
  /\ rs' = [rs EXCEPT !.flags = {}, !.ptr = [a \in Range(Kinds) |-> Null]]
  /\ out' = IF \E a \in rs.flags : Twice(a) THEN Fault ELSE NoText
  /\ UNCHANGED again

-----------------------------------------------------------------------------
(* Printing into a buffer *)

ObjectText(o) == [i \in 1..TextLength[o] |-> <<o, i>>]

Least(m, n) == IF m < n THEN m ELSE n

\* What snprintf writes of a text into a number of bytes.
Cut(text, remain) == IF remain = 0 THEN <<>>
                     ELSE Append(SubSeq(text, 1, Least(Len(text), remain - 1)), NUL)

\* Written over the bytes from an offset on, which may be past them if there
\* is nothing to write.
Overlay(bytes, at, new) ==
  IF new = <<>> THEN bytes ELSE SubSeq(bytes, 1, at) \o new

Blank(remain) == [offset |-> 0, remain |-> remain, bytes |-> <<>>]

\* Mutant: the NUL of each piece counts as room that is used.
Advance_nul(at, ret, new) ==
  [offset |-> at.offset + ret,
   remain |-> at.remain - Least(ret + 1, at.remain),
   bytes  |-> Overlay(at.bytes, at.offset, new)]

\* SNPRINTF_BUFFER_SIZE.
Advance(at, ret, new) ==
  [offset |-> at.offset + ret,
   remain |-> at.remain - Least(ret, at.remain),
   bytes  |-> Overlay(at.bytes, at.offset, new)]

Snprint(at, text) == Advance(at, Len(text), Cut(text, at.remain))

\* nftnl_ruleset_snprintf_table, _chain, _set, _rule.
SnprintList(objs, remain) ==
  FoldLeftDomain(LAMBDA at, i :
             Snprint(IF i = 1 THEN Snprint(at, <<>>) ELSE Snprint(at, <<NEWLINE>>),
                     ObjectText(objs[i])),
           Blank(remain), objs)

\* The kinds to print.
Printed == SelectSeq(Kinds, LAMBDA a : a \in rs.flags /\ list[rs.ptr[a]].objs # <<>>)
ObjectsOf(a) == list[rs.ptr[a]].objs

\* Nothing of a list is printed without memory for its iterator (fails).  A
\* separator follows if something of a list went into the buffer: what is
\* tested is ret, which SNPRINTF_BUFFER_SIZE has cut to the space left.
SnprintKind(state, a, fails) ==
  LET first == a = "TABLELIST"
      sep   == IF first THEN state.at
               ELSE Snprint(state.at, IF state.sep THEN <<NEWLINE>> ELSE <<>>)
      inner == IF a \in fails THEN Blank(sep.remain)
               ELSE SnprintList(ObjectsOf(a), sep.remain)
  IN  [at |-> Advance(sep, inner.offset, inner.bytes),
       sep |-> state.sep \/ Least(inner.offset, sep.remain) > 0]

RulesetSnprintf(size, fails) ==
  LET end == FoldLeft(LAMBDA state, a : SnprintKind(state, a, fails),
                      [at |-> Blank(size), sep |-> FALSE], Printed)
  IN  [by |-> "snprintf", ret |-> end.at.offset, fails |-> fails, size |-> size,
       bytes |-> IF Printed = <<>> THEN Cut(<<>>, size) ELSE end.at.bytes]

Dangling == \E l \in Held : list[l].by = "freed"

snprintf(size, fails) ==
  /\ Running
  /\ fails \subseteq Range(Printed)
  /\ out' = IF Dangling THEN Fault ELSE RulesetSnprintf(size, fails)
  /\ UNCHANGED <<rs, list, again>>

-----------------------------------------------------------------------------
(* Printing to a file *)

\* A call that may fail, and what it writes.
Call(text) == <<[writes |-> text]>>

\* nftnl_fprintf: through a buffer of its own, or one that is allocated for a
\* text that does not fit.
ObjectFprintf(o) ==
  LET text == ObjectText(o)
  IN  IF Len(text) >= BUFSIZ THEN Call(<<>>) \o Call(text) ELSE Call(text)

\* nftnl_ruleset_fprintf_tables, _chains, _sets, _rules: the iterator, and a
\* separator and a text for each object.
FprintList(objs) ==
  FoldLeftDomain(LAMBDA calls, i :
             calls \o Call(IF i = 1 THEN <<>> ELSE <<NEWLINE>>)
                   \o ObjectFprintf(objs[i]),
           Call(<<>>), objs)

FprintKind(state, a) ==
  [calls |-> state.calls
               \o (IF a = "TABLELIST" THEN <<>>
                   ELSE Call(IF state.sep THEN <<NEWLINE>> ELSE <<>>))
               \o FprintList(ObjectsOf(a)),
   sep |-> TRUE]

\* Everything that is called if nothing fails.
Calls == FoldLeft(FprintKind, [calls |-> <<>>, sep |-> FALSE], Printed).calls

\* The call number bad fails, or none.
RulesetFprintf(bad) ==
  LET done    == SubSeq(Calls, 1, Least(bad - 1, Len(Calls)))
      written == FoldLeft(LAMBDA text, c : text \o c.writes, <<>>, done)
  IN  [by |-> "fprintf", bytes |-> written, failed |-> bad <= Len(Calls),
       ret |-> IF bad <= Len(Calls) THEN [error |-> 1]
               ELSE [length |-> Len(written)]]

fprintf(bad) ==
  /\ Running
  /\ bad \in 1..(Len(Calls) + 1)
  /\ out' = IF Dangling THEN Fault ELSE RulesetFprintf(bad)
  /\ UNCHANGED <<rs, list, again>>

\* The program goes on; after a fault, another process begins.
resume ==
  /\ ~Running
  /\ out' = NoText
  /\ IF out = Fault
     THEN /\ rs' = [flags |-> {}, ptr |-> [a \in Range(Kinds) |-> Null]]
          /\ list' = [l \in Lists |-> [by |-> "nobody", objs |-> <<>>]]
          /\ again' = FALSE
     ELSE UNCHANGED <<rs, list, again>>

Next ==
  \/ \E l \in Lists : list_alloc(l)
  \/ \E l \in Lists, o \in Objects : list_add_tail(o, l)
  \/ \E l \in Lists : ruleset_set(l)
  \/ \E a \in Range(Kinds) : ruleset_unset(a)
  \/ ruleset_free
  \/ \E size \in 0..MaxSize, fails \in SUBSET Range(Kinds) : snprintf(size, fails)
  \/ \E bad \in 1..(Len(Calls) + 1) : fprintf(bad)
  \/ resume

Spec == Init /\ [][Next]_vars

-----------------------------------------------------------------------------
(* Properties *)

\* The shape of the state.
TypeOK ==
  /\ rs.flags \subseteq Range(Kinds)
  /\ \A a \in Range(Kinds) : rs.ptr[a] \in {Null} \cup {l \in Lists : ListKind[l] = a}
  /\ \A l \in Lists : /\ list[l].by \in {"nobody", "program", "ruleset", "freed"}
                      /\ Range(list[l].objs) \subseteq Objects
  /\ \A l \in Lists : list[l].by \in {"nobody", "freed"} => list[l].objs = <<>>

\* Between the bits and the lists there is no slack: what a bit claims is
\* there, so that nothing is read or freed that was freed before, and a list
\* handed over is claimed by a bit until it is freed, so that nothing is lost.
\* The one way out is handing over a list that the ruleset has already.
Owned ==
  ~again =>
    /\ \A a \in rs.flags : list[rs.ptr[a]].by = "ruleset"
    /\ \A l \in Lists : list[l].by = "ruleset" => l \in Held
    /\ out # Fault

\* All objects of the ruleset, tables first and rules last, with one newline
\* between any two.
Joined(objs) ==
  FoldLeftDomain(LAMBDA text, i : text \o (IF i = 1 THEN <<>> ELSE <<NEWLINE>>)
                               \o ObjectText(objs[i]),
           <<>>, objs)
Contents(kinds) ==
  FoldLeft(LAMBDA objs, a : objs \o ObjectsOf(a), <<>>, kinds)
Text == Joined(Contents(Printed))

\* What the length lacks when nothing is written: the newlines between lists.
Uncounted(size) ==
  IF size > 0 \/ Printed = <<>> THEN 0 ELSE Len(Printed) - 1

\* A buffer of any size has the beginning of the text, ended within it and
\* nothing written behind it, and the length returned is that of all of it;
\* but a call that only asks for the length, with a buffer of size 0, gets
\* one too small by a newline for every list behind the first: nothing goes
\* into such a buffer, and so no separator is ever set (utils.h:57-60,
\* ruleset.c:446, 459, 472).
\* A list whose iterator could not be allocated is missing, the rest is there.
SnprintfExact ==
  out.by = "snprintf" =>
    LET left == SelectSeq(Printed, LAMBDA a : a \notin out.fails)
        Objs(bytes) == SelectSeq(bytes, LAMBDA c : c \notin {NEWLINE, NUL})
    IN  /\ Len(out.bytes) <= out.size
        /\ out.fails = {} => /\ out.ret = Len(Text) - Uncounted(out.size)
                             /\ out.bytes = Cut(Text, out.size)
        /\ IsPrefix(Objs(out.bytes), Objs(Joined(Contents(left))))
        /\ out.ret < out.size => Objs(out.bytes) = Objs(Joined(Contents(left)))

\* A file gets the same text, however long the text of one object, and its
\* length is returned; when a call fails, an error is returned and the file
\* has the beginning.
FprintfExact ==
  out.by = "fprintf" =>
    IF out.failed THEN /\ out.ret = [error |-> 1]
                       /\ IsPrefix(out.bytes, Text)
    ELSE /\ out.bytes = Text
         /\ out.ret = [length |-> Len(Text)]
=============================================================================

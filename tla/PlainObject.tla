----------------------------- MODULE PlainObject -----------------------------
(***************************************************************************)
(* A table, chain, rule, set, set element or flowtable: the program sets   *)
(* and unsets attributes and adds expressions, builds a message, and a     *)
(* reader parses it, into an object that may hold what earlier messages    *)
(* left.  PlainTables says what each type does.                            *)
(*                                                                         *)
(* The program uses a new object for each message, and the reader a message*)
(* at a time, so a message is built and read at once.  A value is the      *)
(* number of the message it was set for, and 0 if nothing was ever stored. *)
(* Of an expression it only matters whether the reader's library knows it. *)
(***************************************************************************)
EXTENDS PlainTables, SequencesExt, FiniteSets

CONSTANT Bounds  \* of a program: the types it uses, how many attributes it
                 \* sets and expressions it adds for one message, and how many
                 \* messages are read into one object
BoundsAssumption ==
  \A b \in Bounds :
    /\ b.kinds \subseteq DOMAIN kinds
    /\ b.bits \in Nat /\ b.exprs \in Nat /\ b.reads \in Nat \ {0}

VARIABLES
  bound,     \* one of Bounds
  kind,      \* the type
  mine,      \* the object of the program
  theirs,    \* the object of the reader
  result,    \* what the last parsing told
  read       \* the objects whose messages were read into it

vars == <<bound, kind, mine, theirs, result, read>>

ExprKinds == {"rule", "set", "set_elem"}
Exprs     == {"known", "newer"}
Freed     == "freed"
\* The attributes that are set, with their values, and the expressions.
New      == [attrs |-> <<>>, exprs |-> <<>>]
Flags(x) == DOMAIN x.attrs
Given(x, a, v) ==
  [x EXCEPT !.attrs = [b \in Flags(x) \cup {a} |-> IF b = a THEN v ELSE @[b]]]
Marked(x, a)   == Given(x, a, IF a \in Flags(x) THEN x.attrs[a] ELSE 0)

Init ==
  /\ bound \in Bounds /\ kind \in bound.kinds
  /\ mine = New /\ theirs = New /\ result = "none" /\ read = <<>>

-----------------------------------------------------------------------------
(* The program *)

Room(a)  == a \in Flags(mine) \/ Cardinality(Flags(mine)) < bound.bits
\* A reader that has been told of a failure, or is at the bound, ends here.
Busy     == Len(read) < bound.reads /\ result \in {"none", "ok"}
OwnWork == Busy /\ UNCHANGED <<bound, kind, theirs, result, read>>

set(a) ==
  /\ OwnWork
  /\ a \in kinds[kind].store /\ Room(a)
  /\ mine' = Given(mine, a, Len(read) + 1)

\* set_data has no case for these: the bit is set, and the value lost.
set_bit(a) ==
  /\ OwnWork
  /\ a \in kinds[kind].bits /\ Room(a)
  /\ mine' = Marked(mine, a)

\* Where the bit is kept nothing happens.
unset(a) ==
  /\ OwnWork
  /\ a \in Flags(mine) \ {"EXPR", "EXPRESSIONS"}
  /\ a \notin kinds[kind].keeps
  /\ mine' = [mine EXCEPT !.attrs = [b \in Flags(mine) \ {a} |-> @[b]]]

add_expr(e) ==
  /\ OwnWork
  /\ kind \in ExprKinds /\ Len(mine.exprs) < bound.exprs
  /\ mine' = [mine EXCEPT !.exprs = Append(@, e)]

\* EXPR on a list that is not empty would be another matter: ObjectMemory.
set_expr(e) ==
  /\ OwnWork
  /\ kind \in ExprKinds \ {"rule"} /\ mine.exprs = <<>> /\ bound.exprs > 0
  /\ Room("EXPR")
  /\ mine' = [Marked(mine, "EXPR") EXCEPT !.exprs = <<e>>]

-----------------------------------------------------------------------------
(* The builder *)

Puts(k, x) ==
  {p \in kinds[k].build : /\ p.with \cup {p.attr} \subseteq Flags(x)
                          /\ p.without \cap Flags(x) = {}}
Build(k, x) ==
  [exprs |-> x.exprs,
   attrs |-> [at \in {p.at : p \in Puts(k, x)} |->
                LET p == CHOOSE p \in Puts(k, x) : p.at = at
                IN  [how |-> p.how, val |-> x.attrs[p.attr]]]]

-----------------------------------------------------------------------------
(* The reader *)

Valid(type, p) ==
  CASE type = "U32"    -> p.how = "be32"
    [] type = "U64"    -> p.how = "be64"
    [] type = "STRING" -> p.how = "strz"
    [] OTHER           -> TRUE                           \* NESTED
Breaks(k, m) ==
  \E c \in kinds[k].cb : c.at \in DOMAIN m.attrs /\ ~Valid(c.type, m.attrs[c.at])

Decode(how, p) == IF how = p.how \/ <<how, p.how>> = <<"str", "strz">> THEN p.val
                  ELSE -1

\* What the message has of some attributes goes into the object.
TakeAttrs(x, rows, m) ==
  LET taken == {t \in rows : t.at \in DOMAIN m.attrs}
      given == {t.attr : t \in taken}
      val(a) == LET t == CHOOSE t \in taken : t.attr = a
                IN  Decode(t.how, m.attrs[t.at])
  IN  [x EXCEPT !.attrs = [a \in Flags(x) \cup given |->
                             IF a \in given THEN val(a) ELSE @[a]]]

\* An expression alone and a list of them differ, but not for a rule.
ListBit(exprs) == IF Len(exprs) = 1 THEN "EXPR" ELSE "EXPRESSIONS"
\* A set puts an expression alone in front of those it has.
Joined(k, old, exprs) == IF k = "set" /\ Len(exprs) = 1 THEN exprs \o old
                         ELSE old \o exprs
TakeExprs(k, x, exprs) ==
  LET marked == IF k = "rule" \/ exprs = <<>> THEN x ELSE Marked(x, ListBit(exprs))
  IN  [marked EXCEPT !.exprs = Joined(k, @, exprs)]

\* Those before one that is not known; a set frees all it has, and keeps them.
Before(exprs) ==
  LET first == CHOOSE i \in DOMAIN exprs : /\ exprs[i] = "newer"
                                           /\ \A j \in 1..i - 1 : exprs[j] # "newer"
  IN  SubSeq(exprs, 1, first - 1)
Spoilt(k, old, exprs) == IF k = "set" THEN <<Freed>> ELSE old \o Before(exprs)

\* An element that cannot be read is released, and the others are left as they
\* are.  The family comes last.
Partial(k, x, m) ==
  IF k = "set_elem" THEN New
  ELSE [TakeAttrs(x, kinds[k].parse, m) EXCEPT !.exprs = Spoilt(k, @, m.exprs)]
Whole(k, x, m) ==
  LET all == TakeExprs(k, TakeAttrs(x, kinds[k].parse \cup kinds[k].rest, m), m.exprs)
  IN  IF k = "set_elem" THEN all ELSE Marked(all, "FAMILY")

Told(how, x) == [result |-> how, obj |-> x]

\* Mutant: what an unknown expression tells is looked at in the end only.
Parse_late(k, x, m) ==
  IF Breaks(k, m) THEN Told("exit", x)
  ELSE IF Contains(m.exprs, "newer")
  THEN Told("fail", Partial(k, TakeAttrs(x, kinds[k].rest, m), m))
  ELSE Told("ok", Whole(k, x, m))

Parse(k, x, m) ==
  IF Breaks(k, m) THEN Told("exit", x)
  ELSE IF Contains(m.exprs, "newer") THEN Told("fail", Partial(k, x, m))
  ELSE Told("ok", Whole(k, x, m))

\* A new element is allocated for each that is read.
hand_over ==
  /\ Busy
  /\ LET r == Parse(kind, IF kind = "set_elem" THEN New ELSE theirs,
                    Build(kind, mine))
     IN  theirs' = r.obj /\ result' = r.result
  /\ read' = Append(read, mine) /\ mine' = New
  /\ UNCHANGED <<bound, kind>>

\* Both begin again, with another type.
renew ==
  /\ read # <<>>
  /\ mine' = New /\ theirs' = New /\ result' = "none" /\ read' = <<>>
  /\ kind' \in bound.kinds
  /\ UNCHANGED bound

Next ==
  \/ \E a \in kinds[kind].store : set(a)
  \/ \E a \in kinds[kind].bits : set_bit(a)
  \/ \E a \in Flags(mine) : unset(a)
  \/ \E e \in Exprs : add_expr(e)
  \/ \E e \in Exprs : set_expr(e)
  \/ hand_over
  \/ renew

Spec == Init /\ [][Next]_vars

-----------------------------------------------------------------------------
(* Properties *)

Attrs(k) ==
  kinds[k].store \cup kinds[k].bits \cup {"FAMILY", "EXPR", "EXPRESSIONS"}
Object(x) ==
  /\ Flags(x) \subseteq Attrs(kind)
  /\ \A a \in Flags(x) : x.attrs[a] \in 0..bound.reads
  /\ x.exprs \in Seq(Exprs \cup {Freed})

\* The shape of objects, and of results.
TypeOK ==
  /\ Object(mine) /\ Object(theirs)
  /\ result \in {"none", "ok", "fail", "exit"}

\* No message this library builds makes a reader with the same library exit
\* (abi_breakage, utils.c:327).
NoExit == result # "exit"

\* What does not arrive: what only the kernel sends, attributes of a hook,
\* counters or a compatibility of which one is missing, several devices if
\* there is one, and the size of a flowtable.
Both(x, a, b) == IF {a, b} \subseteq Flags(x) THEN {} ELSE {a, b}
Lost(k, x) ==
  CASE k = "table" -> {"USE", "OWNER"}
    [] k = "chain" ->
         Both(x, "HOOKNUM", "PRIO") \cup Both(x, "PACKETS", "BYTES")
         \cup (IF {"HOOKNUM", "PRIO"} \subseteq Flags(x) THEN {} ELSE {"DEV"})
         \cup (IF {"HOOKNUM", "PRIO"} \subseteq Flags(x) /\ "DEV" \notin Flags(x)
               THEN {} ELSE {"DEVICES"})
    [] k = "rule"      -> Both(x, "COMPAT_PROTO", "COMPAT_FLAGS")
    [] k = "elem_list" -> Flags(x) \ {"TABLE", "NAME", "ID"}
    [] k = "flowtable" -> {"SIZE"}
    [] OTHER           -> {}
Sent(k, x) == Flags(x) \ (Lost(k, x) \cup {"EXPR", "EXPRESSIONS"})

\* The messages that count: an element has only the last.
Counting == IF kind = "set_elem" THEN {Len(read)} ELSE DOMAIN read

ListBits == IF kind = "rule" THEN {}
            ELSE {ListBit(read[i].exprs) :
                    i \in {j \in Counting : read[j].exprs # <<>>}}
\* The expressions of some objects, read one after another.
ExprsOf(k, objects) ==
  LET after[n \in 0..Len(objects)] ==
        IF n = 0 THEN <<>> ELSE Joined(k, after[n - 1], objects[n].exprs)
  IN  after[Len(objects)]

\* A reader has exactly what was set and is sent, under the same names and with
\* the same values.  One that reads into an object it has read into keeps what
\* the new message does not have, replaces what it has, and adds the
\* expressions to those that are there, whatever bits the program has set for
\* them.
Merged ==
  result = "ok" =>
    /\ Flags(theirs) = (UNION {Sent(kind, read[i]) : i \in Counting}) \cup ListBits
                        \cup (IF kind = "set_elem" THEN {} ELSE {"FAMILY"})
    /\ \A a \in Flags(theirs) \ {"FAMILY", "EXPR", "EXPRESSIONS"} :
         \E i \in Counting :
           /\ a \in Sent(kind, read[i])
           /\ \A j \in Counting : j > i => a \notin Sent(kind, read[j])
           /\ theirs.attrs[a] = read[i].attrs[a]
    /\ theirs.exprs = IF kind = "set_elem" THEN Last(read).exprs
                      ELSE ExprsOf(kind, read)

\* A message with an expression the reader does not know leaves what comes
\* before it in the order of parsing, and nothing behind: of a rule the names,
\* the handle and the expressions before, of a set all but the expressions,
\* which are gone, and of an element nothing.  The family is missing if no
\* message before was whole.
PartialParse ==
  result = "fail" =>
    LET last == Last(read)
        got  == {a \in Flags(theirs) : theirs.attrs[a] = Len(read)} IN
      /\ Contains(last.exprs, "newer")
      /\ got = CASE kind = "rule" -> Flags(last) \cap {"TABLE", "CHAIN", "HANDLE"}
                 [] kind = "set"  -> Sent(kind, last)
                 [] OTHER         -> {}
      /\ kind = "rule" =>
           theirs.exprs = ExprsOf(kind, Front(read)) \o Before(last.exprs)
      /\ kind = "set" => theirs.exprs = <<Freed>>
      /\ "FAMILY" \in Flags(theirs) <=> kind # "set_elem" /\ Len(read) > 1

\* What was read from one message and is sent on is the same message: nothing
\* is lost, or gained, by a program that stores what it reads and restores it.
Relay ==
  result = "ok" /\ Len(read) = 1 =>
    Build(kind, theirs) = Build(kind, read[1])

\* tests/nft-flowtable-test.c:65 sets the number of uses of a flowtable, and
\* line 33 insists that the reader gets the same: the value that was given for
\* the last message, which is the number of that message.
UseArrives ==
  result = "ok" /\ kind = "flowtable" /\ "USE" \in Flags(Last(read)) =>
    theirs.attrs["USE"] = Len(read)
=============================================================================

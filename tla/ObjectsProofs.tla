----------------------------- MODULE ObjectsProofs -----------------------------
(***************************************************************************)
(* Tables, chains, rules, sets, elements and flowtables, for a program that*)
(* sets any attributes, adds any expressions and has any number of messages*)
(* read into one object: Merged and PartialParse.                          *)
(*                                                                         *)
(* First the tables of each type, which are finite: TablesAgree says what  *)
(* the rest needs of them.  No two attributes share a place, what is put   *)
(* somewhere is taken from there into the attribute it came from, and      *)
(* passes the callbacks; what is put is what Sent says, and an object that *)
(* has just what was sent puts the same again.                             *)
(*                                                                         *)
(* Then one message (WholeIs, PartialIs), and one after another: Core is   *)
(* what a reader has after some messages that were read to the end, and    *)
(* CoreSteps that one more keeps it.  PlainInv, the inductive invariant,   *)
(* says of the reader no more than that its object came from a Core by one *)
(* message (Answered), and the properties follow.  It needs the values to  *)
(* be numbered by message: how PartialParse tells what is new.             *)
(*                                                                         *)
(* The last part is about the dump of the elements of a set, of any sizes: *)
(* what is written is always a beginning of the set, a list nest is longer *)
(* than its length can say only by an element whose own nest is, and when  *)
(* the builder returns 0 everything is out.                                *)
(* DumpIInv says where the cursor stands: one behind the element about to  *)
(* be written, which is the first that is not written yet.  That the cursor*)
(* knows the end of a lap by arriving at the first element again needs the *)
(* elements to be distinct and the list head to be none of them.           *)
(***************************************************************************)
EXTENDS Objects, SetElemsDump, ListLemmas

\* Entries of the tables of PlainTables.
Place(attr, at, how, with, without) ==
  [attr |-> attr, at |-> at, how |-> how, with |-> with, without |-> without]
Row(at, attr, how) == [at |-> at, attr |-> attr, how |-> how]
Insist(at, type)   == [at |-> at, type |-> type]

\* The fields of the entries of the tables.
LEMMA PlaceIs == \A attr, at, how, with, without :
  /\ Place(attr, at, how, with, without).attr = attr
  /\ Place(attr, at, how, with, without).at = at
  /\ Place(attr, at, how, with, without).how = how
  /\ Place(attr, at, how, with, without).with = with
  /\ Place(attr, at, how, with, without).without = without
BY DEF Place

LEMMA RowIs == \A at, attr, how :
  /\ Row(at, attr, how).at = at
  /\ Row(at, attr, how).attr = attr
  /\ Row(at, attr, how).how = how
BY DEF Row

LEMMA InsistIs == \A at, type : Insist(at, type).at = at /\ Insist(at, type).type = type
BY DEF Insist

\* Places are told apart by how long they are and what they say.
LEMMA AtIs ==
  /\ \A a : Len(P!Top(a)) = 1 /\ P!Top(a)[1] = a
  /\ \A n, a : Len(P!In(n, a)) = 2 /\ P!In(n, a)[1] = n /\ P!In(n, a)[2] = a
BY DEF P!Top, P!In

\* What is in the tables that PutAll, TakeAll and the like make.
LEMMA PutsAre ==
  /\ \A as, how, p : p \in P!PutAll(as, how) <=>
                       \E a \in as : p = Place(a, P!Top(a), how, {}, {})
  /\ \A attr, at, how, with, without, p :
       p \in P!PutIf(attr, at, how, with, without) <=>
         p = Place(attr, at, how, with, without)
BY DEF P!PutAll, P!Put, P!PutIf, Place

LEMMA TakesAre ==
  /\ \A as, how, p : p \in P!TakeAll(as, how) <=>
                       \E a \in as : p = Row(P!Top(a), a, how)
  /\ \A attr, at, how, p : p \in P!Take(at, attr, how) <=> p = Row(at, attr, how)
BY DEF P!TakeAll, P!Take, Row

LEMMA ChecksAre ==
  /\ \A as, type, p : p \in P!CheckAll(as, type) <=>
                       \E a \in as : p = Insist(P!Top(a), type)
  /\ \A as, outer, type, p : p \in P!CheckIn(outer, as, type) <=>
                       \E a \in as : p = Insist(P!In(outer, a), type)
BY DEF P!CheckAll, P!CheckIn, Insist

Rows(k)   == P!kinds[k].parse \cup P!kinds[k].rest
Places(k) == P!kinds[k].build

Header == {"FAMILY", "EXPR", "EXPRESSIONS"}
Own(k) == P!kinds[k].store \cup P!kinds[k].bits \cup {"EXPR"}

\* No two attributes share a place of a message, and none is read twice.
Distinct(k) ==
  /\ \A p, q \in Places(k) : p.at = q.at => p = q
  /\ \A t, u \in Rows(k) : t.at = u.at => t = u
Undoes(t, p) ==
  /\ t.at = p.at /\ t.attr = p.attr
  /\ t.how = p.how \/ (t.how = "str" /\ p.how = "strz")
\* What is sent is read, into the attribute it came from.
Found(k) ==
  \A p \in Places(k) : p.attr \notin Header /\ \E t \in Rows(k) : Undoes(t, p)
\* What is sent passes the callbacks.
Passes(k) ==
  \A p \in Places(k), c \in P!kinds[k].cb :
    c.at = p.at =>
      /\ c.type = "U32" => p.how = "be32"
      /\ c.type = "U64" => p.how = "be64"
      /\ c.type = "STRING" => p.how = "strz"
\* What goes into a message is what Sent says.
Goes(k) ==
  \A x : P!Flags(x) \subseteq Own(k) => P!Sent(k, x) = {p.attr : p \in P!Puts(k, x)}
\* An object that has what was sent puts the same into a message.
Again(k) ==
  \A x, z : P!Flags(x) \subseteq Own(k) /\ P!Flags(z) \ Header = P!Sent(k, x) =>
              P!Puts(k, z) = P!Puts(k, x)
TablesAgree(k) == Distinct(k) /\ Found(k) /\ Passes(k) /\ Goes(k) /\ Again(k)

\* A row undoes the place it is for, also if a text is taken without its end.
LEMMA UndoesIs == \A attr, at, how, with, without :
  /\ Undoes(Row(at, attr, how), Place(attr, at, how, with, without))
  /\ Undoes(Row(at, attr, "str"), Place(attr, at, "strz", with, without))
<1> TAKE attr, at, how, with, without
<1>1. /\ Row(at, attr, how).at = at /\ Row(at, attr, how).attr = attr
      /\ Row(at, attr, how).how = how
      /\ Row(at, attr, "str").at = at /\ Row(at, attr, "str").attr = attr
      /\ Row(at, attr, "str").how = "str"
  BY RowIs
<1>2. /\ Place(attr, at, how, with, without).at = at
      /\ Place(attr, at, how, with, without).attr = attr
      /\ Place(attr, at, how, with, without).how = how
      /\ Place(attr, at, "strz", with, without).at = at
      /\ Place(attr, at, "strz", with, without).attr = attr
      /\ Place(attr, at, "strz", with, without).how = "strz"
  BY PlaceIs
<1> QED BY <1>1, <1>2 DEF Undoes

\* Where no attribute needs or excludes another.
LEMMA NoConditions ==
  ASSUME NEW k,
         \A p \in Places(k) : p.with = {} /\ p.without = {} /\ p.attr \notin Header,
         \A x : P!Flags(x) \subseteq Own(k) =>
           \A a : a \in P!Sent(k, x) <=> a \in P!Flags(x) /\ \E p \in Places(k) : p.attr = a
  PROVE  Goes(k) /\ Again(k)
<1>1. \A x, p : p \in P!Puts(k, x) <=> p \in Places(k) /\ p.attr \in P!Flags(x)
  BY DEF P!Puts, Places
<1>2. Goes(k)
  <2> SUFFICES ASSUME NEW x, P!Flags(x) \subseteq Own(k)
               PROVE  P!Sent(k, x) = {p.attr : p \in P!Puts(k, x)}
    BY DEF Goes
  <2> DEFINE puts == P!Puts(k, x)
             sent == P!Sent(k, x)
  <2>1. \A a : a \in sent <=> \E p \in puts : a = p.attr
    BY <1>1
  <2> HIDE DEF puts, sent
  <2>2. sent = {p.attr : p \in puts}
    BY <2>1
  <2> QED BY <2>2 DEF puts, sent
<1>3. Again(k)
  <2> SUFFICES ASSUME NEW x, NEW z, P!Flags(x) \subseteq Own(k),
                      P!Flags(z) \ Header = P!Sent(k, x)
               PROVE  P!Puts(k, z) = P!Puts(k, x)
    BY DEF Again
  <2>1. ASSUME NEW p \in Places(k)
        PROVE  p.attr \in P!Flags(z) <=> p.attr \in P!Flags(x)
    OBVIOUS
  <2>2. P!Puts(k, z) = {p \in Places(k) : p.attr \in P!Flags(z)}
    BY DEF P!Puts, Places
  <2>3. P!Puts(k, x) = {p \in Places(k) : p.attr \in P!Flags(x)}
    BY DEF P!Puts, Places
  <2> QED BY <2>1, <2>2, <2>3
<1> QED BY <1>2, <1>3

\* The tables of a table agree.
LEMMA TableAgrees == TablesAgree("table")
<1> DEFINE k == "table"
<1>1. /\ P!kinds[k].store = P!table_set /\ P!kinds[k].bits = {}
      /\ Places(k) = P!table_build /\ Rows(k) = P!table_parse
      /\ P!kinds[k].cb = P!table_cb
  BY DEF P!kinds, P!Kind, Places, Rows
<1>2. \A p : p \in P!table_build <=>
        \/ p = Place("NAME", P!Top("NAME"), "strz", {}, {})
        \/ p = Place("HANDLE", P!Top("HANDLE"), "be64", {}, {})
        \/ p = Place("FLAGS", P!Top("FLAGS"), "be32", {}, {})
        \/ p = Place("USERDATA", P!Top("USERDATA"), "raw", {}, {})
  BY PutsAre DEF P!table_build
<1>3. \A t : t \in P!table_parse <=>
        \/ t = Row(P!Top("NAME"), "NAME", "str")
        \/ t = Row(P!Top("HANDLE"), "HANDLE", "be64")
        \/ \E a \in {"FLAGS", "USE", "OWNER"} : t = Row(P!Top(a), a, "be32")
        \/ t = Row(P!Top("USERDATA"), "USERDATA", "raw")
  BY TakesAre DEF P!table_parse
<1>4. Distinct(k)
  BY <1>1, <1>2, <1>3, PlaceIs, RowIs, AtIs DEF Distinct
<1>5. \A p \in P!table_build : p.attr \notin Header
  BY <1>2, PlaceIs DEF Header
<1>6. Found(k)
  <2>1. \A p \in P!table_build : \E t \in P!table_parse : Undoes(t, p)
    BY <1>2, <1>3, UndoesIs
  <2> QED BY <1>1, <1>5, <2>1 DEF Found
<1>7. Passes(k)
  BY <1>1, <1>2, PlaceIs, InsistIs, AtIs, ChecksAre
     DEF Passes, P!table_cb
<1>8. \A p \in P!table_build : p.with = {} /\ p.without = {}
  BY <1>2, PlaceIs
<1>9. ASSUME NEW x, P!Flags(x) \subseteq Own(k), NEW a
      PROVE  a \in P!Sent(k, x) <=> a \in P!Flags(x) /\ \E p \in P!table_build : p.attr = a
  <2>1. P!Flags(x) \subseteq P!table_set \cup {"EXPR"}
    BY <1>1, <1>9 DEF Own
  <2>2. (\E p \in P!table_build : p.attr = a) <=>
          a \in {"NAME", "HANDLE", "FLAGS", "USERDATA"}
    BY <1>2, PlaceIs
  <2> QED BY <2>1, <2>2 DEF P!Sent, P!Lost, P!table_set
<1> QED BY <1>1, <1>4, <1>5, <1>6, <1>7, <1>8, <1>9, NoConditions DEF TablesAgree

\* The tables of a chain agree.
LEMMA ChainAgrees == TablesAgree("chain")
<1> DEFINE k == "chain"
<1>1. /\ P!kinds[k].store = P!chain_set /\ P!kinds[k].bits = {}
      /\ Places(k) = P!chain_build /\ Rows(k) = P!chain_parse
      /\ P!kinds[k].cb = P!chain_cb \cup P!chain_counters_cb \cup P!chain_hook_cb
  BY DEF P!kinds, P!Kind, Places, Rows
<1>2. \A p : p \in P!chain_build <=>
        \/ \E a \in {"TABLE", "NAME", "TYPE"} : p = Place(a, P!Top(a), "strz", {}, {})
        \/ \E a \in {"POLICY", "USE", "FLAGS", "ID"} :
             p = Place(a, P!Top(a), "be32", {}, {})
        \/ p = Place("HANDLE", P!Top("HANDLE"), "be64", {}, {})
        \/ p = Place("USERDATA", P!Top("USERDATA"), "raw", {}, {})
        \/ \E a \in {"PACKETS", "BYTES"} :
             p = Place(a, P!In("COUNTERS", a), "be64", {"PACKETS", "BYTES"}, {})
        \/ p = Place("HOOKNUM", P!In("HOOK", "HOOKNUM"), "be32", {"HOOKNUM", "PRIO"}, {})
        \/ p = Place("PRIO", P!In("HOOK", "PRIORITY"), "be32", {"HOOKNUM", "PRIO"}, {})
        \/ p = Place("DEV", P!In("HOOK", "DEV"), "strz", {"HOOKNUM", "PRIO"}, {})
        \/ p = Place("DEVICES", P!In("HOOK", "DEVS"), "devs", {"HOOKNUM", "PRIO"}, {"DEV"})
  BY PutsAre DEF P!chain_build, P!chain_hook
<1>3. \A t : t \in P!chain_parse <=>
        \/ \E a \in {"TABLE", "NAME", "TYPE"} : t = Row(P!Top(a), a, "str")
        \/ \E a \in {"POLICY", "USE", "FLAGS", "ID"} : t = Row(P!Top(a), a, "be32")
        \/ t = Row(P!Top("HANDLE"), "HANDLE", "be64")
        \/ t = Row(P!Top("USERDATA"), "USERDATA", "raw")
        \/ \E a \in {"PACKETS", "BYTES"} : t = Row(P!In("COUNTERS", a), a, "be64")
        \/ t = Row(P!In("HOOK", "HOOKNUM"), "HOOKNUM", "be32")
        \/ t = Row(P!In("HOOK", "PRIORITY"), "PRIO", "be32")
        \/ t = Row(P!In("HOOK", "DEV"), "DEV", "str")
        \/ t = Row(P!In("HOOK", "DEVS"), "DEVICES", "devs")
  BY TakesAre DEF P!chain_parse, P!chain_parse_hook, P!chain_parse_counters
<1>4. Distinct(k)
  BY <1>1, <1>2, <1>3, PlaceIs, RowIs, AtIs DEF Distinct
<1>5. \A p \in P!chain_build : p.attr \notin Header
  BY <1>2, PlaceIs DEF Header
<1>6. Found(k)
  <2>1. \A p \in P!chain_build : \E t \in P!chain_parse : Undoes(t, p)
    BY <1>2, <1>3, UndoesIs
  <2> QED BY <1>1, <1>5, <2>1 DEF Found
<1>7. Passes(k)
  BY <1>1, <1>2, PlaceIs, InsistIs, AtIs, ChecksAre
     DEF Passes, P!chain_cb, P!chain_counters_cb, P!chain_hook_cb
<1>8. ASSUME NEW x, NEW z
      PROVE  \A p : /\ p \in P!Puts(k, x) <=>
                         /\ p \in P!chain_build /\ p.with \subseteq P!Flags(x)
                         /\ p.attr \in P!Flags(x) /\ p.without \cap P!Flags(x) = {}
                    /\ p \in P!Puts(k, z) <=>
                         /\ p \in P!chain_build /\ p.with \subseteq P!Flags(z)
                         /\ p.attr \in P!Flags(z) /\ p.without \cap P!Flags(z) = {}
  BY <1>1 DEF P!Puts, Places
<1>9. ASSUME NEW x, NEW F, F = P!Flags(x)
      PROVE  \A a : a \in P!Sent(k, x) <=>
          /\ a \in F /\ a # "EXPR" /\ a # "EXPRESSIONS"
          /\ a \in {"HOOKNUM", "PRIO", "DEV"} => {"HOOKNUM", "PRIO"} \subseteq F
          /\ a \in {"PACKETS", "BYTES"} => {"PACKETS", "BYTES"} \subseteq F
          /\ a = "DEVICES" => {"HOOKNUM", "PRIO"} \subseteq F /\ "DEV" \notin F
  BY <1>9 DEF P!Sent, P!Lost, P!Both
<1>10. ASSUME NEW x, P!Flags(x) \subseteq Own(k)
       PROVE  P!Sent(k, x) = {p.attr : p \in P!Puts(k, x)}
  <2> DEFINE F == P!Flags(x)
  <2>1. F \subseteq P!chain_set \cup {"EXPR"}
    BY <1>1, <1>10 DEF Own
  <2>2. \A p : p \in P!Puts(k, x) <=>
          /\ p \in P!chain_build /\ p.with \subseteq F
          /\ p.attr \in F /\ p.without \cap F = {}
    BY <1>8
  <2>3. \A a : a \in P!Sent(k, x) <=>
          /\ a \in F /\ a # "EXPR" /\ a # "EXPRESSIONS"
          /\ a \in {"HOOKNUM", "PRIO", "DEV"} => {"HOOKNUM", "PRIO"} \subseteq F
          /\ a \in {"PACKETS", "BYTES"} => {"PACKETS", "BYTES"} \subseteq F
          /\ a = "DEVICES" => {"HOOKNUM", "PRIO"} \subseteq F /\ "DEV" \notin F
    BY <1>9
  <2> HIDE DEF F
  <2>4. ASSUME NEW p \in P!Puts(k, x) PROVE p.attr \in P!Sent(k, x)
    BY <1>2, <2>2, <2>3, PlaceIs
  <2>5. ASSUME NEW a \in P!Sent(k, x) PROVE \E p \in P!Puts(k, x) : p.attr = a
    <3>1. \A attr, at, how, with, without :
            /\ Place(attr, at, how, with, without) \in P!chain_build
            /\ with \subseteq F /\ attr \in F /\ without \cap F = {}
            => \E p \in P!Puts(k, x) : p.attr = attr
      BY <2>2, PlaceIs
    <3>2. a \in F /\ a \in P!chain_set
      BY <2>1, <2>3
    <3>3. CASE a \in {"TABLE", "NAME", "TYPE"}
      BY <1>2, <2>3, <3>1, <3>2, <3>3
    <3>4. CASE a \in {"POLICY", "USE", "FLAGS", "ID"}
      BY <1>2, <2>3, <3>1, <3>2, <3>4
    <3>5. CASE a \in {"HANDLE", "USERDATA"}
      BY <1>2, <2>3, <3>1, <3>2, <3>5
    <3>6. CASE a \in {"PACKETS", "BYTES"}
      BY <1>2, <2>3, <3>1, <3>2, <3>6
    <3>7. CASE a \in {"HOOKNUM", "PRIO", "DEV", "DEVICES"}
      BY <1>2, <2>3, <3>1, <3>2, <3>7
    <3> QED BY <3>2, <3>3, <3>4, <3>5, <3>6, <3>7 DEF P!chain_set
  <2> QED BY <2>4, <2>5
<1>11. Goes(k)
  BY <1>10 DEF Goes
<1>12. ASSUME NEW x, NEW z, P!Flags(x) \subseteq Own(k),
              P!Flags(z) \ Header = P!Sent(k, x)
       PROVE  P!Puts(k, z) = P!Puts(k, x)
  <2> DEFINE F == P!Flags(x)
             G == P!Flags(z)
  <2>1. \A p : /\ p \in P!Puts(k, x) <=>
                    /\ p \in P!chain_build /\ p.with \subseteq F
                    /\ p.attr \in F /\ p.without \cap F = {}
               /\ p \in P!Puts(k, z) <=>
                    /\ p \in P!chain_build /\ p.with \subseteq G
                    /\ p.attr \in G /\ p.without \cap G = {}
    BY <1>8
  <2>2. \A a : a \notin Header => (a \in G <=>
          /\ a \in F /\ a # "EXPR" /\ a # "EXPRESSIONS"
          /\ a \in {"HOOKNUM", "PRIO", "DEV"} => {"HOOKNUM", "PRIO"} \subseteq F
          /\ a \in {"PACKETS", "BYTES"} => {"PACKETS", "BYTES"} \subseteq F
          /\ a = "DEVICES" => {"HOOKNUM", "PRIO"} \subseteq F /\ "DEV" \notin F)
    BY <1>9, <1>12
  <2> HIDE DEF F, G
  <2>3. ASSUME NEW p \in P!chain_build
        PROVE  /\ p.with \subseteq G /\ p.attr \in G /\ p.without \cap G = {} <=>
                    p.with \subseteq F /\ p.attr \in F /\ p.without \cap F = {}
    BY <1>2, <2>2, PlaceIs DEF Header
  <2> QED BY <2>1, <2>3
<1>13. Again(k)
  BY <1>12 DEF Again
<1> QED BY <1>4, <1>6, <1>7, <1>11, <1>13 DEF TablesAgree

\* The tables of a rule agree.
LEMMA RuleAgrees == TablesAgree("rule")
<1> DEFINE k == "rule"
<1>1. /\ P!kinds[k].store = P!rule_set /\ P!kinds[k].bits = {}
      /\ Places(k) = P!rule_build /\ Rows(k) = P!rule_parse \cup P!rule_rest
      /\ P!kinds[k].cb = P!rule_cb
  BY DEF P!kinds, P!Kind, Places, Rows
<1>2. \A p : p \in P!rule_build <=>
        \/ \E a \in {"TABLE", "CHAIN"} : p = Place(a, P!Top(a), "strz", {}, {})
        \/ \E a \in {"HANDLE", "POSITION"} : p = Place(a, P!Top(a), "be64", {}, {})
        \/ p = Place("USERDATA", P!Top("USERDATA"), "raw", {}, {})
        \/ \E a \in {"ID", "POSITION_ID"} : p = Place(a, P!Top(a), "be32", {}, {})
        \/ \E a \in {"COMPAT_PROTO", "COMPAT_FLAGS"} :
             p = Place(a, P!In("COMPAT", a), "be32", {"COMPAT_PROTO", "COMPAT_FLAGS"}, {})
  BY PutsAre DEF P!rule_build
<1>3. \A t : t \in P!rule_parse \cup P!rule_rest <=>
        \/ \E a \in {"TABLE", "CHAIN"} : t = Row(P!Top(a), a, "str")
        \/ \E a \in {"HANDLE", "POSITION"} : t = Row(P!Top(a), a, "be64")
        \/ t = Row(P!Top("USERDATA"), "USERDATA", "raw")
        \/ \E a \in {"ID", "POSITION_ID"} : t = Row(P!Top(a), a, "be32")
        \/ \E a \in {"COMPAT_PROTO", "COMPAT_FLAGS"} : t = Row(P!In("COMPAT", a), a, "be32")
  BY TakesAre DEF P!rule_parse, P!rule_rest, P!rule_parse_compat
<1>4. Distinct(k)
  BY <1>1, <1>2, <1>3, PlaceIs, RowIs, AtIs DEF Distinct
<1>5. \A p \in P!rule_build : p.attr \notin Header
  BY <1>2, PlaceIs DEF Header
<1>6. Found(k)
  <2>1. \A p \in P!rule_build : \E t \in P!rule_parse \cup P!rule_rest : Undoes(t, p)
    BY <1>2, <1>3, UndoesIs
  <2> QED BY <1>1, <1>5, <2>1 DEF Found
<1>7. Passes(k)
  BY <1>1, <1>2, PlaceIs, InsistIs, AtIs, ChecksAre
     DEF Passes, P!rule_cb
<1>8. ASSUME NEW x, NEW z
      PROVE  \A p : /\ p \in P!Puts(k, x) <=>
                         /\ p \in P!rule_build /\ p.with \subseteq P!Flags(x)
                         /\ p.attr \in P!Flags(x) /\ p.without \cap P!Flags(x) = {}
                    /\ p \in P!Puts(k, z) <=>
                         /\ p \in P!rule_build /\ p.with \subseteq P!Flags(z)
                         /\ p.attr \in P!Flags(z) /\ p.without \cap P!Flags(z) = {}
  BY <1>1 DEF P!Puts, Places
<1>9. ASSUME NEW x, NEW F, F = P!Flags(x)
      PROVE  \A a : a \in P!Sent(k, x) <=>
          /\ a \in F /\ a # "EXPR" /\ a # "EXPRESSIONS"
          /\ a \in {"COMPAT_PROTO", "COMPAT_FLAGS"} =>
               {"COMPAT_PROTO", "COMPAT_FLAGS"} \subseteq F
  BY <1>9 DEF P!Sent, P!Lost, P!Both
<1>10. ASSUME NEW x, P!Flags(x) \subseteq Own(k)
       PROVE  P!Sent(k, x) = {p.attr : p \in P!Puts(k, x)}
  <2> DEFINE F == P!Flags(x)
  <2>1. F \subseteq P!rule_set \cup {"EXPR"}
    BY <1>1, <1>10 DEF Own
  <2>2. \A p : p \in P!Puts(k, x) <=>
          /\ p \in P!rule_build /\ p.with \subseteq F
          /\ p.attr \in F /\ p.without \cap F = {}
    BY <1>8
  <2>3. \A a : a \in P!Sent(k, x) <=>
          /\ a \in F /\ a # "EXPR" /\ a # "EXPRESSIONS"
          /\ a \in {"COMPAT_PROTO", "COMPAT_FLAGS"} =>
               {"COMPAT_PROTO", "COMPAT_FLAGS"} \subseteq F
    BY <1>9
  <2> HIDE DEF F
  <2>4. ASSUME NEW p \in P!Puts(k, x) PROVE p.attr \in P!Sent(k, x)
    BY <1>2, <2>2, <2>3, PlaceIs
  <2>5. ASSUME NEW a \in P!Sent(k, x) PROVE \E p \in P!Puts(k, x) : p.attr = a
    <3>1. \A attr, at, how, with, without :
            /\ Place(attr, at, how, with, without) \in P!rule_build
            /\ with \subseteq F /\ attr \in F /\ without \cap F = {}
            => \E p \in P!Puts(k, x) : p.attr = attr
      BY <2>2, PlaceIs
    <3>2. a \in F /\ a \in P!rule_set
      BY <2>1, <2>3
    <3>3. CASE a \in {"TABLE", "CHAIN"}
      BY <1>2, <2>3, <3>1, <3>2, <3>3
    <3>4. CASE a \in {"HANDLE", "POSITION"}
      BY <1>2, <2>3, <3>1, <3>2, <3>4
    <3>5. CASE a \in {"USERDATA", "ID", "POSITION_ID"}
      BY <1>2, <2>3, <3>1, <3>2, <3>5
    <3>6. CASE a \in {"COMPAT_PROTO", "COMPAT_FLAGS"}
      BY <1>2, <2>3, <3>1, <3>2, <3>6
    <3> QED BY <3>2, <3>3, <3>4, <3>5, <3>6 DEF P!rule_set
  <2> QED BY <2>4, <2>5
<1>11. Goes(k)
  BY <1>10 DEF Goes
<1>12. ASSUME NEW x, NEW z, P!Flags(x) \subseteq Own(k),
              P!Flags(z) \ Header = P!Sent(k, x)
       PROVE  P!Puts(k, z) = P!Puts(k, x)
  <2> DEFINE F == P!Flags(x)
             G == P!Flags(z)
  <2>1. \A p : /\ p \in P!Puts(k, x) <=>
                    /\ p \in P!rule_build /\ p.with \subseteq F
                    /\ p.attr \in F /\ p.without \cap F = {}
               /\ p \in P!Puts(k, z) <=>
                    /\ p \in P!rule_build /\ p.with \subseteq G
                    /\ p.attr \in G /\ p.without \cap G = {}
    BY <1>8
  <2>2. \A a : a \notin Header => (a \in G <=>
          /\ a \in F /\ a # "EXPR" /\ a # "EXPRESSIONS"
          /\ a \in {"COMPAT_PROTO", "COMPAT_FLAGS"} =>
               {"COMPAT_PROTO", "COMPAT_FLAGS"} \subseteq F)
    BY <1>9, <1>12
  <2> HIDE DEF F, G
  <2>3. ASSUME NEW p \in P!rule_build
        PROVE  /\ p.with \subseteq G /\ p.attr \in G /\ p.without \cap G = {} <=>
                    p.with \subseteq F /\ p.attr \in F /\ p.without \cap F = {}
    BY <1>2, <2>2, PlaceIs DEF Header
  <2> QED BY <2>1, <2>3
<1>13. Again(k)
  BY <1>12 DEF Again
<1> QED BY <1>4, <1>6, <1>7, <1>11, <1>13 DEF TablesAgree

\* The tables of a set agree.
LEMMA SetAgrees == TablesAgree("set")
<1> DEFINE k == "set"
<1>1. /\ P!kinds[k].store = P!set_set /\ P!kinds[k].bits = {"EXPRESSIONS"}
      /\ Places(k) = P!set_build /\ Rows(k) = P!set_parse
      /\ P!kinds[k].cb = P!set_cb
  BY DEF P!kinds, P!Kind, Places, Rows
<1>2. \A p : p \in P!set_build <=>
        \/ \E a \in {"TABLE", "NAME"} : p = Place(a, P!Top(a), "strz", {}, {})
        \/ \E a \in {"HANDLE", "TIMEOUT"} : p = Place(a, P!Top(a), "be64", {}, {})
        \/ \E a \in {"FLAGS", "KEY_TYPE", "KEY_LEN", "DATA_TYPE", "DATA_LEN", "ID",
                   "POLICY", "GC_INTERVAL", "OBJ_TYPE"} :
             p = Place(a, P!Top(a), "be32", {}, {})
        \/ p = Place("USERDATA", P!Top("USERDATA"), "raw", {}, {})
        \/ p = Place("DESC_SIZE", P!In("DESC", "SIZE"), "be32", {}, {})
  BY PutsAre DEF P!set_build, P!set_u32s
<1>3. \A t : t \in P!set_parse <=>
        \/ \E a \in {"TABLE", "NAME"} : t = Row(P!Top(a), a, "str")
        \/ \E a \in {"HANDLE", "TIMEOUT"} : t = Row(P!Top(a), a, "be64")
        \/ \E a \in {"FLAGS", "KEY_TYPE", "KEY_LEN", "DATA_TYPE", "DATA_LEN", "ID",
                   "POLICY", "GC_INTERVAL", "OBJ_TYPE"} :
             t = Row(P!Top(a), a, "be32")
        \/ t = Row(P!Top("USERDATA"), "USERDATA", "raw")
        \/ t = Row(P!In("DESC", "SIZE"), "DESC_SIZE", "be32")
  BY TakesAre DEF P!set_parse, P!set_u32s
<1>4. Distinct(k)
  BY <1>1, <1>2, <1>3, PlaceIs, RowIs, AtIs DEF Distinct
<1>5. \A p \in P!set_build : p.attr \notin Header
  BY <1>2, PlaceIs DEF Header
<1>6. Found(k)
  <2>1. \A p \in P!set_build : \E t \in P!set_parse : Undoes(t, p)
    BY <1>2, <1>3, UndoesIs
  <2> QED BY <1>1, <1>5, <2>1 DEF Found
<1>7. Passes(k)
  BY <1>1, <1>2, PlaceIs, InsistIs, AtIs, ChecksAre
     DEF Passes, P!set_cb, P!set_u32s
<1>8. \A p \in P!set_build : p.with = {} /\ p.without = {}
  BY <1>2, PlaceIs
<1>9. ASSUME NEW x, P!Flags(x) \subseteq Own(k), NEW a
      PROVE  a \in P!Sent(k, x) <=> a \in P!Flags(x) /\ \E p \in P!set_build : p.attr = a
  <2>1. P!Flags(x) \subseteq P!set_set \cup {"EXPR"} \cup {"EXPRESSIONS"}
    BY <1>1, <1>9 DEF Own
  <2>2. (\E p \in P!set_build : p.attr = a) <=>
          a \in {"TABLE", "NAME", "HANDLE", "TIMEOUT", "FLAGS", "KEY_TYPE", "KEY_LEN",
                "DATA_TYPE", "DATA_LEN", "ID", "POLICY", "GC_INTERVAL", "OBJ_TYPE",
                "USERDATA", "DESC_SIZE"}
    BY <1>2, PlaceIs
  <2> QED BY <2>1, <2>2 DEF P!Sent, P!Lost, P!set_set
<1> QED BY <1>1, <1>4, <1>5, <1>6, <1>7, <1>8, <1>9, NoConditions DEF TablesAgree

\* The tables of a list of elements agree.
LEMMA ElemListAgrees == TablesAgree("elem_list")
<1> DEFINE k == "elem_list"
<1>1. /\ P!kinds[k].store = P!set_set /\ P!kinds[k].bits = {}
      /\ Places(k) = P!elem_list_build /\ Rows(k) = P!elem_list_parse
      /\ P!kinds[k].cb = P!elem_list_cb
  BY DEF P!kinds, P!Kind, Places, Rows
<1>2. \A p : p \in P!elem_list_build <=>
        \/ p = Place("NAME", P!Top("SET"), "strz", {}, {})
        \/ p = Place("ID", P!Top("SET_ID"), "be32", {}, {})
        \/ p = Place("TABLE", P!Top("TABLE"), "strz", {}, {})
  BY PutsAre DEF P!elem_list_build
<1>3. \A t : t \in P!elem_list_parse <=>
        \/ t = Row(P!Top("SET"), "NAME", "str")
        \/ t = Row(P!Top("SET_ID"), "ID", "be32")
        \/ t = Row(P!Top("TABLE"), "TABLE", "str")
  BY TakesAre DEF P!elem_list_parse
<1>4. Distinct(k)
  BY <1>1, <1>2, <1>3, PlaceIs, RowIs, AtIs DEF Distinct
<1>5. \A p \in P!elem_list_build : p.attr \notin Header
  BY <1>2, PlaceIs DEF Header
<1>6. Found(k)
  <2>1. \A p \in P!elem_list_build : \E t \in P!elem_list_parse : Undoes(t, p)
    BY <1>2, <1>3, UndoesIs
  <2> QED BY <1>1, <1>5, <2>1 DEF Found
<1>7. Passes(k)
  BY <1>1, <1>2, PlaceIs, InsistIs, AtIs, ChecksAre
     DEF Passes, P!elem_list_cb
<1>8. \A p \in P!elem_list_build : p.with = {} /\ p.without = {}
  BY <1>2, PlaceIs
<1>9. ASSUME NEW x, P!Flags(x) \subseteq Own(k), NEW a
      PROVE  a \in P!Sent(k, x) <=> a \in P!Flags(x) /\ \E p \in P!elem_list_build : p.attr = a
  <2>1. P!Flags(x) \subseteq P!set_set \cup {"EXPR"}
    BY <1>1, <1>9 DEF Own
  <2>2. (\E p \in P!elem_list_build : p.attr = a) <=>
          a \in {"NAME", "ID", "TABLE"}
    BY <1>2, PlaceIs
  <2> QED BY <2>1, <2>2 DEF P!Sent, P!Lost, P!set_set
<1> QED BY <1>1, <1>4, <1>5, <1>6, <1>7, <1>8, <1>9, NoConditions DEF TablesAgree

\* The tables of an element agree.
LEMMA SetElemAgrees == TablesAgree("set_elem")
<1> DEFINE k == "set_elem"
<1>1. /\ P!kinds[k].store = P!set_elem_set /\ P!kinds[k].bits = {"EXPRESSIONS"}
      /\ Places(k) = P!set_elem_build /\ Rows(k) = P!set_elem_parse \cup P!set_elem_rest
      /\ P!kinds[k].cb = P!set_elem_cb
  BY DEF P!kinds, P!Kind, Places, Rows
<1>2. \A p : p \in P!set_elem_build <=>
        \/ p = Place("FLAGS", P!Top("FLAGS"), "be32", {}, {})
        \/ \E a \in {"TIMEOUT", "EXPIRATION"} : p = Place(a, P!Top(a), "be64", {}, {})
        \/ \E a \in {"KEY", "KEY_END"} : p = Place(a, P!In(a, "VALUE"), "raw", {}, {})
        \/ p = Place("USERDATA", P!Top("USERDATA"), "raw", {}, {})
        \/ p = Place("OBJREF", P!Top("OBJREF"), "strz", {}, {})
  BY PutsAre DEF P!set_elem_build
<1>3. \A t : t \in P!set_elem_parse \cup P!set_elem_rest <=>
        \/ t = Row(P!Top("FLAGS"), "FLAGS", "be32")
        \/ \E a \in {"TIMEOUT", "EXPIRATION"} : t = Row(P!Top(a), a, "be64")
        \/ \E a \in {"KEY", "KEY_END"} : t = Row(P!In(a, "VALUE"), a, "raw")
        \/ t = Row(P!Top("USERDATA"), "USERDATA", "raw")
        \/ t = Row(P!Top("OBJREF"), "OBJREF", "str")
  BY TakesAre DEF P!set_elem_parse, P!set_elem_rest
<1>4. Distinct(k)
  BY <1>1, <1>2, <1>3, PlaceIs, RowIs, AtIs DEF Distinct
<1>5. \A p \in P!set_elem_build : p.attr \notin Header
  BY <1>2, PlaceIs DEF Header
<1>6. Found(k)
  <2>1. \A p \in P!set_elem_build : \E t \in P!set_elem_parse \cup P!set_elem_rest : Undoes(t, p)
    BY <1>2, <1>3, UndoesIs
  <2> QED BY <1>1, <1>5, <2>1 DEF Found
<1>7. Passes(k)
  BY <1>1, <1>2, PlaceIs, InsistIs, AtIs, ChecksAre
     DEF Passes, P!set_elem_cb
<1>8. \A p \in P!set_elem_build : p.with = {} /\ p.without = {}
  BY <1>2, PlaceIs
<1>9. ASSUME NEW x, P!Flags(x) \subseteq Own(k), NEW a
      PROVE  a \in P!Sent(k, x) <=> a \in P!Flags(x) /\ \E p \in P!set_elem_build : p.attr = a
  <2>1. P!Flags(x) \subseteq P!set_elem_set \cup {"EXPR"} \cup {"EXPRESSIONS"}
    BY <1>1, <1>9 DEF Own
  <2>2. (\E p \in P!set_elem_build : p.attr = a) <=>
          a \in {"FLAGS", "TIMEOUT", "EXPIRATION", "KEY", "KEY_END", "USERDATA",
                "OBJREF"}
    BY <1>2, PlaceIs
  <2> QED BY <2>1, <2>2 DEF P!Sent, P!Lost, P!set_elem_set
<1> QED BY <1>1, <1>4, <1>5, <1>6, <1>7, <1>8, <1>9, NoConditions DEF TablesAgree

\* The tables of a flowtable agree.
LEMMA FlowtableAgrees == TablesAgree("flowtable")
<1> DEFINE k == "flowtable"
<1>1. /\ P!kinds[k].store = P!flowtable_set /\ P!kinds[k].bits = {"USE"}
      /\ Places(k) = P!flowtable_build /\ Rows(k) = P!flowtable_parse
      /\ P!kinds[k].cb = P!flowtable_cb \cup P!flowtable_hook_cb
  BY DEF P!kinds, P!Kind, Places, Rows
<1>2. \A p : p \in P!flowtable_build <=>
        \/ \E a \in {"TABLE", "NAME"} : p = Place(a, P!Top(a), "strz", {}, {})
        \/ p = Place("HOOKNUM", P!In("HOOK", "NUM"), "be32", {}, {})
        \/ p = Place("PRIO", P!In("HOOK", "PRIORITY"), "be32", {}, {})
        \/ p = Place("DEVICES", P!In("HOOK", "DEVS"), "devs", {}, {})
        \/ \E a \in {"FLAGS", "USE"} : p = Place(a, P!Top(a), "be32", {}, {})
        \/ p = Place("HANDLE", P!Top("HANDLE"), "be64", {}, {})
  BY PutsAre DEF P!flowtable_build
<1>3. \A t : t \in P!flowtable_parse <=>
        \/ \E a \in {"TABLE", "NAME"} : t = Row(P!Top(a), a, "str")
        \/ t = Row(P!In("HOOK", "NUM"), "HOOKNUM", "be32")
        \/ t = Row(P!In("HOOK", "PRIORITY"), "PRIO", "be32")
        \/ t = Row(P!In("HOOK", "DEVS"), "DEVICES", "devs")
        \/ \E a \in {"FLAGS", "USE"} : t = Row(P!Top(a), a, "be32")
        \/ t = Row(P!Top("HANDLE"), "HANDLE", "be64")
  BY TakesAre DEF P!flowtable_parse, P!flowtable_parse_hook
<1>4. Distinct(k)
  BY <1>1, <1>2, <1>3, PlaceIs, RowIs, AtIs DEF Distinct
<1>5. \A p \in P!flowtable_build : p.attr \notin Header
  BY <1>2, PlaceIs DEF Header
<1>6. Found(k)
  <2>1. \A p \in P!flowtable_build : \E t \in P!flowtable_parse : Undoes(t, p)
    BY <1>2, <1>3, UndoesIs
  <2> QED BY <1>1, <1>5, <2>1 DEF Found
<1>7. Passes(k)
  BY <1>1, <1>2, PlaceIs, InsistIs, AtIs, ChecksAre
     DEF Passes, P!flowtable_cb, P!flowtable_hook_cb
<1>8. \A p \in P!flowtable_build : p.with = {} /\ p.without = {}
  BY <1>2, PlaceIs
<1>9. ASSUME NEW x, P!Flags(x) \subseteq Own(k), NEW a
      PROVE  a \in P!Sent(k, x) <=> a \in P!Flags(x) /\ \E p \in P!flowtable_build : p.attr = a
  <2>1. P!Flags(x) \subseteq P!flowtable_set \cup {"EXPR"} \cup {"USE"}
    BY <1>1, <1>9 DEF Own
  <2>2. (\E p \in P!flowtable_build : p.attr = a) <=>
          a \in {"TABLE", "NAME", "HOOKNUM", "PRIO", "DEVICES", "FLAGS", "USE",
                "HANDLE"}
    BY <1>2, PlaceIs
  <2> QED BY <2>1, <2>2 DEF P!Sent, P!Lost, P!flowtable_set
<1> QED BY <1>1, <1>4, <1>5, <1>6, <1>7, <1>8, <1>9, NoConditions DEF TablesAgree

Kinds == DOMAIN P!kinds

\* The types there are.
LEMMA KindsAre ==
  Kinds = {"table", "chain", "rule", "set", "elem_list", "set_elem", "flowtable"}
BY DEF Kinds, P!kinds

\* The tables of every type agree.
LEMMA AllAgree == \A k \in Kinds : TablesAgree(k)
BY KindsAre, TableAgrees, ChainAgrees, RuleAgrees, SetAgrees, ElemListAgrees,
   SetElemAgrees, FlowtableAgrees

-----------------------------------------------------------------------------
(* One message                                                             *)

Obj(x) == x = [attrs |-> x.attrs, exprs |-> x.exprs]

\* A message has what is put into it.
LEMMA MessageIs ==
  ASSUME NEW k \in Kinds, NEW y
  PROVE  /\ P!Build(k, y).exprs = y.exprs
         /\ \A at : at \in DOMAIN P!Build(k, y).attrs <=> \E p \in P!Puts(k, y) : p.at = at
         /\ \A p \in P!Puts(k, y) :
              /\ P!Build(k, y).attrs[p.at].how = p.how
              /\ P!Build(k, y).attrs[p.at].val = y.attrs[p.attr]
<1> DEFINE puts   == P!Puts(k, y)
           chosen(at) == CHOOSE p \in puts : p.at = at
           attrs  == [at \in {p.at : p \in puts} |->
                        [how |-> chosen(at).how, val |-> y.attrs[chosen(at).attr]]]
<1>1. P!Build(k, y) = [exprs |-> y.exprs, attrs |-> attrs]
  BY DEF P!Build
<1>2. \A p, q \in puts : p.at = q.at => p = q
  BY AllAgree DEF TablesAgree, Distinct, Places, P!Puts
<1> HIDE DEF puts
<1>3. \A at : at \in DOMAIN attrs <=> \E p \in puts : p.at = at
  OBVIOUS
<1>4. ASSUME NEW p \in puts PROVE attrs[p.at].how = p.how /\ attrs[p.at].val = y.attrs[p.attr]
  <2>1. chosen(p.at) = p
    BY <1>2
  <2>2. attrs[p.at] = [how |-> chosen(p.at).how, val |-> y.attrs[chosen(p.at).attr]]
    OBVIOUS
  <2> QED BY <2>1, <2>2
<1> HIDE DEF attrs
<1> QED BY <1>1, <1>3, <1>4 DEF puts

\* The callbacks let it pass.
LEMMA NeverBreaks ==
  ASSUME NEW k \in Kinds, NEW y
  PROVE  ~ P!Breaks(k, P!Build(k, y))
<1>1. SUFFICES ASSUME NEW c \in P!kinds[k].cb, NEW p \in P!Puts(k, y), p.at = c.at
               PROVE  P!Valid(c.type, P!Build(k, y).attrs[p.at])
  BY MessageIs DEF P!Breaks
<1>2. P!Build(k, y).attrs[p.at].how = p.how
  BY MessageIs
<1>3. Passes(k) /\ p \in Places(k)
  BY AllAgree DEF TablesAgree, P!Puts, Places
<1> QED BY <1>1, <1>2, <1>3 DEF Passes, P!Valid

\* The attributes of a message that some rows of the parser take.
Reached(k, y, rows) ==
  {p.attr : p \in {q \in P!Puts(k, y) : \E t \in rows : t.at = q.at}}

\* They are taken, with the values that were sent.
LEMMA TakenIs ==
  ASSUME NEW k \in Kinds, NEW y, NEW x, Obj(x), NEW rows \in SUBSET Rows(k)
  PROVE  LET z     == P!TakeAttrs(x, rows, P!Build(k, y))
             given == Reached(k, y, rows)
         IN
           /\ Obj(z) /\ z.exprs = x.exprs
           /\ P!Flags(z) = P!Flags(x) \cup given
           /\ \A a \in given : z.attrs[a] = y.attrs[a]
           /\ \A a \in P!Flags(x) \ given : z.attrs[a] = x.attrs[a]
<1> DEFINE given == Reached(k, y, rows)
           m     == P!Build(k, y)
           taken == {t \in rows : t.at \in DOMAIN m.attrs}
           attrs == {t.attr : t \in taken}
           val(a) == P!Decode((CHOOSE t \in taken : t.attr = a).how,
                              m.attrs[(CHOOSE t \in taken : t.attr = a).at])
           new   == [a \in P!Flags(x) \cup attrs |-> IF a \in attrs THEN val(a) ELSE x.attrs[a]]
           z     == P!TakeAttrs(x, rows, m)
<1>1. z = [x EXCEPT !.attrs = new]
  BY DEF P!TakeAttrs
<1>2. Found(k) /\ Distinct(k)
  BY AllAgree DEF TablesAgree
<1>3. \A p \in P!Puts(k, y) : p \in Places(k)
  BY DEF P!Puts, Places
<1>4. \A p \in P!Puts(k, y), t \in rows : t.at = p.at => Undoes(t, p)
  BY <1>2, <1>3 DEF Found, Distinct, Undoes
<1>5. ASSUME NEW t \in taken
      PROVE  /\ t.attr \in given
             /\ P!Decode(t.how, m.attrs[t.at]) = y.attrs[t.attr]
  <2>1. PICK p \in P!Puts(k, y) : p.at = t.at
    BY MessageIs
  <2>2. Undoes(t, p)
    BY <1>4, <2>1
  <2>3. m.attrs[t.at].how = p.how /\ m.attrs[t.at].val = y.attrs[p.attr]
    BY <2>1, MessageIs
  <2>4. t.attr \in given
    BY <2>1, <2>2 DEF Undoes, Reached
  <2>5. P!Decode(t.how, m.attrs[t.at]) = m.attrs[t.at].val
    BY <2>2, <2>3 DEF Undoes, P!Decode
  <2> QED BY <2>2, <2>3, <2>4, <2>5 DEF Undoes
<1>6. ASSUME NEW a \in given PROVE \E t \in taken : t.attr = a
  <2>1. PICK p \in P!Puts(k, y), t \in rows : t.at = p.at /\ p.attr = a
    BY DEF Reached
  <2>2. t \in taken
    BY <2>1, MessageIs
  <2>3. t.attr = a
    BY <1>4, <2>1 DEF Undoes
  <2> QED BY <2>2, <2>3
<1> HIDE DEF taken, m
<1>7. attrs = given
  BY <1>5, <1>6
<1>8. \A a \in given : val(a) = y.attrs[a]
  <2> TAKE a \in given
  <2> DEFINE t == CHOOSE t \in taken : t.attr = a
  <2>1. t \in taken /\ t.attr = a
    BY <1>6
  <2> QED BY <1>5, <2>1
<1>9. /\ DOMAIN new = P!Flags(x) \cup given
      /\ \A a \in given : new[a] = y.attrs[a]
      /\ \A a \in P!Flags(x) \ given : new[a] = x.attrs[a]
  <2> HIDE DEF attrs, val
  <2> QED BY <1>7, <1>8
<1> HIDE DEF new, z
<1>10. z = [attrs |-> new, exprs |-> x.exprs]
  BY <1>1 DEF Obj
<1>11. Obj(z) /\ z.exprs = x.exprs /\ z.attrs = new
  BY <1>10 DEF Obj
<1> QED BY <1>9, <1>11 DEF P!Flags, z, m

\* A bit that is set besides.
LEMMA MarkedIs ==
  ASSUME NEW x, Obj(x), NEW a
  PROVE  LET z == P!Marked(x, a) IN
           /\ Obj(z) /\ z.exprs = x.exprs
           /\ P!Flags(z) = P!Flags(x) \cup {a}
           /\ \A b \in P!Flags(x) : z.attrs[b] = x.attrs[b]
           /\ a \notin P!Flags(x) => z.attrs[a] = 0
<1> DEFINE v   == IF a \in P!Flags(x) THEN x.attrs[a] ELSE 0
           new == [b \in P!Flags(x) \cup {a} |-> IF b = a THEN v ELSE x.attrs[b]]
           z   == P!Marked(x, a)
<1>1. z = [x EXCEPT !.attrs = new]
  BY DEF P!Marked, P!Given
<1>2. /\ DOMAIN new = P!Flags(x) \cup {a}
      /\ \A b \in P!Flags(x) : new[b] = x.attrs[b]
      /\ a \notin P!Flags(x) => new[a] = 0
  OBVIOUS
<1> HIDE DEF new, z
<1>3. z = [attrs |-> new, exprs |-> x.exprs]
  BY <1>1 DEF Obj
<1>4. Obj(z) /\ z.exprs = x.exprs /\ z.attrs = new
  BY <1>3 DEF Obj
<1> QED BY <1>2, <1>4 DEF P!Flags, z

\* The bits a list of expressions sets, and the family.
Bits(k, exprs) == IF k = "rule" \/ exprs = << >> THEN {} ELSE {P!ListBit(exprs)}
Family(k)      == IF k = "set_elem" THEN {} ELSE {"FAMILY"}

\* The bits of lists are of the header.
LEMMA BitsAre == \A k, exprs : Bits(k, exprs) \subseteq {"EXPR", "EXPRESSIONS"}
BY DEF Bits, P!ListBit

\* What is sent is of the object, and nothing of the header.
LEMMA SentIn ==
  ASSUME NEW k \in Kinds, NEW y, P!Flags(y) \subseteq Own(k)
  PROVE  /\ P!Sent(k, y) \subseteq P!Flags(y) /\ P!Sent(k, y) \cap Header = {}
         /\ P!Sent(k, y) = {p.attr : p \in P!Puts(k, y)}
<1>1. Goes(k) /\ Found(k)
  BY AllAgree DEF TablesAgree
<1>2. P!Sent(k, y) = {p.attr : p \in P!Puts(k, y)}
  BY <1>1 DEF Goes
<1>3. \A p \in P!Puts(k, y) : p.attr \notin Header
  BY <1>1 DEF Found, P!Puts, Places
<1>4. P!Sent(k, y) \subseteq P!Flags(y)
  BY DEF P!Sent
<1> QED BY <1>2, <1>3, <1>4

\* A message that is read to the end.
LEMMA WholeIs ==
  ASSUME NEW k \in Kinds, NEW x, Obj(x), NEW y, P!Flags(y) \subseteq Own(k)
  PROVE  LET w == P!Whole(k, x, P!Build(k, y)) IN
           /\ Obj(w) /\ w.exprs = P!Joined(k, x.exprs, y.exprs)
           /\ P!Flags(w) = P!Flags(x) \cup P!Sent(k, y) \cup Bits(k, y.exprs) \cup Family(k)
           /\ \A a \in P!Sent(k, y) : w.attrs[a] = y.attrs[a]
           /\ \A a \in P!Flags(x) \ P!Sent(k, y) : w.attrs[a] = x.attrs[a]
           /\ \A a \in P!Flags(w) : a \notin P!Flags(x) \cup P!Sent(k, y) => w.attrs[a] = 0
<1> DEFINE m == P!Build(k, y)
           z == P!TakeAttrs(x, Rows(k), m)
           marked == IF k = "rule" \/ y.exprs = << >> THEN z ELSE P!Marked(z, P!ListBit(y.exprs))
           all == P!TakeExprs(k, z, y.exprs)
           w == P!Whole(k, x, m)
           sent == P!Sent(k, y)
<1>1. m.exprs = y.exprs
  BY MessageIs
<1>2. sent = Reached(k, y, Rows(k))
  <2>1. \A q \in P!Puts(k, y) : \E t \in Rows(k) : t.at = q.at
    BY AllAgree DEF TablesAgree, Found, Undoes, P!Puts, Places
  <2> QED BY <2>1, SentIn DEF Reached
<1> HIDE DEF m, sent
<1>3. /\ Obj(z) /\ z.exprs = x.exprs
      /\ P!Flags(z) = P!Flags(x) \cup sent
      /\ \A a \in sent : z.attrs[a] = y.attrs[a]
      /\ \A a \in P!Flags(x) \ sent : z.attrs[a] = x.attrs[a]
  <2>1. Rows(k) \in SUBSET Rows(k)
    OBVIOUS
  <2> QED BY <1>2, <2>1, TakenIs DEF m
<1> HIDE DEF z
<1>4. /\ Obj(marked) /\ marked.exprs = x.exprs
      /\ P!Flags(marked) = P!Flags(z) \cup Bits(k, y.exprs)
      /\ \A a \in P!Flags(z) : marked.attrs[a] = z.attrs[a]
      /\ \A a \in P!Flags(marked) : a \notin P!Flags(z) => marked.attrs[a] = 0
  <2>1. CASE k = "rule" \/ y.exprs = << >>
    BY <1>3, <2>1 DEF Bits
  <2>2. CASE ~ (k = "rule" \/ y.exprs = << >>)
    <3>1. marked = P!Marked(z, P!ListBit(y.exprs)) /\ Bits(k, y.exprs) = {P!ListBit(y.exprs)}
      BY <2>2 DEF Bits
    <3> HIDE DEF marked
    <3> QED BY <1>3, <3>1, MarkedIs
  <2> QED BY <2>1, <2>2
<1>5. /\ Obj(all) /\ all.exprs = P!Joined(k, x.exprs, y.exprs)
      /\ all.attrs = marked.attrs
  <2>1. all = [marked EXCEPT !.exprs = P!Joined(k, marked.exprs, y.exprs)]
    BY DEF P!TakeExprs, Obj
  <2> HIDE DEF all, marked
  <2>2. all = [attrs |-> marked.attrs, exprs |-> P!Joined(k, marked.exprs, y.exprs)]
    BY <1>4, <2>1 DEF Obj
  <2> QED BY <1>4, <2>2 DEF Obj
<1>6. w = IF k = "set_elem" THEN all ELSE P!Marked(all, "FAMILY")
  BY <1>1 DEF P!Whole, z, Rows
<1> HIDE DEF all, marked, w
<1>7. /\ Obj(w) /\ w.exprs = all.exprs
      /\ P!Flags(w) = P!Flags(all) \cup Family(k)
      /\ \A a \in P!Flags(all) : w.attrs[a] = all.attrs[a]
      /\ \A a \in P!Flags(w) : a \notin P!Flags(all) => w.attrs[a] = 0
  BY <1>5, <1>6, MarkedIs DEF Family
<1>8. P!Flags(all) = P!Flags(marked)
  BY <1>5 DEF P!Flags
<1>9. /\ Obj(w) /\ w.exprs = P!Joined(k, x.exprs, y.exprs)
      /\ P!Flags(w) = P!Flags(x) \cup sent \cup Bits(k, y.exprs) \cup Family(k)
  BY <1>3, <1>4, <1>5, <1>7, <1>8
<1>10. /\ \A a \in sent : w.attrs[a] = y.attrs[a]
       /\ \A a \in P!Flags(x) \ sent : w.attrs[a] = x.attrs[a]
       /\ \A a \in P!Flags(w) : a \notin P!Flags(x) \cup sent => w.attrs[a] = 0
  BY <1>3, <1>4, <1>5, <1>7, <1>8
<1> QED BY <1>9, <1>10 DEF w, m, sent

-----------------------------------------------------------------------------
(* The expressions of some objects                                         *)

\* What there is after each object.
JoinSteps(k, s, upto) ==
  upto = [n \in 0 .. Len(s) |->
            IF n = 0 THEN << >> ELSE P!Joined(k, upto[n - 1], s[n].exprs)]

\* There is one sequence of steps.
LEMMA JoinUnique ==
  ASSUME NEW k, NEW T, NEW s \in Seq(T),
         NEW g, JoinSteps(k, s, g), NEW h, JoinSteps(k, s, h)
  PROVE  g = h
<1> DEFINE U == {i \in Nat : i \in 0 .. Len(s) => g[i] = h[i]}
<1>1. \A i \in 0 .. Len(s) :
        /\ g[i] = IF i = 0 THEN << >> ELSE P!Joined(k, g[i - 1], s[i].exprs)
        /\ h[i] = IF i = 0 THEN << >> ELSE P!Joined(k, h[i - 1], s[i].exprs)
  BY DEF JoinSteps
<1>2. 0 \in U
  BY <1>1
<1>3. ASSUME NEW i \in Nat, i \in U PROVE i + 1 \in U
  <2> SUFFICES ASSUME i + 1 \in 0 .. Len(s) PROVE g[i + 1] = h[i + 1]
    OBVIOUS
  <2>1. g[i] = h[i] /\ i + 1 # 0 /\ (i + 1) - 1 = i
    BY <1>3
  <2> QED BY <1>1, <2>1
<1> HIDE DEF U
<1>4. Nat \subseteq U
  BY <1>2, <1>3, SetInduction
<1>5. \A i \in 0 .. Len(s) : g[i] = h[i]
  BY <1>4 DEF U
<1>6. g = [i \in 0 .. Len(s) |-> g[i]] /\ h = [i \in 0 .. Len(s) |-> h[i]]
  BY DEF JoinSteps
<1> QED BY <1>5, <1>6

\* ExprsOf is where its steps end.
LEMMA JoinIs ==
  ASSUME NEW k, NEW T, NEW s \in Seq(T), NEW g, JoinSteps(k, s, g)
  PROVE  P!ExprsOf(k, s) = g[Len(s)]
<1>1. \A h : JoinSteps(k, s, h) => h = g
  BY JoinUnique
<1> QED BY <1>1 DEF P!ExprsOf, JoinSteps

\* The steps of a sequence are those of its beginning and one more.
LEMMA JoinStepsAppend ==
  ASSUME NEW k, NEW T, NEW s \in Seq(T), NEW e \in T, NEW g, JoinSteps(k, s, g),
         NEW h, h = [i \in 0 .. Len(s) + 1 |->
                       IF i <= Len(s) THEN g[i] ELSE P!Joined(k, g[Len(s)], e.exprs)]
  PROVE  JoinSteps(k, Append(s, e), h)
<1> DEFINE a == Append(s, e)
           n == Len(s)
<1>1. n \in Nat /\ Len(a) = n + 1 /\ a[n + 1] = e /\ \A i \in 1 .. n : a[i] = s[i]
  BY AppendProperties
<1>2. \A i \in 0 .. n : g[i] = IF i = 0 THEN << >> ELSE P!Joined(k, g[i - 1], s[i].exprs)
  BY DEF JoinSteps
<1>3. /\ \A i \in 0 .. n : h[i] = g[i]
      /\ h[n + 1] = P!Joined(k, g[n], e.exprs)
  BY <1>1
<1> HIDE DEF a, n
<1>4. ASSUME NEW i \in 0 .. n + 1
      PROVE  h[i] = IF i = 0 THEN << >> ELSE P!Joined(k, h[i - 1], a[i].exprs)
  <2>1. CASE i = 0
    BY <1>1, <1>2, <1>3, <2>1
  <2>2. CASE i \in 1 .. n
    <3>1. i # 0 /\ i \in 0 .. n /\ i - 1 \in 0 .. n
      BY <1>1, <2>2
    <3>2. h[i] = g[i] /\ h[i - 1] = g[i - 1] /\ a[i] = s[i]
      BY <1>1, <1>3, <2>2, <3>1
    <3> QED BY <1>2, <3>1, <3>2
  <2>3. CASE i = n + 1
    <3>1. i # 0 /\ i - 1 = n /\ n \in 0 .. n
      BY <1>1, <2>3
    <3>2. h[i - 1] = g[n] /\ a[i] = e
      BY <1>1, <1>3, <2>3, <3>1
    <3> QED BY <1>3, <2>3, <3>1, <3>2
  <2> QED BY <1>1, <2>1, <2>2, <2>3
<1>5. h = [i \in 0 .. n + 1 |-> h[i]]
  BY DEF n
<1>6. h = [i \in 0 .. Len(a) |->
             IF i = 0 THEN << >> ELSE P!Joined(k, h[i - 1], a[i].exprs)]
  BY <1>1, <1>4, <1>5
<1> QED BY <1>6 DEF a, JoinSteps

\* Every sequence has its steps.
LEMMA JoinDefined ==
  ASSUME NEW k, NEW T, NEW s \in Seq(T)
  PROVE  \E g : JoinSteps(k, s, g)
<1> DEFINE Q == {t \in Seq(T) : \E g : JoinSteps(k, t, g)}
<1>1. << >> \in Q
  <2>1. JoinSteps(k, << >>, [i \in 0 .. 0 |-> << >>])
    BY DEF JoinSteps
  <2> QED BY <2>1
<1>2. ASSUME NEW t \in Seq(T), NEW e \in T, t \in Q PROVE Append(t, e) \in Q
  <2>1. PICK g : JoinSteps(k, t, g)
    BY <1>2
  <2>2. \E h : JoinSteps(k, Append(t, e), h)
    BY <2>1, JoinStepsAppend
  <2> QED BY <2>2
<1> HIDE DEF Q
<1>3. s \in Q
  BY <1>1, <1>2, SeqInduction
<1> QED BY <1>3 DEF Q

\* Of no objects there are no expressions.
LEMMA ExprsOfNone == \A k : P!ExprsOf(k, << >>) = << >>
<1> TAKE k
<1>1. << >> \in Seq({}) /\ Len(<< >>) = 0
  OBVIOUS
<1>2. JoinSteps(k, << >>, [i \in 0 .. 0 |-> << >>])
  BY DEF JoinSteps
<1>3. P!ExprsOf(k, << >>) = [i \in 0 .. 0 |-> << >>][0]
  BY <1>1, <1>2, JoinIs
<1> QED BY <1>3

\* One object more.
LEMMA ExprsOfMore ==
  ASSUME NEW k, NEW T, NEW s \in Seq(T), NEW e \in T
  PROVE  P!ExprsOf(k, Append(s, e)) = P!Joined(k, P!ExprsOf(k, s), e.exprs)
<1>1. PICK g : JoinSteps(k, s, g)
  BY JoinDefined
<1> DEFINE h == [i \in 0 .. Len(s) + 1 |->
                   IF i <= Len(s) THEN g[i] ELSE P!Joined(k, g[Len(s)], e.exprs)]
<1>2. P!ExprsOf(k, s) = g[Len(s)]
  BY <1>1, JoinIs
<1>3. h[Len(s) + 1] = P!Joined(k, g[Len(s)], e.exprs)
  OBVIOUS
<1>4. Append(s, e) \in Seq(T) /\ Len(Append(s, e)) = Len(s) + 1
  BY AppendProperties
<1>5. JoinSteps(k, Append(s, e), h)
  BY <1>1, JoinStepsAppend
<1> HIDE DEF h
<1>6. P!ExprsOf(k, Append(s, e)) = h[Len(s) + 1]
  BY <1>4, <1>5, JoinIs
<1> QED BY <1>2, <1>3, <1>6

\* Expressions stay expressions.
LEMMA JoinedIn ==
  ASSUME NEW k, NEW E, NEW s \in Seq(E), NEW t \in Seq(E)
  PROVE  P!Joined(k, s, t) \in Seq(E) /\ P!Joined(k, << >>, t) = t
BY ConcatProperties, EmptySeq DEF P!Joined

\* Those before the first that is not known.
LEMMA BeforeIn ==
  ASSUME NEW E, NEW s \in Seq(E), P!Contains(s, "newer")
  PROVE  P!Before(s) \in Seq(E)
<1> DEFINE U == {i \in Nat : i \in DOMAIN s /\ s[i] = "newer"}
           First(i) == s[i] = "newer" /\ \A j \in 1 .. i - 1 : s[j] # "newer"
           first == CHOOSE i \in DOMAIN s : First(i)
<1>1. DOMAIN s = 1 .. Len(s) /\ Len(s) \in Nat
  OBVIOUS
<1>2. U # {}
  BY <1>1 DEF P!Contains
<1>3. PICK i \in U : \A j \in U : i <= j
  BY <1>2, LeastOf
<1>4. i \in DOMAIN s /\ First(i)
  BY <1>1, <1>3
<1>5. first \in DOMAIN s
  BY <1>4
<1>6. P!Before(s) = SubSeq(s, 1, first - 1)
  BY DEF P!Before
<1> HIDE DEF first
<1>7. first - 1 \in 0 .. Len(s)
  BY <1>1, <1>5
<1> QED BY <1>1, <1>6, <1>7, SubSeqProperties

-----------------------------------------------------------------------------
(* One message after another                                               *)

\* The objects of a program.
Objects(k) ==
  [attrs : UNION {[D -> Nat] : D \in SUBSET Own(k)}, exprs : Seq(P!Exprs)]

\* What an object of a program is.
LEMMA ObjectIs ==
  ASSUME NEW k, NEW y \in Objects(k)
  PROVE  /\ Obj(y) /\ P!Flags(y) \subseteq Own(k)
         /\ \A a \in P!Flags(y) : y.attrs[a] \in Nat
         /\ y.exprs \in Seq(P!Exprs)
BY DEF Objects, Obj, P!Flags

\* What is sent of some objects, and the bits of their expressions.
AllSent(k, s) == UNION {P!Sent(k, s[i]) : i \in 1 .. Len(s)}
AllBits(k, s) == UNION {Bits(k, s[i].exprs) : i \in 1 .. Len(s)}

\* Of one object more.
LEMMA AllMore ==
  ASSUME NEW k, NEW T, NEW s \in Seq(T), NEW y \in T
  PROVE  /\ AllSent(k, Append(s, y)) = AllSent(k, s) \cup P!Sent(k, y)
         /\ AllBits(k, Append(s, y)) = AllBits(k, s) \cup Bits(k, y.exprs)
<1> DEFINE r == Append(s, y)
           n == Len(s)
<1>1. n \in Nat /\ Len(r) = n + 1 /\ r[n + 1] = y /\ \A i \in 1 .. n : r[i] = s[i]
  BY AppendProperties
<1> HIDE DEF r, n
<1>2. \A i : i \in 1 .. n + 1 <=> i \in 1 .. n \/ i = n + 1
  BY <1>1
<1>3. ASSUME NEW a PROVE (\E i \in 1 .. n + 1 : a \in P!Sent(k, r[i])) <=>
                           (\E i \in 1 .. n : a \in P!Sent(k, s[i])) \/ a \in P!Sent(k, y)
  BY <1>1, <1>2
<1>4. ASSUME NEW a PROVE (\E i \in 1 .. n + 1 : a \in Bits(k, r[i].exprs)) <=>
                           (\E i \in 1 .. n : a \in Bits(k, s[i].exprs)) \/ a \in Bits(k, y.exprs)
  BY <1>1, <1>2
<1>5. /\ \A a : a \in AllSent(k, r) <=> \E i \in 1 .. n + 1 : a \in P!Sent(k, r[i])
      /\ \A a : a \in AllBits(k, r) <=> \E i \in 1 .. n + 1 : a \in Bits(k, r[i].exprs)
  BY <1>1 DEF AllSent, AllBits
<1>6. /\ \A a : a \in AllSent(k, s) <=> \E i \in 1 .. n : a \in P!Sent(k, s[i])
      /\ \A a : a \in AllBits(k, s) <=> \E i \in 1 .. n : a \in Bits(k, s[i].exprs)
  BY DEF AllSent, AllBits, n
<1>7. AllSent(k, r) = AllSent(k, s) \cup P!Sent(k, y)
  BY <1>3, <1>5, <1>6
<1>8. AllBits(k, r) = AllBits(k, s) \cup Bits(k, y.exprs)
  BY <1>4, <1>5, <1>6
<1> QED BY <1>7, <1>8 DEF r

\* What a reader has that has read the messages of some objects to the end.
Core(k, s, x) ==
  /\ Obj(x) /\ x.exprs = P!ExprsOf(k, s) /\ x.exprs \in Seq(P!Exprs)
  /\ P!Flags(x) = AllSent(k, s) \cup AllBits(k, s)
                    \cup (IF Len(s) = 0 THEN {} ELSE Family(k))
  /\ \A a \in P!Flags(x) \ Header :
       \E i \in 1 .. Len(s) : /\ a \in P!Sent(k, s[i])
                              /\ \A j \in 1 .. Len(s) : j > i => a \notin P!Sent(k, s[j])
                              /\ x.attrs[a] = s[i].attrs[a]
  /\ \A a \in P!Flags(x) \cap Header : x.attrs[a] = 0

\* A new object has what a reader has who has read nothing.
LEMMA CoreBegins == \A k : Core(k, << >>, P!New)
<1> TAKE k
<1>1. P!New.attrs = << >> /\ P!New.exprs = << >> /\ Obj(P!New)
  BY DEF P!New, Obj
<1>2. P!Flags(P!New) = {}
  BY <1>1 DEF P!Flags
<1>3. Len(<< >>) = 0 /\ 1 .. 0 = {}
  OBVIOUS
<1>4. AllSent(k, << >>) = {} /\ AllBits(k, << >>) = {}
  BY <1>3 DEF AllSent, AllBits
<1> QED BY <1>1, <1>2, <1>3, <1>4, ExprsOfNone DEF Core

\* What the flags are, and the values.
LEMMA CoreSteps ==
  ASSUME NEW k \in Kinds, NEW s \in Seq(Objects(k)), NEW x, Core(k, s, x),
         NEW y \in Objects(k)
  PROVE  Core(k, Append(s, y), P!Whole(k, x, P!Build(k, y)))
<1> DEFINE w == P!Whole(k, x, P!Build(k, y))
           r == Append(s, y)
           n == Len(s)
<1>1. n \in Nat /\ Len(r) = n + 1 /\ r[n + 1] = y /\ \A i \in 1 .. n : r[i] = s[i]
  BY AppendProperties
<1>2. /\ Obj(w) /\ w.exprs = P!Joined(k, x.exprs, y.exprs)
      /\ P!Flags(w) = P!Flags(x) \cup P!Sent(k, y) \cup Bits(k, y.exprs) \cup Family(k)
      /\ \A a \in P!Sent(k, y) : w.attrs[a] = y.attrs[a]
      /\ \A a \in P!Flags(x) \ P!Sent(k, y) : w.attrs[a] = x.attrs[a]
      /\ \A a \in P!Flags(w) : a \notin P!Flags(x) \cup P!Sent(k, y) => w.attrs[a] = 0
  BY ObjectIs, WholeIs DEF Core
<1>3. P!Sent(k, y) \cap Header = {}
  BY ObjectIs, SentIn
<1>4. w.exprs = P!ExprsOf(k, r) /\ w.exprs \in Seq(P!Exprs)
  BY <1>2, ObjectIs, ExprsOfMore, JoinedIn DEF Core
<1> HIDE DEF w, r, n
<1>5. P!Flags(w) = AllSent(k, r) \cup AllBits(k, r)
                     \cup (IF Len(r) = 0 THEN {} ELSE Family(k))
  <2>1. P!Flags(x) = AllSent(k, s) \cup AllBits(k, s)
                       \cup (IF n = 0 THEN {} ELSE Family(k))
    BY DEF Core, n
  <2>2. Len(r) = n + 1 /\ Len(r) # 0
    BY <1>1
  <2>3. /\ AllSent(k, r) = AllSent(k, s) \cup P!Sent(k, y)
        /\ AllBits(k, r) = AllBits(k, s) \cup Bits(k, y.exprs)
    BY AllMore DEF r
  <2> QED BY <1>2, <2>1, <2>2, <2>3
<1>7. ASSUME NEW a \in P!Flags(w) \ Header
      PROVE  \E i \in 1 .. Len(r) :
               /\ a \in P!Sent(k, r[i])
               /\ \A j \in 1 .. Len(r) : j > i => a \notin P!Sent(k, r[j])
               /\ w.attrs[a] = r[i].attrs[a]
  <2>1. CASE a \in P!Sent(k, y)
    <3>1. n + 1 \in 1 .. Len(r) /\ \A j \in 1 .. Len(r) : ~ (j > n + 1)
      BY <1>1
    <3> QED BY <1>1, <1>2, <2>1, <3>1
  <2>2. CASE a \notin P!Sent(k, y)
    <3>1. Bits(k, y.exprs) \subseteq Header /\ Family(k) \subseteq Header
      BY BitsAre DEF Family, Header
    <3>2. a \in P!Flags(x) \ Header
      BY <1>2, <2>2, <3>1
    <3>3. PICK i \in 1 .. n : /\ a \in P!Sent(k, s[i])
                              /\ \A j \in 1 .. n : j > i => a \notin P!Sent(k, s[j])
                              /\ x.attrs[a] = s[i].attrs[a]
      BY <3>2 DEF Core, n
    <3>4. i \in 1 .. Len(r) /\ r[i] = s[i]
      BY <1>1
    <3>5. \A j \in 1 .. Len(r) : j > i => a \notin P!Sent(k, r[j])
      <4> TAKE j \in 1 .. Len(r)
      <4>1. CASE j \in 1 .. n
        BY <1>1, <3>3, <4>1
      <4>2. CASE j = n + 1
        BY <1>1, <2>2, <4>2
      <4> QED BY <1>1, <4>1, <4>2
    <3>6. w.attrs[a] = s[i].attrs[a]
      BY <1>2, <2>2, <3>2, <3>3
    <3> QED BY <3>3, <3>4, <3>5, <3>6
  <2> QED BY <2>1, <2>2
<1>8. ASSUME NEW a \in P!Flags(w) \cap Header PROVE w.attrs[a] = 0
  <2>1. a \notin P!Sent(k, y)
    BY <1>3
  <2>2. CASE a \in P!Flags(x)
    BY <1>2, <2>1, <2>2 DEF Core
  <2>3. CASE a \notin P!Flags(x)
    BY <1>2, <2>1, <2>3
  <2> QED BY <2>2, <2>3
<1>9. Core(k, r, w)
  BY <1>2, <1>4, <1>5, <1>7, <1>8 DEF Core
<1> QED BY <1>9 DEF r, w

-----------------------------------------------------------------------------
(* What one message tells                                                  *)

\* The messages that count when the next is read.
Base(k, s) == IF k = "set_elem" THEN << >> ELSE s

\* A new object has the values of the message it is for.
Numbered(k, y, n) ==
  /\ \A a \in P!Flags(y) : y.attrs[a] = IF a \in P!kinds[k].store THEN n ELSE 0
  /\ k \notin P!ExprKinds => y.exprs = << >>

\* What is only a bit is not stored.
LEMMA NotStored == \A k \in Kinds : P!kinds[k].store \cap (P!kinds[k].bits \cup Header) = {}
<1>1. P!table_set \cap Header = {} /\ P!chain_set \cap Header = {} /\ P!rule_set \cap Header = {}
  BY DEF P!table_set, P!chain_set, P!rule_set, Header
<1>2. P!set_set \cap Header = {} /\ P!set_elem_set \cap Header = {}
  BY DEF P!set_set, P!set_elem_set, Header
<1>3. P!flowtable_set \cap (Header \cup {"USE"}) = {}
  BY DEF P!flowtable_set, Header
<1>4. /\ P!kinds["table"].store = P!table_set /\ P!kinds["table"].bits = {}
      /\ P!kinds["chain"].store = P!chain_set /\ P!kinds["chain"].bits = {}
      /\ P!kinds["rule"].store = P!rule_set /\ P!kinds["rule"].bits = {}
      /\ P!kinds["set"].store = P!set_set /\ P!kinds["set"].bits = {"EXPRESSIONS"}
      /\ P!kinds["elem_list"].store = P!set_set /\ P!kinds["elem_list"].bits = {}
      /\ P!kinds["set_elem"].store = P!set_elem_set
      /\ P!kinds["set_elem"].bits = {"EXPRESSIONS"}
      /\ P!kinds["flowtable"].store = P!flowtable_set /\ P!kinds["flowtable"].bits = {"USE"}
  BY DEF P!kinds, P!Kind
<1>5. "EXPRESSIONS" \in Header
  BY DEF Header
<1> QED BY <1>1, <1>2, <1>3, <1>4, <1>5, KindsAre

\* The last of a sequence, and those before it.
LEMMA LastIs ==
  ASSUME NEW T, NEW s \in Seq(T), NEW y \in T
  PROVE  P!Last(Append(s, y)) = y /\ P!Front(Append(s, y)) = s
<1> DEFINE r == Append(s, y)
<1>1. r \in Seq(T) /\ Len(r) = Len(s) + 1 /\ r[Len(s) + 1] = y /\ Len(s) \in Nat
  BY AppendProperties
<1>2. P!Last(r) = y
  BY <1>1 DEF P!Last
<1>3. P!Front(r) = SubSeq(r, 1, Len(s))
  BY <1>1 DEF P!Front
<1>4. SubSeq(r, 1, Len(s)) = s
  <2>1. SubSeq(r, 1, Len(s)) \in Seq(T) /\ Len(SubSeq(r, 1, Len(s))) = Len(s)
    BY <1>1, SubSeqProperties
  <2>2. \A i \in 1 .. Len(s) : SubSeq(r, 1, Len(s))[i] = s[i]
    BY <1>1, SubSeqProperties, AppendProperties
  <2> HIDE DEF r
  <2> QED BY <2>1, <2>2, SeqEqual
<1> QED BY <1>2, <1>3, <1>4

\* What a reader has that was told of a failure.
LEMMA PartialIs ==
  ASSUME NEW k \in Kinds, k # "set_elem", NEW x, Obj(x),
         NEW y, P!Flags(y) \subseteq Own(k)
  PROVE  LET w    == P!Partial(k, x, P!Build(k, y))
             some == Reached(k, y, P!kinds[k].parse)
         IN
           /\ Obj(w) /\ w.exprs = P!Spoilt(k, x.exprs, y.exprs)
           /\ P!Flags(w) = P!Flags(x) \cup some
           /\ \A a \in some : w.attrs[a] = y.attrs[a]
           /\ \A a \in P!Flags(x) \ some : w.attrs[a] = x.attrs[a]
           /\ some \subseteq P!Sent(k, y)
<1> DEFINE m == P!Build(k, y)
           z == P!TakeAttrs(x, P!kinds[k].parse, m)
           w == P!Partial(k, x, m)
           some == Reached(k, y, P!kinds[k].parse)
<1>1. m.exprs = y.exprs
  BY MessageIs
<1>2. some \subseteq P!Sent(k, y)
  BY SentIn DEF Reached
<1>3. w = [z EXCEPT !.exprs = P!Spoilt(k, z.exprs, y.exprs)]
  BY <1>1 DEF P!Partial
<1>4. P!kinds[k].parse \in SUBSET Rows(k)
  BY DEF Rows
<1> HIDE DEF m, some, w
<1>5. /\ Obj(z) /\ z.exprs = x.exprs
      /\ P!Flags(z) = P!Flags(x) \cup some
      /\ \A a \in some : z.attrs[a] = y.attrs[a]
      /\ \A a \in P!Flags(x) \ some : z.attrs[a] = x.attrs[a]
  BY <1>4, TakenIs DEF m, some
<1> HIDE DEF z
<1>6. w = [attrs |-> z.attrs, exprs |-> P!Spoilt(k, x.exprs, y.exprs)]
  BY <1>3, <1>5 DEF Obj
<1>7. Obj(w) /\ w.attrs = z.attrs /\ w.exprs = P!Spoilt(k, x.exprs, y.exprs)
  BY <1>6 DEF Obj
<1>8. P!Flags(w) = P!Flags(z)
  BY <1>7 DEF P!Flags
<1> QED BY <1>2, <1>5, <1>7, <1>8 DEF w, m, some

\* Of a rule these are read before its expressions.
LEMMA FirstOfRule ==
  ASSUME NEW y, P!Flags(y) \subseteq Own("rule")
  PROVE  Reached("rule", y, P!kinds["rule"].parse) =
           P!Flags(y) \cap {"TABLE", "CHAIN", "HANDLE"}
<1>1. P!kinds["rule"].parse = P!rule_parse /\ P!kinds["rule"].build = P!rule_build
  BY DEF P!kinds, P!Kind
<1>2. \A t : t \in P!rule_parse <=>
        \/ \E a \in {"TABLE", "CHAIN"} : t = Row(P!Top(a), a, "str")
        \/ t = Row(P!Top("HANDLE"), "HANDLE", "be64")
  BY TakesAre DEF P!rule_parse
<1>3. \A p : p \in P!rule_build <=>
        \/ \E a \in {"TABLE", "CHAIN"} : p = Place(a, P!Top(a), "strz", {}, {})
        \/ \E a \in {"HANDLE", "POSITION"} : p = Place(a, P!Top(a), "be64", {}, {})
        \/ p = Place("USERDATA", P!Top("USERDATA"), "raw", {}, {})
        \/ \E a \in {"ID", "POSITION_ID"} : p = Place(a, P!Top(a), "be32", {}, {})
        \/ \E a \in {"COMPAT_PROTO", "COMPAT_FLAGS"} :
             p = Place(a, P!In("COMPAT", a), "be32", {"COMPAT_PROTO", "COMPAT_FLAGS"}, {})
  BY PutsAre DEF P!rule_build
<1>4. \A p : p \in P!Puts("rule", y) <=>
        /\ p \in P!rule_build /\ p.with \subseteq P!Flags(y) /\ p.attr \in P!Flags(y)
        /\ p.without \cap P!Flags(y) = {}
  BY <1>1 DEF P!Puts
<1> DEFINE names == {"TABLE", "CHAIN", "HANDLE"}
           some  == Reached("rule", y, P!kinds["rule"].parse)
<1>5. \A a : a \in some <=> \E p \in P!Puts("rule", y), t \in P!rule_parse : t.at = p.at /\ p.attr = a
  BY <1>1 DEF Reached
<1>6. \A t \in P!rule_parse : \E a \in names : t.at = P!Top(a)
  BY <1>2, RowIs
<1>7. \A p \in P!rule_build, a \in names : p.at = P!Top(a) => p.attr = a
  BY <1>3, PlaceIs, AtIs
<1>8. ASSUME NEW a \in some PROVE a \in P!Flags(y) \cap names
  BY <1>4, <1>5, <1>6, <1>7
<1>9. ASSUME NEW a \in P!Flags(y) \cap names PROVE a \in some
  <2>1. PICK how : Place(a, P!Top(a), how, {}, {}) \in P!rule_build
    BY <1>3
  <2>2. Place(a, P!Top(a), how, {}, {}) \in P!Puts("rule", y)
    BY <1>4, <2>1, PlaceIs
  <2>3. \E t \in P!rule_parse : t.at = P!Top(a)
    BY <1>2, RowIs
  <2> QED BY <1>5, <2>2, <2>3, PlaceIs
<1> HIDE DEF some
<1>10. some = P!Flags(y) \cap names
  BY <1>8, <1>9
<1> QED BY <1>10 DEF some

\* Of a set all is.
LEMMA FirstOfSet ==
  ASSUME NEW y, P!Flags(y) \subseteq Own("set")
  PROVE  Reached("set", y, P!kinds["set"].parse) = P!Sent("set", y)
<1>1. "set" \in Kinds
  BY KindsAre
<1>2. P!kinds["set"].rest = {}
  BY DEF P!kinds, P!Kind
<1>3. P!kinds["set"].parse = Rows("set")
  BY <1>2 DEF Rows
<1>4. \A q \in P!Puts("set", y) : \E t \in Rows("set") : t.at = q.at
  BY <1>1, AllAgree DEF TablesAgree, Found, Undoes, P!Puts, Places
<1> QED BY <1>1, <1>3, <1>4, SentIn DEF Reached

\* What is restored from one message, and sent on, is the same message.
LEMMA SentOn ==
  ASSUME NEW k \in Kinds, NEW y \in Objects(k)
  PROVE  P!Build(k, P!Whole(k, P!New, P!Build(k, y))) = P!Build(k, y)
<1> DEFINE w == P!Whole(k, P!New, P!Build(k, y))
<1>1. Obj(P!New) /\ P!New.exprs = << >> /\ P!Flags(P!New) = {}
  BY CoreBegins, ExprsOfNone DEF Core, P!New, P!Flags
<1>2. P!Flags(y) \subseteq Own(k) /\ y.exprs \in Seq(P!Exprs)
  BY ObjectIs
<1>3. /\ w.exprs = P!Joined(k, << >>, y.exprs)
      /\ P!Flags(w) = P!Sent(k, y) \cup Bits(k, y.exprs) \cup Family(k)
      /\ \A a \in P!Sent(k, y) : w.attrs[a] = y.attrs[a]
  BY <1>1, <1>2, WholeIs
<1>4. w.exprs = y.exprs
  BY <1>2, <1>3, JoinedIn, EmptySeq
<1>5. P!Flags(w) \ Header = P!Sent(k, y)
  BY <1>2, <1>3, SentIn, BitsAre DEF Family, Header
<1>6. P!Puts(k, w) = P!Puts(k, y)
  BY <1>2, <1>5, AllAgree DEF TablesAgree, Again
<1>7. \A p \in P!Puts(k, y) : w.attrs[p.attr] = y.attrs[p.attr]
  BY <1>2, <1>3, SentIn
<1> DEFINE puts == P!Puts(k, y)
           ats  == {p.at : p \in puts}
           chosen(at) == CHOOSE p \in puts : p.at = at
<1>8. /\ P!Build(k, w) = [exprs |-> w.exprs,
                          attrs |-> [at \in ats |-> [how |-> chosen(at).how,
                                                     val |-> w.attrs[chosen(at).attr]]]]
      /\ P!Build(k, y) = [exprs |-> y.exprs,
                          attrs |-> [at \in ats |-> [how |-> chosen(at).how,
                                                     val |-> y.attrs[chosen(at).attr]]]]
  BY <1>6 DEF P!Build
<1>9. \A at \in ats : chosen(at) \in puts
  OBVIOUS
<1> HIDE DEF w, puts, ats, chosen
<1>10. \A at \in ats : w.attrs[chosen(at).attr] = y.attrs[chosen(at).attr]
  BY <1>7, <1>9 DEF puts
<1>11. P!Build(k, w) = P!Build(k, y)
  BY <1>4, <1>8, <1>10
<1> QED BY <1>11 DEF w

\* What the reader has, and was told, after the messages of some objects.
Answered(k, seen, told, z) ==
  \E s, y, x :
    /\ s \in Seq(Objects(k)) /\ y \in Objects(k)
    /\ seen = Append(s, y)
    /\ Core(k, Base(k, s), x) /\ (Base(k, s) = << >> => x = P!New)
    /\ P!Parse(k, x, P!Build(k, y)) = P!Told(told, z)

\* What is told has two parts.
LEMMA ToldIs == \A how, x : P!Told(how, x).result = how /\ P!Told(how, x).obj = x
BY DEF P!Told

\* A message is read to the end, or to an expression that is not known.
LEMMA AnswerIs ==
  ASSUME NEW k \in Kinds, NEW y \in Objects(k), NEW x, NEW r,
         r = P!Parse(k, x, P!Build(k, y))
  PROVE  /\ r = P!Told(r.result, r.obj)
         /\ \/ /\ r.result = "ok" /\ r.obj = P!Whole(k, x, P!Build(k, y))
               /\ ~ P!Contains(y.exprs, "newer")
            \/ /\ r.result = "fail" /\ r.obj = P!Partial(k, x, P!Build(k, y))
               /\ P!Contains(y.exprs, "newer")
<1> DEFINE m == P!Build(k, y)
<1>1. ~ P!Breaks(k, m) /\ m.exprs = y.exprs
  BY NeverBreaks, MessageIs
<1> HIDE DEF m
<1>2. CASE P!Contains(y.exprs, "newer")
  <2>1. r = P!Told("fail", P!Partial(k, x, m))
    BY <1>1, <1>2 DEF P!Parse, m
  <2> QED BY <1>2, <2>1, ToldIs DEF m
<1>3. CASE ~ P!Contains(y.exprs, "newer")
  <2>1. r = P!Told("ok", P!Whole(k, x, m))
    BY <1>1, <1>3 DEF P!Parse, m
  <2> QED BY <1>3, <2>1, ToldIs DEF m
<1> QED BY <1>2, <1>3

\* A reader that was told that all is well has what Core says.
LEMMA WellRead ==
  ASSUME NEW k \in Kinds, NEW s, NEW z, Answered(k, s, "ok", z)
  PROVE  /\ s # << >> /\ s \in Seq(Objects(k))
         /\ Core(k, IF k = "set_elem" THEN << s[Len(s)] >> ELSE s, z)
         /\ Len(s) = 1 => P!Build(k, z) = P!Build(k, s[1])
<1>1. PICK t, y, x :
        /\ t \in Seq(Objects(k)) /\ y \in Objects(k)
        /\ s = Append(t, y)
        /\ Core(k, Base(k, t), x) /\ (Base(k, t) = << >> => x = P!New)
        /\ P!Parse(k, x, P!Build(k, y)) = P!Told("ok", z)
  BY DEF Answered
<1>. t \in Seq(Objects(k)) /\ y \in Objects(k)
  BY <1>1
<1>2. z = P!Whole(k, x, P!Build(k, y))
  BY <1>1, AnswerIs, ToldIs
<1>3. s # << >> /\ s \in Seq(Objects(k)) /\ Len(s) = Len(t) + 1 /\ s[Len(s)] = y /\ Len(t) \in Nat
  BY <1>1, AppendProperties
<1>4. Base(k, t) \in Seq(Objects(k))
  BY EmptySeq DEF Base
<1>5. Core(k, Append(Base(k, t), y), z)
  BY <1>1, <1>2, <1>4, CoreSteps
<1>6. Append(Base(k, t), y) = IF k = "set_elem" THEN << s[Len(s)] >> ELSE s
  <2>1. CASE k = "set_elem"
    <3>1. Base(k, t) = << >>
      BY <2>1 DEF Base
    <3>2. Append(<< >>, y) = << y >>
      OBVIOUS
    <3> QED BY <1>3, <2>1, <3>1, <3>2
  <2>2. CASE k # "set_elem"
    <3>1. Base(k, t) = t
      BY <2>2 DEF Base
    <3> QED BY <1>1, <2>2, <3>1
  <2> QED BY <2>1, <2>2
<1>7. ASSUME Len(s) = 1 PROVE P!Build(k, z) = P!Build(k, s[1])
  <2>1. Len(t) = 0 /\ s[1] = y
    BY <1>3, <1>7
  <2>2. t = << >>
    BY <2>1, EmptySeq
  <2>3. x = P!New
    BY <1>1, <2>2 DEF Base
  <2> QED BY <1>2, <2>1, <2>3, SentOn
<1> QED BY <1>3, <1>5, <1>6, <1>7

\* What is numbered, of a sequence of objects.
AllNumbered(k, s) == \A i \in 1 .. Len(s) : Numbered(k, s[i], i)

\* The values a reader has, and which of them are new.
LEMMA CoreValues ==
  ASSUME NEW k \in Kinds, NEW s \in Seq(Objects(k)), AllNumbered(k, s),
         NEW x, Core(k, s, x)
  PROVE  /\ P!Flags(x) \subseteq P!Attrs(k)
         /\ \A a \in P!Flags(x) : x.attrs[a] \in 0 .. Len(s)
<1>1. \A i \in 1 .. Len(s) : s[i] \in Objects(k)
  OBVIOUS
<1>2. \A i \in 1 .. Len(s) : P!Sent(k, s[i]) \subseteq P!Flags(s[i]) /\ P!Flags(s[i]) \subseteq Own(k)
  BY <1>1, ObjectIs, SentIn
<1>3. AllSent(k, s) \subseteq Own(k) /\ AllBits(k, s) \subseteq Header /\ Family(k) \subseteq Header
  <2>1. AllSent(k, s) \subseteq Own(k)
    BY <1>2 DEF AllSent
  <2>2. AllBits(k, s) \subseteq Header
    BY BitsAre DEF AllBits, Header
  <2> QED BY <2>1, <2>2 DEF Family, Header
<1>4. P!Flags(x) \subseteq P!Attrs(k)
  <2>1. Own(k) \cup Header \subseteq P!Attrs(k)
    BY DEF P!Attrs, Own, Header
  <2>2. P!Flags(x) \subseteq AllSent(k, s) \cup AllBits(k, s) \cup Family(k)
    BY DEF Core
  <2> QED BY <1>3, <2>1, <2>2
<1>5. ASSUME NEW a \in P!Flags(x) PROVE x.attrs[a] \in 0 .. Len(s)
  <2>1. CASE a \in Header
    BY <2>1 DEF Core
  <2>2. CASE a \notin Header
    <3>1. PICK i \in 1 .. Len(s) : a \in P!Sent(k, s[i]) /\ x.attrs[a] = s[i].attrs[a]
      BY <2>2 DEF Core
    <3>2. s[i].attrs[a] = IF a \in P!kinds[k].store THEN i ELSE 0
      BY <1>2, <3>1 DEF AllNumbered, Numbered
    <3> QED BY <3>1, <3>2
  <2> QED BY <2>1, <2>2
<1> QED BY <1>4, <1>5

\* A reader that was told of a failure.
LEMMA BadlyRead ==
  ASSUME NEW k \in Kinds, NEW s, NEW z, Answered(k, s, "fail", z), AllNumbered(k, s)
  PROVE  LET last == s[Len(s)]
             fresh  == {a \in P!Flags(z) : z.attrs[a] = Len(s)}
         IN
           /\ s # << >> /\ s \in Seq(Objects(k)) /\ P!Contains(last.exprs, "newer")
           /\ k \in P!ExprKinds
           /\ k = "rule" => /\ fresh = P!Flags(last) \cap {"TABLE", "CHAIN", "HANDLE"}
                            /\ z.exprs = P!ExprsOf(k, P!Front(s)) \o P!Before(last.exprs)
           /\ k = "set" => fresh = P!Sent(k, last) /\ z.exprs = << P!Freed >>
           /\ k = "set_elem" => z = P!New
           /\ "FAMILY" \in P!Flags(z) <=> k # "set_elem" /\ Len(s) > 1
           /\ P!Flags(z) \subseteq P!Attrs(k)
           /\ \A a \in P!Flags(z) : z.attrs[a] \in 0 .. Len(s)
           /\ z.exprs \in Seq(P!Exprs \cup {P!Freed})
<1>1. PICK t, y, x :
        /\ t \in Seq(Objects(k)) /\ y \in Objects(k)
        /\ s = Append(t, y)
        /\ Core(k, Base(k, t), x) /\ (Base(k, t) = << >> => x = P!New)
        /\ P!Parse(k, x, P!Build(k, y)) = P!Told("fail", z)
  BY DEF Answered
<1>. t \in Seq(Objects(k)) /\ y \in Objects(k)
  BY <1>1
<1>2. z = P!Partial(k, x, P!Build(k, y)) /\ P!Contains(y.exprs, "newer")
  BY <1>1, AnswerIs, ToldIs
<1> DEFINE n == Len(t)
           fresh == {a \in P!Flags(z) : z.attrs[a] = n + 1}
<1>3. /\ s # << >> /\ s \in Seq(Objects(k)) /\ Len(s) = n + 1 /\ s[n + 1] = y /\ n \in Nat
      /\ \A i \in 1 .. n : s[i] = t[i]
  BY <1>1, AppendProperties
<1>4. Numbered(k, y, n + 1) /\ AllNumbered(k, t)
  BY <1>3 DEF AllNumbered
<1>5. Obj(y) /\ P!Flags(y) \subseteq Own(k) /\ y.exprs \in Seq(P!Exprs)
  BY ObjectIs
<1>6. k \in P!ExprKinds
  <2>1. ~ P!Contains(<< >>, "newer")
    BY DEF P!Contains
  <2> QED BY <1>2, <1>4, <2>1 DEF Numbered
<1>7. P!Before(y.exprs) \in Seq(P!Exprs)
  BY <1>2, <1>5, BeforeIn
<1>8. CASE k = "set_elem"
  <2>1. z = P!New
    BY <1>2, <1>8 DEF P!Partial
  <2>2. P!Flags(z) = {} /\ z.exprs = << >>
    BY <2>1 DEF P!New, P!Flags
  <2>3. z.exprs \in Seq(P!Exprs \cup {P!Freed})
    BY <2>2, EmptySeq
  <2> QED BY <1>2, <1>3, <1>6, <1>8, <2>1, <2>2, <2>3
<1>9. CASE k # "set_elem"
  <2> DEFINE some == Reached(k, y, P!kinds[k].parse)
  <2>1. Base(k, t) = t
    BY <1>9 DEF Base
  <2>2. Core(k, t, x) /\ Obj(x) /\ x.exprs = P!ExprsOf(k, t) /\ x.exprs \in Seq(P!Exprs)
    BY <1>1, <2>1 DEF Core
  <2>3. /\ z.exprs = P!Spoilt(k, x.exprs, y.exprs)
        /\ P!Flags(z) = P!Flags(x) \cup some
        /\ \A a \in some : z.attrs[a] = y.attrs[a]
        /\ \A a \in P!Flags(x) \ some : z.attrs[a] = x.attrs[a]
        /\ some \subseteq P!Sent(k, y)
    BY <1>2, <1>5, <1>9, <2>2, PartialIs
  <2>4. /\ P!Flags(x) \subseteq P!Attrs(k)
        /\ \A a \in P!Flags(x) : x.attrs[a] \in 0 .. n
    BY <1>4, <2>2, CoreValues
  <2>5. some \subseteq P!Flags(y) /\ some \cap Header = {}
    BY <1>5, <2>3, SentIn
  <2>6. P!kinds[k].bits \subseteq Header
    BY <1>6, <1>9 DEF P!ExprKinds, P!kinds, P!Kind, Header
  <2>7. \A a \in some : z.attrs[a] = n + 1
    <3>1. \A a \in some : a \in P!kinds[k].store
      BY <1>5, <2>5, <2>6 DEF Own, Header
    <3> QED BY <1>4, <2>3, <2>5, <3>1 DEF Numbered
  <2>8. \A a \in P!Flags(z) : z.attrs[a] \in 0 .. n + 1
    BY <1>3, <2>3, <2>4, <2>7
  <2> HIDE DEF some
  <2>9. fresh = some
    <3>1. \A a \in P!Flags(x) \ some : z.attrs[a] # n + 1
      BY <1>3, <2>3, <2>4
    <3> QED BY <2>3, <2>7, <3>1
  <2>10. P!Flags(z) \subseteq P!Attrs(k)
    BY <1>5, <2>3, <2>4, <2>5 DEF P!Attrs, Own, Header
  <2>11. "FAMILY" \in P!Flags(z) <=> n > 0
    <3>1. "FAMILY" \in Header /\ "FAMILY" \notin some
      BY <2>5 DEF Header
    <3>2. "FAMILY" \notin AllSent(k, t)
      <4>1. \A i \in 1 .. Len(t) : P!Sent(k, t[i]) \cap Header = {}
        <5>1. \A i \in 1 .. Len(t) : t[i] \in Objects(k)
          OBVIOUS
        <5> QED BY <5>1, ObjectIs, SentIn
      <4> QED BY <3>1, <4>1 DEF AllSent
    <3>3. "FAMILY" \notin AllBits(k, t)
      BY BitsAre DEF AllBits
    <3>4. Family(k) = {"FAMILY"}
      BY <1>9 DEF Family
    <3>5. P!Flags(x) = AllSent(k, t) \cup AllBits(k, t) \cup (IF n = 0 THEN {} ELSE Family(k))
      BY <2>2 DEF Core
    <3> HIDE DEF n
    <3> QED BY <1>3, <2>3, <3>1, <3>2, <3>3, <3>4, <3>5
  <2>12. CASE k = "rule"
    <3>1. some = P!Flags(y) \cap {"TABLE", "CHAIN", "HANDLE"}
      BY <1>5, <2>12, FirstOfRule DEF some
    <3>2. z.exprs = x.exprs \o P!Before(y.exprs)
      BY <2>3, <2>12 DEF P!Spoilt
    <3>3. P!Front(s) = t
      BY <1>1, LastIs
    <3>4. z.exprs \in Seq(P!Exprs \cup {P!Freed})
      BY <1>7, <2>2, <3>2, ConcatProperties
    <3> QED BY <1>2, <1>3, <1>6, <2>2, <2>8, <2>9, <2>10, <2>11, <2>12, <3>1, <3>2, <3>3, <3>4
  <2>13. CASE k = "set"
    <3>1. some = P!Sent(k, y)
      BY <1>5, <2>13, FirstOfSet DEF some
    <3>2. z.exprs = << P!Freed >>
      BY <2>3, <2>13 DEF P!Spoilt
    <3>3. z.exprs \in Seq(P!Exprs \cup {P!Freed})
      BY <3>2
    <3> QED BY <1>2, <1>3, <1>6, <2>8, <2>9, <2>10, <2>11, <2>13, <3>1, <3>2, <3>3
  <2> QED BY <1>6, <1>9, <2>12, <2>13 DEF P!ExprKinds
<1> QED BY <1>8, <1>9

\* Expressions that are all there are expressions, freed or not.
LEMMA SeqIn == \A s \in Seq(P!Exprs) : s \in Seq(P!Exprs \cup {P!Freed})
OBVIOUS

\* Of one element: CoreValues with another number.
LEMMA LastValues ==
  ASSUME NEW k \in Kinds, NEW y \in Objects(k), NEW n \in Nat, Numbered(k, y, n),
         NEW x, Core(k, << y >>, x)
  PROVE  /\ P!Flags(x) \subseteq P!Attrs(k)
         /\ \A a \in P!Flags(x) : x.attrs[a] \in 0 .. n
         /\ P!Flags(x) = P!Sent(k, y) \cup Bits(k, y.exprs) \cup Family(k)
         /\ \A a \in P!Flags(x) \ Header : a \in P!Sent(k, y) /\ x.attrs[a] = y.attrs[a]
         /\ x.exprs = y.exprs /\ x.exprs \in Seq(P!Exprs \cup {P!Freed})
<1> DEFINE one == << y >>
<1>1. one \in Seq(Objects(k)) /\ Len(one) = 1 /\ one[1] = y /\ 1 .. 1 = {1}
  OBVIOUS
<1>2. /\ \A a : a \in AllSent(k, one) <=> \E i \in 1 .. Len(one) : a \in P!Sent(k, one[i])
      /\ \A a : a \in AllBits(k, one) <=> \E i \in 1 .. Len(one) : a \in Bits(k, one[i].exprs)
  BY DEF AllSent, AllBits
<1>3. one = Append(<< >>, y) /\ << >> \in Seq(Objects(k))
  OBVIOUS
<1> HIDE DEF one
<1>4. AllSent(k, one) = P!Sent(k, y) /\ AllBits(k, one) = Bits(k, y.exprs)
  <2>1. \A a : a \in AllSent(k, one) <=> a \in P!Sent(k, y)
    BY <1>1, <1>2
  <2>2. \A a : a \in AllBits(k, one) <=> a \in Bits(k, y.exprs)
    BY <1>1, <1>2
  <2>3. AllSent(k, one) = P!Sent(k, y)
    BY <2>1
  <2>4. AllBits(k, one) = Bits(k, y.exprs)
    BY <2>2
  <2> QED BY <2>3, <2>4
<1>5. y.exprs \in Seq(P!Exprs) /\ P!Flags(y) \subseteq Own(k)
  BY ObjectIs
<1>6. P!ExprsOf(k, one) = y.exprs
  <2>1. P!ExprsOf(k, Append(<< >>, y)) = P!Joined(k, P!ExprsOf(k, << >>), y.exprs)
    BY <1>3, ExprsOfMore
  <2>2. P!Joined(k, << >>, y.exprs) = y.exprs
    BY <1>5, JoinedIn, EmptySeq
  <2> QED BY <1>3, <2>1, <2>2, ExprsOfNone
<1>7. /\ P!Flags(x) = P!Sent(k, y) \cup Bits(k, y.exprs) \cup Family(k)
      /\ x.exprs = y.exprs
      /\ \A a \in P!Flags(x) \ Header :
           \E i \in 1 .. Len(one) : a \in P!Sent(k, one[i]) /\ x.attrs[a] = one[i].attrs[a]
      /\ \A a \in P!Flags(x) \cap Header : x.attrs[a] = 0
  <2>1. Core(k, one, x) /\ Len(one) # 0
    BY <1>1 DEF one
  <2> QED BY <1>4, <1>6, <2>1 DEF Core
<1>8. \A a \in P!Flags(x) \ Header : a \in P!Sent(k, y) /\ x.attrs[a] = y.attrs[a]
  BY <1>1, <1>7
<1>9. P!Sent(k, y) \subseteq P!Flags(y)
  BY <1>5, SentIn
<1>10. P!Flags(x) \subseteq P!Attrs(k)
  <2>1. Own(k) \cup Header \subseteq P!Attrs(k)
    BY DEF P!Attrs, Own, Header
  <2>2. Bits(k, y.exprs) \subseteq Header /\ Family(k) \subseteq Header
    BY BitsAre DEF Family, Header
  <2> QED BY <1>5, <1>7, <1>9, <2>1, <2>2
<1>11. ASSUME NEW a \in P!Flags(x) PROVE x.attrs[a] \in 0 .. n
  <2>1. CASE a \in Header
    BY <1>7, <2>1
  <2>2. CASE a \notin Header
    BY <1>8, <1>9, <2>2 DEF Numbered
  <2> QED BY <2>1, <2>2
<1> QED BY <1>5, <1>7, <1>8, <1>10, <1>11, SeqIn

-----------------------------------------------------------------------------
(* The properties, of a reader that has what Core says                     *)

\* An object a program may have, by the bounds.
Typed(k, b, y) ==
  /\ y \in Objects(k) /\ \A a \in P!Flags(y) : y.attrs[a] \in 0 .. b.reads

\* The inductive invariant.  A program whose reader has been told of a failure
\* goes on to another type only, so nothing need be known of what comes after.
PlainInv ==
  /\ bound \in Bounds /\ kind \in bound.kinds
  /\ read \in Seq(Objects(kind)) /\ Len(read) <= bound.reads
  /\ AllNumbered(kind, read)
  /\ Typed(kind, bound, mine) /\ Numbered(kind, mine, Len(read) + 1)
  /\ \/ result = "none" /\ read = << >> /\ theirs = P!New
     \/ result \in {"ok", "fail"} /\ Answered(kind, read, result, theirs)

\* Bounds are of this library.
BoundsIn == \A b \in Bounds : b.kinds \subseteq Kinds /\ b.reads \in Nat \ {0}

\* The bounds are of this library, by the assumption on them.
LEMMA BoundsAre == BoundsIn
BY ObjectsAssumption DEF P!BoundsAssumption, BoundsIn, Kinds

\* The shape, from the invariant.
LEMMA TypesFollow == PlainInv => P!TypeOK
<1> SUFFICES ASSUME PlainInv PROVE P!TypeOK
  OBVIOUS
<1>1. kind \in Kinds /\ bound.reads \in Nat \ {0}
  BY BoundsAre DEF PlainInv, BoundsIn
<1>2. /\ read \in Seq(Objects(kind)) /\ Len(read) <= bound.reads /\ Len(read) \in Nat
      /\ AllNumbered(kind, read)
  BY DEF PlainInv
<1>3. \A n \in 0 .. Len(read) : n \in 0 .. bound.reads
  BY <1>1, <1>2
<1>4. P!Object(mine)
  <2>1. mine \in Objects(kind) /\ \A a \in P!Flags(mine) : mine.attrs[a] \in 0 .. bound.reads
    BY DEF PlainInv, Typed
  <2>2. P!Flags(mine) \subseteq Own(kind) /\ mine.exprs \in Seq(P!Exprs)
    BY <2>1, ObjectIs
  <2>3. Own(kind) \subseteq P!Attrs(kind)
    BY DEF Own, P!Attrs
  <2>4. mine.exprs \in Seq(P!Exprs \cup {P!Freed})
    BY <2>2, SeqIn
  <2> QED BY <2>1, <2>2, <2>3, <2>4 DEF P!Object
<1>5. P!Object(theirs)
  <2>1. CASE theirs = P!New
    <3>1. P!Flags(theirs) = {} /\ theirs.exprs = << >>
      BY <2>1 DEF P!New, P!Flags
    <3> QED BY <3>1, EmptySeq DEF P!Object
  <2>2. CASE Answered(kind, read, "ok", theirs)
    <3> DEFINE seen == IF kind = "set_elem" THEN << read[Len(read)] >> ELSE read
    <3>1. read # << >> /\ Core(kind, seen, theirs)
      BY <1>1, <2>2, WellRead
    <3>2. CASE kind = "set_elem"
      <4>1. read[Len(read)] \in Objects(kind) /\ Numbered(kind, read[Len(read)], Len(read))
        BY <1>2, <3>1, EmptySeq DEF AllNumbered
      <4>2. Core(kind, << read[Len(read)] >>, theirs)
        BY <3>1, <3>2
      <4> HIDE DEF seen
      <4>3. /\ P!Flags(theirs) \subseteq P!Attrs(kind)
            /\ \A a \in P!Flags(theirs) : theirs.attrs[a] \in 0 .. Len(read)
            /\ theirs.exprs \in Seq(P!Exprs \cup {P!Freed})
        BY <1>1, <1>2, <4>1, <4>2, LastValues
      <4> QED BY <1>3, <4>3 DEF P!Object
    <3>3. CASE kind # "set_elem"
      <4>1. Core(kind, read, theirs)
        BY <3>1, <3>3
      <4>2. P!Flags(theirs) \subseteq P!Attrs(kind)
        BY <1>1, <1>2, <4>1, CoreValues
      <4>3. \A a \in P!Flags(theirs) : theirs.attrs[a] \in 0 .. bound.reads
        BY <1>1, <1>2, <1>3, <4>1, CoreValues
      <4>4. theirs.exprs \in Seq(P!Exprs \cup {P!Freed})
        BY <4>1, SeqIn DEF Core
      <4> QED BY <4>2, <4>3, <4>4 DEF P!Object
    <3> QED BY <3>2, <3>3
  <2>3. CASE Answered(kind, read, "fail", theirs)
    <3>1. /\ P!Flags(theirs) \subseteq P!Attrs(kind)
          /\ \A a \in P!Flags(theirs) : theirs.attrs[a] \in 0 .. Len(read)
          /\ theirs.exprs \in Seq(P!Exprs \cup {P!Freed})
      BY <1>1, <1>2, <2>3, BadlyRead
    <3> QED BY <1>3, <3>1 DEF P!Object
  <2> QED BY <2>1, <2>2, <2>3 DEF PlainInv
<1>6. result \in {"none", "ok", "fail", "exit"}
  BY DEF PlainInv
<1> QED BY <1>4, <1>5, <1>6 DEF P!TypeOK


\* A bit for a list of expressions, in the two forms the model has for it.
LEMMA ListBitsAre ==
  ASSUME NEW k, k = kind
  PROVE  \A a : a \in P!ListBits <=> \E i \in P!Counting : a \in Bits(k, read[i].exprs)
BY DEF P!ListBits, Bits

\* Merged, from the invariant.
LEMMA MergedFollows == PlainInv => P!Merged
<1> SUFFICES ASSUME PlainInv, result = "ok" PROVE P!Merged
  BY DEF P!Merged
<1> DEFINE k == kind
           n == Len(read)
           Values == \A a \in P!Flags(theirs) \ {"FAMILY", "EXPR", "EXPRESSIONS"} :
                       \E i \in P!Counting :
                         /\ a \in P!Sent(kind, read[i])
                         /\ \A j \in P!Counting : j > i => a \notin P!Sent(kind, read[j])
                         /\ theirs.attrs[a] = read[i].attrs[a]
           counted == UNION {P!Sent(kind, read[i]) : i \in P!Counting}
           FlagsAre == P!Flags(theirs) = counted \cup P!ListBits
                         \cup (IF kind = "set_elem" THEN {} ELSE {"FAMILY"})
           ExprsAre == theirs.exprs = IF kind = "set_elem" THEN P!Last(read).exprs
                                      ELSE P!ExprsOf(kind, read)
<1>1. kind \in Kinds
  BY BoundsAre DEF PlainInv, BoundsIn
<1>2. read \in Seq(Objects(k)) /\ AllNumbered(k, read) /\ Answered(k, read, "ok", theirs)
  BY DEF PlainInv
<1>3. /\ read # << >>
      /\ Core(k, IF k = "set_elem" THEN << read[n] >> ELSE read, theirs)
  BY <1>1, <1>2, WellRead
<1>4. n \in Nat /\ n # 0 /\ DOMAIN read = 1 .. n
  BY <1>2, <1>3, EmptySeq
<1>5. Family(k) = IF kind = "set_elem" THEN {} ELSE {"FAMILY"}
  BY DEF Family
<1>6. \A a : a \in counted
               <=> \E i \in P!Counting : a \in P!Sent(k, read[i])
  OBVIOUS
<1>7. \A a : a \in P!ListBits <=> \E i \in P!Counting : a \in Bits(k, read[i].exprs)
  BY ListBitsAre
<1>8. CASE k = "set_elem"
  <2>1. P!Counting = {n}
    BY <1>8 DEF P!Counting
  <2>2. read[n] \in Objects(k) /\ Numbered(k, read[n], n)
    BY <1>2, <1>4 DEF AllNumbered
  <2>3. Core(k, << read[n] >>, theirs)
    BY <1>3, <1>8
  <2> HIDE DEF n
  <2>4. /\ P!Flags(theirs) = P!Sent(k, read[n]) \cup Bits(k, read[n].exprs) \cup Family(k)
        /\ \A a \in P!Flags(theirs) \ Header :
             a \in P!Sent(k, read[n]) /\ theirs.attrs[a] = read[n].attrs[a]
        /\ theirs.exprs = read[n].exprs
    BY <1>1, <1>4, <2>2, <2>3, LastValues
  <2>5. FlagsAre
    <3>1. \A a : a \in counted <=> a \in P!Sent(k, read[n])
      BY <1>6, <2>1
    <3>2. \A a : a \in P!ListBits <=> a \in Bits(k, read[n].exprs)
      BY <1>7, <2>1
    <3>3. counted = P!Sent(k, read[n])
      BY <3>1
    <3>4. P!ListBits = Bits(k, read[n].exprs)
      BY <3>2
    <3> HIDE DEF counted
    <3> QED BY <1>5, <2>4, <3>3, <3>4
  <2>6. Values
    BY <1>4, <2>1, <2>4 DEF Header
  <2>7. ExprsAre
    BY <1>8, <2>4 DEF P!Last, n
  <2> QED BY <2>5, <2>6, <2>7 DEF P!Merged
<1>9. CASE k # "set_elem"
  <2>1. P!Counting = 1 .. n
    BY <1>4, <1>9 DEF P!Counting
  <2>2. Core(k, read, theirs)
    BY <1>3, <1>9
  <2>3. FlagsAre
    <3>1. counted = AllSent(k, read)
      BY <2>1 DEF AllSent
    <3>2. \A a : a \in AllBits(k, read) <=> \E i \in 1 .. n : a \in Bits(k, read[i].exprs)
      BY DEF AllBits
    <3>3. P!ListBits = AllBits(k, read)
      BY <1>7, <2>1, <3>2
    <3>4. P!Flags(theirs) = AllSent(k, read) \cup AllBits(k, read) \cup Family(k)
      BY <1>4, <2>2 DEF Core
    <3> HIDE DEF counted
    <3> QED BY <1>5, <3>1, <3>3, <3>4
  <2>4. Values
    BY <2>1, <2>2 DEF Core, Header
  <2>5. ExprsAre
    BY <1>9, <2>2 DEF Core
  <2> QED BY <2>3, <2>4, <2>5 DEF P!Merged
<1> QED BY <1>8, <1>9

\* What is sent on is the same message, from the invariant.
LEMMA RelayFollows == PlainInv => P!Relay
<1> SUFFICES ASSUME PlainInv, result = "ok", Len(read) = 1
             PROVE  P!Build(kind, theirs) = P!Build(kind, read[1])
  BY DEF P!Relay
<1>1. kind \in Kinds
  BY BoundsAre DEF PlainInv, BoundsIn
<1>2. Answered(kind, read, "ok", theirs)
  BY DEF PlainInv
<1> QED BY <1>1, <1>2, WellRead

\* What is left of a message with an unknown expression, from the invariant.
LEMMA PartialFollows == PlainInv => P!PartialParse
<1> SUFFICES ASSUME PlainInv, result = "fail" PROVE P!PartialParse
  BY DEF P!PartialParse
<1> DEFINE last == read[Len(read)]
           fresh  == {a \in P!Flags(theirs) : theirs.attrs[a] = Len(read)}
<1>1. kind \in Kinds
  BY BoundsAre DEF PlainInv, BoundsIn
<1>2. Answered(kind, read, "fail", theirs) /\ AllNumbered(kind, read)
  BY DEF PlainInv
<1>3. /\ P!Contains(last.exprs, "newer") /\ kind \in P!ExprKinds
      /\ kind = "rule" => /\ fresh = P!Flags(last) \cap {"TABLE", "CHAIN", "HANDLE"}
                          /\ theirs.exprs = P!ExprsOf(kind, P!Front(read))
                                              \o P!Before(last.exprs)
      /\ kind = "set" => fresh = P!Sent(kind, last) /\ theirs.exprs = << P!Freed >>
      /\ kind = "set_elem" => theirs = P!New
      /\ "FAMILY" \in P!Flags(theirs) <=> kind # "set_elem" /\ Len(read) > 1
  BY <1>1, <1>2, BadlyRead
<1>4. P!Last(read) = last
  BY DEF P!Last
<1>5. kind = "set_elem" => fresh = {}
  BY <1>3 DEF P!New, P!Flags
<1>6. fresh = CASE kind = "rule" -> P!Flags(last) \cap {"TABLE", "CHAIN", "HANDLE"}
              [] kind = "set"  -> P!Sent(kind, last)
              [] OTHER         -> {}
  <2>1. kind \in {"rule", "set", "set_elem"}
    BY <1>3 DEF P!ExprKinds
  <2> HIDE DEF fresh, last
  <2> QED BY <1>3, <1>5, <2>1
<1> HIDE DEF last
<1> QED BY <1>3, <1>4, <1>6 DEF P!PartialParse

-----------------------------------------------------------------------------
(* The steps                                                               *)

\* An attribute that is given a value.
LEMMA GivenIs ==
  ASSUME NEW k, NEW y \in Objects(k), NEW a \in Own(k), NEW v \in Nat
  PROVE  LET z == P!Given(y, a, v) IN
           /\ z \in Objects(k) /\ z.exprs = y.exprs
           /\ P!Flags(z) = P!Flags(y) \cup {a} /\ z.attrs[a] = v
           /\ \A b \in P!Flags(y) : b # a => z.attrs[b] = y.attrs[b]
<1> DEFINE new == [b \in P!Flags(y) \cup {a} |-> IF b = a THEN v ELSE y.attrs[b]]
           z   == P!Given(y, a, v)
<1>1. Obj(y) /\ P!Flags(y) \subseteq Own(k) /\ y.exprs \in Seq(P!Exprs)
      /\ \A b \in P!Flags(y) : y.attrs[b] \in Nat
  BY ObjectIs
<1>2. z = [attrs |-> new, exprs |-> y.exprs]
  BY <1>1 DEF P!Given, Obj
<1>3. new \in [P!Flags(y) \cup {a} -> Nat] /\ P!Flags(y) \cup {a} \in SUBSET Own(k)
  BY <1>1
<1>4. /\ DOMAIN new = P!Flags(y) \cup {a} /\ new[a] = v
      /\ \A b \in P!Flags(y) : b # a => new[b] = y.attrs[b]
  OBVIOUS
<1> HIDE DEF new, z
<1>5. z.attrs = new /\ z.exprs = y.exprs
  BY <1>2
<1>6. z \in Objects(k)
  BY <1>1, <1>2, <1>3 DEF Objects
<1> QED BY <1>4, <1>5, <1>6 DEF P!Flags, z

\* Another list of expressions.
LEMMA WithExprs ==
  ASSUME NEW k, NEW y \in Objects(k), NEW e \in Seq(P!Exprs)
  PROVE  LET z == [y EXCEPT !.exprs = e] IN
           z \in Objects(k) /\ z.exprs = e /\ z.attrs = y.attrs /\ P!Flags(z) = P!Flags(y)
BY DEF Objects, P!Flags

\* A new object.
LEMMA NewIs ==
  ASSUME NEW k, NEW b, b.reads \in Nat, NEW n
  PROVE  Typed(k, b, P!New) /\ Numbered(k, P!New, n)
<1>1. P!New = [attrs |-> << >>, exprs |-> << >>]
  BY DEF P!New
<1>2. P!New.attrs = << >> /\ P!New.exprs = << >> /\ DOMAIN << >> = {}
  BY <1>1
<1>3. P!Flags(P!New) = {}
  BY <1>2 DEF P!Flags
<1>4. << >> \in [{} -> Nat] /\ {} \in SUBSET Own(k) /\ << >> \in Seq(P!Exprs)
  OBVIOUS
<1>5. P!New \in Objects(k)
  BY <1>1, <1>4 DEF Objects
<1> QED BY <1>2, <1>3, <1>5 DEF Typed, Numbered

\* A program that changes its object only.
LEMMA MineOnly ==
  ASSUME PlainInv, UNCHANGED <<bound, kind, theirs, result, read>>,
         Typed(kind, bound, mine'), Numbered(kind, mine', Len(read) + 1)
  PROVE  PlainInv'
BY DEF PlainInv

\* At first the invariant holds.
LEMMA PlainBegins == P!Init => PlainInv
<1> SUFFICES ASSUME P!Init PROVE PlainInv
  OBVIOUS
<1>1. /\ bound \in Bounds /\ kind \in bound.kinds /\ mine = P!New /\ theirs = P!New
      /\ result = "none" /\ read = << >>
  BY DEF P!Init
<1>2. bound.reads \in Nat
  BY <1>1, BoundsAre DEF BoundsIn
<1>3. Len(read) = 0 /\ read \in Seq(Objects(kind)) /\ 0 <= bound.reads /\ 1 .. 0 = {}
  BY <1>1, <1>2
<1>4. AllNumbered(kind, read)
  BY <1>3 DEF AllNumbered
<1>5. Typed(kind, bound, mine) /\ Numbered(kind, mine, Len(read) + 1)
  BY <1>1, <1>2, NewIs
<1> QED BY <1>1, <1>3, <1>4, <1>5 DEF PlainInv

\* What the invariant says to begin with.
LEMMA PlainFacts ==
  ASSUME PlainInv
  PROVE  /\ kind \in Kinds /\ bound.reads \in Nat \ {0} /\ bound \in Bounds
         /\ read \in Seq(Objects(kind)) /\ Len(read) \in Nat /\ Len(read) <= bound.reads
         /\ Typed(kind, bound, mine) /\ mine \in Objects(kind)
         /\ \A a \in P!Flags(mine) : mine.attrs[a] \in 0 .. bound.reads
         /\ Numbered(kind, mine, Len(read) + 1)
         /\ P!Flags(mine) \subseteq Own(kind)
BY BoundsAre, ObjectIs DEF PlainInv, BoundsIn, Typed

\* Attributes.
LEMMA SetKeeps ==
  ASSUME PlainInv, NEW a, P!set(a)
  PROVE  PlainInv'
<1> DEFINE n == Len(read) + 1
<1>1. /\ UNCHANGED <<bound, kind, theirs, result, read>> /\ Len(read) < bound.reads
      /\ a \in P!kinds[kind].store /\ mine' = P!Given(mine, a, n)
  BY DEF P!set, P!OwnWork, P!Busy
<1>2. a \in Own(kind) /\ n \in Nat /\ n \in 0 .. bound.reads
  BY <1>1, PlainFacts DEF Own
<1> HIDE DEF n
<1>3. /\ mine' \in Objects(kind) /\ mine'.exprs = mine.exprs
      /\ P!Flags(mine') = P!Flags(mine) \cup {a} /\ mine'.attrs[a] = n
      /\ \A b \in P!Flags(mine) : b # a => mine'.attrs[b] = mine.attrs[b]
  <2>1. mine \in Objects(kind)
    BY PlainFacts
  <2> DEFINE z == P!Given(mine, a, n)
  <2>2. /\ z \in Objects(kind) /\ z.exprs = mine.exprs
        /\ P!Flags(z) = P!Flags(mine) \cup {a} /\ z.attrs[a] = n
        /\ \A b \in P!Flags(mine) : b # a => z.attrs[b] = mine.attrs[b]
    BY <1>2, <2>1, GivenIs
  <2>3. mine' = z
    BY <1>1
  <2> HIDE DEF z
  <2> QED BY <2>2, <2>3
<1>4. Typed(kind, bound, mine')
  BY <1>2, <1>3, PlainFacts DEF Typed
<1>5. Numbered(kind, mine', n)
  BY <1>1, <1>3, PlainFacts DEF Numbered, n
<1> QED BY <1>1, <1>4, <1>5, MineOnly DEF n

\* A bit that is set leaves an object as the program may have it.
LEMMA MarkedKeeps ==
  ASSUME PlainInv, NEW a \in Own(kind), a \notin P!kinds[kind].store
  PROVE  LET z == P!Marked(mine, a) IN
           Typed(kind, bound, z) /\ Numbered(kind, z, Len(read) + 1) /\ z.exprs = mine.exprs
<1> DEFINE v == IF a \in P!Flags(mine) THEN mine.attrs[a] ELSE 0
           z == P!Marked(mine, a)
<1>1. z = P!Given(mine, a, v)
  BY DEF P!Marked
<1>2. v = 0
  BY PlainFacts DEF Numbered
<1> HIDE DEF v, z
<1>3. /\ z \in Objects(kind) /\ z.exprs = mine.exprs
      /\ P!Flags(z) = P!Flags(mine) \cup {a} /\ z.attrs[a] = 0
      /\ \A b \in P!Flags(mine) : b # a => z.attrs[b] = mine.attrs[b]
  <2>1. mine \in Objects(kind) /\ v \in Nat
    BY <1>2, PlainFacts
  <2> DEFINE g == P!Given(mine, a, v)
  <2>2. /\ g \in Objects(kind) /\ g.exprs = mine.exprs
        /\ P!Flags(g) = P!Flags(mine) \cup {a} /\ g.attrs[a] = v
        /\ \A b \in P!Flags(mine) : b # a => g.attrs[b] = mine.attrs[b]
    BY <2>1, GivenIs
  <2> HIDE DEF g
  <2> QED BY <1>1, <1>2, <2>2 DEF g
<1>4. 0 \in 0 .. bound.reads
  BY PlainFacts
<1>5. Typed(kind, bound, z)
  BY <1>3, <1>4, PlainFacts DEF Typed
<1>6. Numbered(kind, z, Len(read) + 1)
  BY <1>3, PlainFacts DEF Numbered
<1> QED BY <1>3, <1>5, <1>6 DEF z

\* A bit that is set alone (set_bit) keeps the invariant.
LEMMA SetBitKeeps ==
  ASSUME PlainInv, NEW a, P!set_bit(a)
  PROVE  PlainInv'
<1>1. /\ UNCHANGED <<bound, kind, theirs, result, read>>
      /\ a \in P!kinds[kind].bits /\ mine' = P!Marked(mine, a)
  BY DEF P!set_bit, P!OwnWork
<1>2. a \in Own(kind) /\ a \notin P!kinds[kind].store
  BY <1>1, PlainFacts, NotStored DEF Own
<1> QED BY <1>1, <1>2, MarkedKeeps, MineOnly

\* So does an attribute that is unset.
LEMMA UnsetKeeps ==
  ASSUME PlainInv, NEW a, P!unset(a)
  PROVE  PlainInv'
<1> DEFINE new == [b \in P!Flags(mine) \ {a} |-> mine.attrs[b]]
<1>1. /\ UNCHANGED <<bound, kind, theirs, result, read>>
      /\ mine' = [mine EXCEPT !.attrs = new]
  BY DEF P!unset, P!OwnWork
<1>2. Obj(mine) /\ mine.exprs \in Seq(P!Exprs) /\ \A b \in P!Flags(mine) : mine.attrs[b] \in Nat
  BY PlainFacts, ObjectIs
<1>3. new \in [P!Flags(mine) \ {a} -> Nat] /\ P!Flags(mine) \ {a} \in SUBSET Own(kind)
  BY <1>2, PlainFacts
<1>4. DOMAIN new = P!Flags(mine) \ {a} /\ \A b \in DOMAIN new : new[b] = mine.attrs[b]
  OBVIOUS
<1> HIDE DEF new
<1>5. mine' = [attrs |-> new, exprs |-> mine.exprs]
  BY <1>1, <1>2 DEF Obj
<1>6. mine'.attrs = new /\ mine'.exprs = mine.exprs
  BY <1>5
<1>7. mine' \in Objects(kind)
  BY <1>2, <1>3, <1>5 DEF Objects
<1>8. P!Flags(mine') \subseteq P!Flags(mine) /\ \A b \in P!Flags(mine') : mine'.attrs[b] = mine.attrs[b]
  BY <1>4, <1>6 DEF P!Flags
<1>9. Typed(kind, bound, mine')
  BY <1>7, <1>8, PlainFacts DEF Typed
<1>10. Numbered(kind, mine', Len(read) + 1)
  BY <1>6, <1>8, PlainFacts DEF Numbered
<1> QED BY <1>1, <1>9, <1>10, MineOnly

\* Expressions.
LEMMA ExprsKeep ==
  ASSUME PlainInv, kind \in P!ExprKinds, NEW y,
         Typed(kind, bound, y), Numbered(kind, y, Len(read) + 1), NEW e \in Seq(P!Exprs)
  PROVE  LET z == [y EXCEPT !.exprs = e] IN
           Typed(kind, bound, z) /\ Numbered(kind, z, Len(read) + 1)
<1> DEFINE z == [y EXCEPT !.exprs = e]
<1>1. z \in Objects(kind) /\ z.attrs = y.attrs /\ P!Flags(z) = P!Flags(y)
  BY WithExprs DEF Typed
<1> HIDE DEF z
<1>2. Typed(kind, bound, z)
  BY <1>1 DEF Typed
<1>3. Numbered(kind, z, Len(read) + 1)
  BY <1>1 DEF Numbered
<1> QED BY <1>2, <1>3 DEF z

\* An expression that is added.
LEMMA AddExprKeeps ==
  ASSUME PlainInv, NEW e \in P!Exprs, P!add_expr(e)
  PROVE  PlainInv'
<1>1. /\ UNCHANGED <<bound, kind, theirs, result, read>> /\ kind \in P!ExprKinds
      /\ mine' = [mine EXCEPT !.exprs = Append(mine.exprs, e)]
  BY DEF P!add_expr, P!OwnWork
<1>2. mine.exprs \in Seq(P!Exprs)
  BY PlainFacts, ObjectIs
<1>3. Append(mine.exprs, e) \in Seq(P!Exprs)
  BY <1>2, AppendProperties
<1> QED BY <1>1, <1>3, PlainFacts, ExprsKeep, MineOnly

\* An expression that is put in as the only one.
LEMMA SetExprKeeps ==
  ASSUME PlainInv, NEW e \in P!Exprs, P!set_expr(e)
  PROVE  PlainInv'
<1> DEFINE y == P!Marked(mine, "EXPR")
<1>1. /\ UNCHANGED <<bound, kind, theirs, result, read>> /\ kind \in P!ExprKinds
      /\ mine' = [y EXCEPT !.exprs = << e >>]
  BY DEF P!set_expr, P!OwnWork
<1>2. "EXPR" \in Own(kind) /\ "EXPR" \notin P!kinds[kind].store
  BY PlainFacts, NotStored DEF Own, Header
<1>3. Typed(kind, bound, y) /\ Numbered(kind, y, Len(read) + 1)
  BY <1>2, MarkedKeeps
<1>4. << e >> \in Seq(P!Exprs)
  OBVIOUS
<1> HIDE DEF y
<1> QED BY <1>1, <1>3, <1>4, ExprsKeep, MineOnly

\* A message, built and read.
LEMMA HandOverKeeps ==
  ASSUME PlainInv, P!hand_over
  PROVE  PlainInv'
<1> DEFINE x == IF kind = "set_elem" THEN P!New ELSE theirs
           r == P!Parse(kind, x, P!Build(kind, mine))
<1>1. /\ Len(read) < bound.reads /\ result \in {"none", "ok"}
      /\ theirs' = r.obj /\ result' = r.result /\ read' = Append(read, mine)
      /\ mine' = P!New /\ bound' = bound /\ kind' = kind
  BY DEF P!hand_over, P!Busy
<1>2. Core(kind, Base(kind, read), x) /\ (Base(kind, read) = << >> => x = P!New)
  <2>1. CASE kind = "set_elem"
    BY <2>1, CoreBegins DEF Base
  <2>2. CASE kind # "set_elem" /\ result = "none"
    BY <2>2, CoreBegins DEF Base, PlainInv
  <2>3. CASE kind # "set_elem" /\ result = "ok"
    <3>1. Answered(kind, read, "ok", theirs)
      BY <2>3 DEF PlainInv
    <3>2. read # << >> /\ Core(kind, read, theirs)
      BY <2>3, <3>1, PlainFacts, WellRead
    <3> QED BY <2>3, <3>2 DEF Base
  <2> QED BY <1>1, <2>1, <2>2, <2>3
<1>3. r = P!Told(r.result, r.obj) /\ r.result \in {"ok", "fail"}
  BY PlainFacts, AnswerIs
<1> HIDE DEF x, r
<1>4. Answered(kind, read', result', theirs')
  BY <1>1, <1>2, <1>3, PlainFacts DEF Answered, r
<1>5. /\ read' \in Seq(Objects(kind)) /\ Len(read') = Len(read) + 1
      /\ read'[Len(read) + 1] = mine /\ \A i \in 1 .. Len(read) : read'[i] = read[i]
  BY <1>1, PlainFacts, AppendProperties
<1>6. Len(read') <= bound.reads
  BY <1>1, <1>5, PlainFacts
<1>7. AllNumbered(kind, read')
  <2>1. AllNumbered(kind, read)
    BY DEF PlainInv
  <2>2. \A i \in 1 .. Len(read') : i \in 1 .. Len(read) \/ i = Len(read) + 1
    BY <1>5, PlainFacts
  <2> QED BY <1>5, <2>1, <2>2, PlainFacts DEF AllNumbered
<1>8. Typed(kind, bound, mine') /\ Numbered(kind, mine', Len(read') + 1)
  BY <1>1, PlainFacts, NewIs
<1>9. bound' \in Bounds /\ kind' \in bound'.kinds
  BY <1>1 DEF PlainInv
<1> QED BY <1>1, <1>3, <1>4, <1>5, <1>6, <1>7, <1>8, <1>9 DEF PlainInv

\* Another type.
LEMMA RenewKeeps ==
  ASSUME PlainInv, P!renew
  PROVE  PlainInv'
<1>1. /\ mine' = P!New /\ theirs' = P!New /\ result' = "none" /\ read' = << >>
      /\ kind' \in bound.kinds /\ bound' = bound
  BY DEF P!renew
<1>2. /\ Len(read') = 0 /\ read' \in Seq(Objects(kind')) /\ 1 .. 0 = {}
      /\ Len(read') <= bound'.reads
  BY <1>1, PlainFacts
<1>3. AllNumbered(kind', read')
  BY <1>2 DEF AllNumbered
<1>4. Typed(kind', bound', mine') /\ Numbered(kind', mine', Len(read') + 1)
  BY <1>1, PlainFacts, NewIs
<1>5. bound' \in Bounds
  BY <1>1, PlainFacts
<1> QED BY <1>1, <1>2, <1>3, <1>4, <1>5 DEF PlainInv

\* Every step keeps the invariant.
LEMMA PlainSteps ==
  ASSUME PlainInv, P!Next
  PROVE  PlainInv'
BY SetKeeps, SetBitKeeps, UnsetKeeps, AddExprKeeps, SetExprKeeps, HandOverKeeps,
   RenewKeeps DEF P!Next

-----------------------------------------------------------------------------
(* Stateful objects: the layout of their types                             *)

\* The number of bytes of a field, but for texts.
Wide(k, a) == IF S!Field(k, a) = "chars" THEN 0 ELSE S!Width[S!Field(k, a)]
\* Fields that do not share memory; a text is the last.
Precedes(k, a, b) ==
  S!Field(k, a) # "chars" /\ S!Offset(k, a) + Wide(k, a) <= S!Offset(k, b)
Apart(k, a, b) == Precedes(k, a, b) \/ Precedes(k, b, a)

\* Where the fields of a type are, and their bits.
Placed(k, a) ==
  /\ S!Field(k, a) \in DOMAIN S!Width \cup {"chars"}
  /\ S!Offset(k, a) \in Nat
  /\ S!Offset(k, a) + Wide(k, a) <= 68
  /\ S!Field(k, a) = "chars" => S!Offset(k, a) <= 3
  /\ a = "L4PROTO" => S!Field(k, a) = "u8"
Layout(k) ==
  /\ \A a \in S!Fields(k) : Placed(k, a)
  /\ \A a, b \in S!Fields(k) : a # b => Apart(k, a, b) \/ S!Alternative(k, a, b)
InOrder(k) ==
  /\ \A a \in S!Fields(k) :
       \E n \in 1 .. 16 : S!Bit(k, a) = 15 + n /\ n \in DOMAIN S!api[k] /\ S!api[k][n] = a
  /\ \A n \in DOMAIN S!api[k] : S!api[k][n] \in S!Fields(k)
  /\ S!api[k] \in Seq(S!Fields(k))

\* The types, and their fields: one lemma for each type.
LEMMA CounterLayout == Layout("counter") /\ InOrder("counter")
<1>1. Layout("counter")
  BY DEF Layout, Placed, Apart, Precedes, Wide, S!Fields, S!Offset, S!Field, S!Width,
         S!obj_ops, S!Ops, S!counter_set
<1>2. InOrder("counter")
  BY DEF InOrder, S!Fields, S!Bit, S!NFTNL_OBJ_BASE, S!api, S!obj_ops, S!Ops,
         S!counter_set
<1> QED BY <1>1, <1>2

\* The fields of a quota.
LEMMA QuotaLayout == Layout("quota") /\ InOrder("quota")
<1>1. Layout("quota")
  BY DEF Layout, Placed, Apart, Precedes, Wide, S!Fields, S!Offset, S!Field, S!Width,
         S!obj_ops, S!Ops, S!quota_set
<1>2. InOrder("quota")
  BY DEF InOrder, S!Fields, S!Bit, S!NFTNL_OBJ_BASE, S!api, S!obj_ops, S!Ops,
         S!quota_set
<1> QED BY <1>1, <1>2

\* The fields of a helper.
LEMMA CtHelperLayout == Layout("ct_helper") /\ InOrder("ct_helper")
<1>1. Layout("ct_helper")
  BY DEF Layout, Placed, Apart, Precedes, Wide, S!Fields, S!Offset, S!Field, S!Width,
         S!obj_ops, S!Ops, S!ct_helper_set
<1>2. InOrder("ct_helper")
  BY DEF InOrder, S!Fields, S!Bit, S!NFTNL_OBJ_BASE, S!api, S!obj_ops, S!Ops,
         S!ct_helper_set
<1> QED BY <1>1, <1>2

\* The fields of a limit.
LEMMA LimitLayout == Layout("limit") /\ InOrder("limit")
<1>1. Layout("limit")
  BY DEF Layout, Placed, Apart, Precedes, Wide, S!Fields, S!Offset, S!Field, S!Width,
         S!obj_ops, S!Ops, S!limit_set
<1>2. InOrder("limit")
  BY DEF InOrder, S!Fields, S!Bit, S!NFTNL_OBJ_BASE, S!api, S!obj_ops, S!Ops,
         S!limit_set
<1> QED BY <1>1, <1>2

\* The fields of a timeout.
LEMMA CtTimeoutLayout == Layout("ct_timeout") /\ InOrder("ct_timeout")
<1>1. Layout("ct_timeout")
  BY DEF Layout, Placed, Apart, Precedes, Wide, S!Fields, S!Offset, S!Field, S!Width,
         S!obj_ops, S!Ops, S!ct_timeout_set
<1>2. InOrder("ct_timeout")
  BY DEF InOrder, S!Fields, S!Bit, S!NFTNL_OBJ_BASE, S!api, S!obj_ops, S!Ops,
         S!ct_timeout_set
<1> QED BY <1>1, <1>2

\* The fields of a secmark.
LEMMA SecmarkLayout == Layout("secmark") /\ InOrder("secmark")
<1>1. Layout("secmark")
  BY DEF Layout, Placed, Apart, Precedes, Wide, S!Fields, S!Offset, S!Field, S!Width,
         S!obj_ops, S!Ops, S!secmark_set
<1>2. InOrder("secmark")
  BY DEF InOrder, S!Fields, S!Bit, S!NFTNL_OBJ_BASE, S!api, S!obj_ops, S!Ops,
         S!secmark_set
<1> QED BY <1>1, <1>2

\* The fields of an expectation.
LEMMA CtExpectLayout == Layout("ct_expect") /\ InOrder("ct_expect")
<1>1. Layout("ct_expect")
  BY DEF Layout, Placed, Apart, Precedes, Wide, S!Fields, S!Offset, S!Field, S!Width,
         S!obj_ops, S!Ops, S!ct_expect_set
<1>2. InOrder("ct_expect")
  BY DEF InOrder, S!Fields, S!Bit, S!NFTNL_OBJ_BASE, S!api, S!obj_ops, S!Ops,
         S!ct_expect_set
<1> QED BY <1>1, <1>2

\* The fields of a synproxy.
LEMMA SynproxyLayout == Layout("synproxy") /\ InOrder("synproxy")
<1>1. Layout("synproxy")
  BY DEF Layout, Placed, Apart, Precedes, Wide, S!Fields, S!Offset, S!Field, S!Width,
         S!obj_ops, S!Ops, S!synproxy_set
<1>2. InOrder("synproxy")
  BY DEF InOrder, S!Fields, S!Bit, S!NFTNL_OBJ_BASE, S!api, S!obj_ops, S!Ops,
         S!synproxy_set
<1> QED BY <1>1, <1>2

\* The fields of a tunnel.
LEMMA TunnelLayout == Layout("tunnel") /\ InOrder("tunnel")
<1>1. \A a \in S!Fields("tunnel") : Placed("tunnel", a)
  BY DEF Placed, Wide, S!Fields, S!Offset, S!Field, S!Width, S!obj_ops, S!Ops,
         S!tunnel_set
<1>2. \A a, b \in S!Fields("tunnel") :
        a # b => Apart("tunnel", a, b) \/ S!Alternative("tunnel", a, b)
  BY DEF Apart, Precedes, Wide, S!Fields, S!Offset, S!Field, S!Width, S!obj_ops,
         S!Ops, S!tunnel_set, S!Alternative
<1>3. \A a \in S!Fields("tunnel") :
        \E n \in 1 .. 16 : /\ S!Bit("tunnel", a) = 15 + n
                          /\ n \in DOMAIN S!api["tunnel"] /\ S!api["tunnel"][n] = a
  BY DEF S!Fields, S!Bit, S!NFTNL_OBJ_BASE, S!api, S!obj_ops, S!Ops, S!tunnel_set
<1>4. \A n \in DOMAIN S!api["tunnel"] : S!api["tunnel"][n] \in S!Fields("tunnel")
  BY DEF S!Fields, S!api, S!obj_ops, S!Ops, S!tunnel_set
<1>5. S!api["tunnel"] \in Seq(S!Fields("tunnel"))
  BY DEF S!Fields, S!api, S!obj_ops, S!Ops, S!tunnel_set
<1> QED BY <1>1, <1>2, <1>3, <1>4, <1>5 DEF Layout, InOrder

\* The types.
LEMMA TypesAre ==
  /\ S!Types = {"counter", "quota", "ct_helper", "limit", "tunnel", "ct_timeout",
                "secmark", "ct_expect", "synproxy"}
  /\ S!NoOps \notin S!Types
BY DEF S!Types, S!obj_ops, S!NoOps

\* So no two fields of a type overlap, but for the alternatives of a tunnel.
LEMMA FieldsApart == \A k \in S!Types : Layout(k) /\ InOrder(k)
BY TypesAre, CounterLayout, QuotaLayout, CtHelperLayout, LimitLayout, TunnelLayout,
   CtTimeoutLayout, SecmarkLayout, CtExpectLayout, SynproxyLayout

-----------------------------------------------------------------------------
(* Memory: what is read from a field, and what a store changes.            *)
Memory == [1 .. 68 -> Nat]

\* The bytes that a field has, or may have, in memory.
Span(k, a) == S!Offset(k, a) + 1 ..
                IF S!Field(k, a) = "chars" THEN 68 ELSE S!Offset(k, a) + Wide(k, a)
\* A value that can be kept in a field.
Fits(k, a, v) ==
  /\ v \in Seq(Nat)
  /\ IF S!Field(k, a) = "chars"
     THEN Len(v) <= 68 - S!Offset(k, a) /\ \A i \in 1 .. Len(v) : v[i] # 0
     ELSE Len(v) = Wide(k, a)

\* Widths are positive.
LEMMA WidthIs == \A f \in DOMAIN S!Width : S!Width[f] \in Nat \ {0}
BY DEF S!Width

\* A field lies in memory.
LEMMA FieldIs ==
  ASSUME NEW k \in S!Types, NEW a \in S!Fields(k)
  PROVE  /\ S!Offset(k, a) \in 0 .. 68 /\ Wide(k, a) \in Nat
         /\ S!Offset(k, a) + Wide(k, a) <= 68
         /\ S!Field(k, a) = "chars" => S!Offset(k, a) <= 3
         /\ S!Field(k, a) # "chars" => Wide(k, a) = S!Width[S!Field(k, a)] /\ Wide(k, a) > 0
         /\ a = "L4PROTO" => S!Field(k, a) = "u8"
         /\ S!Field(k, a) \in DOMAIN S!Width \cup {"chars"}
         /\ Span(k, a) \subseteq 1 .. 68
<1>1. Placed(k, a)
  BY FieldsApart DEF Layout
<1>2. Wide(k, a) \in Nat
  BY <1>1, WidthIs DEF Placed, Wide
<1> QED BY <1>1, <1>2, WidthIs DEF Placed, Wide, Span

\* A text ends before the first NUL.
LEMMA TextIs ==
  ASSUME NEW b \in Seq(Nat)
  PROVE  /\ S!Text(b) \in Seq(Nat) /\ Len(S!Text(b)) <= Len(b)
         /\ \A i \in 1 .. Len(S!Text(b)) : S!Text(b)[i] = b[i] /\ b[i] # 0
         /\ Len(S!Text(b)) < Len(b) => b[Len(S!Text(b)) + 1] = 0
<1> DEFINE ends == {i \in DOMAIN b : b[i] = 0}
<1>1. CASE ends = {}
  BY <1>1 DEF S!Text
<1>2. CASE ends # {}
  <2>0. ends \in SUBSET Nat
    OBVIOUS
  <2>1. PICK e \in ends : \A i \in ends : e <= i
    BY <1>2, <2>0, LeastOf
  <2>2. S!Min(ends) = e
    BY <2>1 DEF S!Min
  <2>3. S!Text(b) = SubSeq(b, 1, e - 1)
    BY <1>2, <2>2 DEF S!Text
  <2>4. e \in 1 .. Len(b) /\ b[e] = 0 /\ \A i \in 1 .. e - 1 : b[i] # 0
    BY <2>1
  <2>5. 1 \in 1 .. Len(b) + 1 /\ e - 1 \in 1 - 1 .. Len(b)
    BY <2>4
  <2>6. /\ SubSeq(b, 1, e - 1) \in Seq(Nat) /\ Len(SubSeq(b, 1, e - 1)) = e - 1 - 1 + 1
        /\ \A j \in 1 .. e - 1 - 1 + 1 : SubSeq(b, 1, e - 1)[j] = b[1 + j - 1]
    BY <2>5, Part
  <2> HIDE DEF ends
  <2> QED BY <2>3, <2>4, <2>6
<1> QED BY <1>1, <1>2

\* And is the only sequence that does.
LEMMA TextOf ==
  ASSUME NEW b \in Seq(Nat), NEW t \in Seq(Nat), Len(t) <= Len(b),
         \A i \in 1 .. Len(t) : t[i] = b[i] /\ b[i] # 0,
         Len(t) < Len(b) => b[Len(t) + 1] = 0
  PROVE  S!Text(b) = t
<1> DEFINE u == S!Text(b)
<1>1. /\ u \in Seq(Nat) /\ Len(u) <= Len(b)
      /\ \A i \in 1 .. Len(u) : u[i] = b[i] /\ b[i] # 0
      /\ Len(u) < Len(b) => b[Len(u) + 1] = 0
  BY TextIs
<1> HIDE DEF u
<1>2. Len(u) = Len(t)
  BY <1>1
<1>3. \A i \in 1 .. Len(u) : u[i] = t[i]
  BY <1>1, <1>2
<1>4. u = t
  BY <1>1, <1>2, <1>3, SeqEqual
<1> QED BY <1>4 DEF u

\* Memory as a sequence.
LEMMA MemoryIs == \A mem \in Memory : mem \in Seq(Nat) /\ Len(mem) = 68
<1> TAKE mem \in Memory
<1>1. 68 \in Nat
  OBVIOUS
<1>2. mem \in Seq(Nat)
  BY <1>1, SeqDef DEF Memory
<1>3. DOMAIN mem = 1 .. 68
  BY DEF Memory
<1> QED BY <1>2, <1>3, LenProperties

\* The end of a sequence.
LEMMA TailIs ==
  ASSUME NEW s \in Seq(Nat), NEW at \in 0 .. Len(s)
  PROVE  LET t == SubSeq(s, at + 1, Len(s))
         IN  /\ t \in Seq(Nat) /\ Len(t) = Len(s) - at
             /\ \A i \in 1 .. Len(s) - at : t[i] = s[at + i]
<1> DEFINE from == at + 1
           t == SubSeq(s, from, Len(s))
<1>1. from \in 1 .. Len(s) + 1 /\ Len(s) \in from - 1 .. Len(s)
  OBVIOUS
<1> HIDE DEF from
<1>2. /\ t \in Seq(Nat) /\ Len(t) = Len(s) - from + 1
      /\ \A j \in 1 .. Len(s) - from + 1 : t[j] = s[from + j - 1]
  BY <1>1, Part
<1> HIDE DEF t
<1>3. Len(s) - from + 1 = Len(s) - at /\ \A j \in 1 .. Len(s) - at : from + j - 1 = at + j
  BY DEF from
<1>4. Len(t) = Len(s) - at /\ \A i \in 1 .. Len(s) - at : t[i] = s[at + i]
  BY <1>2, <1>3
<1> QED BY <1>2, <1>4 DEF t, from

\* What lies behind an offset.
LEMMA BehindIs ==
  ASSUME NEW mem \in Memory, NEW at \in 0 .. 68
  PROVE  LET behind == SubSeq(mem, at + 1, Len(mem))
         IN  /\ behind \in Seq(Nat) /\ Len(behind) = 68 - at
             /\ \A i \in 1 .. 68 - at : behind[i] = mem[at + i]
<1>1. mem \in Seq(Nat) /\ Len(mem) = 68
  BY MemoryIs
<1>2. at \in 0 .. Len(mem)
  BY <1>1
<1>3. LET t == SubSeq(mem, at + 1, Len(mem))
      IN  /\ t \in Seq(Nat) /\ Len(t) = Len(mem) - at
          /\ \A i \in 1 .. Len(mem) - at : t[i] = mem[at + i]
  BY <1>1, <1>2, TailIs
<1> QED BY <1>1, <1>3

\* What is read from a field of fixed size.
LEMMA ReadFixed ==
  ASSUME NEW mem \in Memory, NEW k \in S!Types, NEW a \in S!Fields(k),
         S!Field(k, a) # "chars"
  PROVE  /\ S!Read(mem, k, a) \in Seq(Nat) /\ Len(S!Read(mem, k, a)) = Wide(k, a)
         /\ \A i \in 1 .. Wide(k, a) : S!Read(mem, k, a)[i] = mem[S!Offset(k, a) + i]
<1> DEFINE at == S!Offset(k, a)
           w == Wide(k, a)
           behind == SubSeq(mem, at + 1, Len(mem))
<1>1. at \in 0 .. 68 /\ w \in Nat /\ w > 0 /\ at + w <= 68 /\ w = S!Width[S!Field(k, a)]
  BY FieldIs
<1>2. /\ behind \in Seq(Nat) /\ Len(behind) = 68 - at
      /\ \A i \in 1 .. 68 - at : behind[i] = mem[at + i]
  BY <1>1, BehindIs
<1>3. S!Read(mem, k, a) = SubSeq(behind, 1, w)
  BY <1>1 DEF S!Read
<1> HIDE DEF at, w, behind
<1>4. 1 \in 1 .. Len(behind) + 1 /\ w \in 1 - 1 .. Len(behind)
  BY <1>1, <1>2
<1>5. /\ SubSeq(behind, 1, w) \in Seq(Nat) /\ Len(SubSeq(behind, 1, w)) = w - 1 + 1
      /\ \A j \in 1 .. w - 1 + 1 : SubSeq(behind, 1, w)[j] = behind[1 + j - 1]
  BY <1>2, <1>4, Part
<1>6. \A j \in 1 .. w : SubSeq(behind, 1, w)[j] = mem[at + j]
  BY <1>1, <1>2, <1>5
<1> QED BY <1>1, <1>3, <1>5, <1>6 DEF at, w

\* What is read from a text.
LEMMA ReadText ==
  ASSUME NEW mem \in Memory, NEW k \in S!Types, NEW a \in S!Fields(k),
         S!Field(k, a) = "chars"
  PROVE  /\ S!Read(mem, k, a) \in Seq(Nat)
         /\ Len(S!Read(mem, k, a)) <= 68 - S!Offset(k, a)
         /\ \A i \in 1 .. Len(S!Read(mem, k, a)) :
              /\ S!Read(mem, k, a)[i] = mem[S!Offset(k, a) + i]
              /\ S!Read(mem, k, a)[i] # 0
         /\ Len(S!Read(mem, k, a)) < 68 - S!Offset(k, a) =>
              mem[S!Offset(k, a) + Len(S!Read(mem, k, a)) + 1] = 0
<1> DEFINE at == S!Offset(k, a)
           behind == SubSeq(mem, at + 1, Len(mem))
<1>1. at \in 0 .. 68
  BY FieldIs
<1>2. /\ behind \in Seq(Nat) /\ Len(behind) = 68 - at
      /\ \A i \in 1 .. 68 - at : behind[i] = mem[at + i]
  BY <1>1, BehindIs
<1>3. S!Read(mem, k, a) = S!Text(behind)
  BY DEF S!Read
<1> DEFINE t == S!Text(behind)
<1> HIDE DEF at, behind
<1>4. /\ t \in Seq(Nat) /\ Len(t) <= Len(behind)
      /\ \A i \in 1 .. Len(t) : t[i] = behind[i] /\ behind[i] # 0
      /\ Len(t) < Len(behind) => behind[Len(t) + 1] = 0
  BY <1>2, TextIs
<1> HIDE DEF t
<1>5. \A i \in 1 .. Len(t) : t[i] = mem[at + i] /\ t[i] # 0
  <2> TAKE i \in 1 .. Len(t)
  <2>1. i \in 1 .. Len(behind) /\ i \in 1 .. 68 - at
    BY <1>1, <1>2, <1>4
  <2> QED BY <1>2, <1>4, <2>1
<1>6. Len(t) < 68 - at => mem[at + Len(t) + 1] = 0
  <2> HAVE Len(t) < 68 - at
  <2>1. Len(t) + 1 \in 1 .. 68 - at /\ at + (Len(t) + 1) = at + Len(t) + 1
    BY <1>1, <1>4
  <2> QED BY <1>2, <1>4, <2>1
<1>7. t \in Seq(Nat) /\ Len(t) <= 68 - at
  BY <1>2, <1>4
<1>8. \A i \in 1 .. Len(t) : t[i] = mem[S!Offset(k, a) + i] /\ t[i] # 0
  BY <1>5 DEF at
<1>9. Len(t) < 68 - S!Offset(k, a) => mem[S!Offset(k, a) + Len(t) + 1] = 0
  BY <1>6 DEF at
<1>10. Len(t) <= 68 - S!Offset(k, a)
  BY <1>7 DEF at
<1> QED BY <1>3, <1>7, <1>8, <1>9, <1>10 DEF t

\* The converse: what the bytes of a field are is what is read.
LEMMA ReadIs ==
  ASSUME NEW mem \in Memory, NEW k \in S!Types, NEW a \in S!Fields(k),
         NEW v, Fits(k, a, v),
         \A i \in 1 .. Len(v) : mem[S!Offset(k, a) + i] = v[i],
         S!Field(k, a) = "chars" /\ Len(v) < 68 - S!Offset(k, a) =>
           mem[S!Offset(k, a) + Len(v) + 1] = 0
  PROVE  S!Read(mem, k, a) = v
<1> DEFINE at == S!Offset(k, a)
           behind == SubSeq(mem, at + 1, Len(mem))
           w == S!Read(mem, k, a)
<1>1. at \in 0 .. 68 /\ Wide(k, a) \in Nat
  BY FieldIs
<1>2. v \in Seq(Nat)
  BY DEF Fits
<1>5. \A i \in 1 .. Len(v) : mem[at + i] = v[i]
  OBVIOUS
<1>6. S!Field(k, a) = "chars" /\ Len(v) < 68 - at => mem[at + Len(v) + 1] = 0
  OBVIOUS
<1>3. CASE S!Field(k, a) = "chars"
  <2>1. /\ behind \in Seq(Nat) /\ Len(behind) = 68 - at
        /\ \A i \in 1 .. 68 - at : behind[i] = mem[at + i]
    BY <1>1, BehindIs
  <2>2. w = S!Text(behind)
    BY <1>3 DEF S!Read
  <2>3. Len(v) <= 68 - at /\ \A i \in 1 .. Len(v) : v[i] # 0
    BY <1>3 DEF Fits
  <2> HIDE DEF behind, at, w
  <2>4. \A i \in 1 .. Len(v) : v[i] = behind[i] /\ behind[i] # 0
    BY <1>1, <1>2, <1>5, <2>1, <2>3
  <2>5. Len(v) < Len(behind) => behind[Len(v) + 1] = 0
    <3> HAVE Len(v) < Len(behind)
    <3>1. Len(v) + 1 \in 1 .. 68 - at /\ at + (Len(v) + 1) = at + Len(v) + 1
      BY <1>1, <1>2, <2>1
    <3> QED BY <1>3, <1>6, <2>1, <3>1
  <2>6. S!Text(behind) = v
    BY <1>2, <2>1, <2>3, <2>4, <2>5, TextOf
  <2> QED BY <2>2, <2>6 DEF w
<1>4. CASE S!Field(k, a) # "chars"
  <2>1. /\ w \in Seq(Nat) /\ Len(w) = Wide(k, a)
        /\ \A i \in 1 .. Wide(k, a) : w[i] = mem[at + i]
    BY <1>4, ReadFixed
  <2>2. Len(v) = Wide(k, a)
    BY <1>4 DEF Fits
  <2> HIDE DEF w, at
  <2>3. w = v
    BY <1>2, <1>5, <2>1, <2>2, SeqEqual
  <2> QED BY <2>3 DEF w
<1> QED BY <1>3, <1>4

\* What is read can be kept.
LEMMA ReadFits ==
  ASSUME NEW mem \in Memory, NEW k \in S!Types, NEW a \in S!Fields(k)
  PROVE  Fits(k, a, S!Read(mem, k, a))
BY ReadFixed, ReadText DEF Fits

\* Fields whose bytes are the same read the same.
LEMMA ReadSame ==
  ASSUME NEW mem \in Memory, NEW old \in Memory, NEW k \in S!Types,
         NEW a \in S!Fields(k), \A j \in Span(k, a) : mem[j] = old[j]
  PROVE  S!Read(mem, k, a) = S!Read(old, k, a)
<1> DEFINE v == S!Read(old, k, a)
           at == S!Offset(k, a)
<1>1. Fits(k, a, v)
  BY ReadFits
<1>2. at \in Nat /\ Wide(k, a) \in Nat
  BY FieldIs
<1>3. CASE S!Field(k, a) = "chars"
  <2>1. /\ v \in Seq(Nat) /\ Len(v) <= 68 - at
        /\ \A i \in 1 .. Len(v) : v[i] = old[at + i]
        /\ Len(v) < 68 - at => old[at + Len(v) + 1] = 0
    BY <1>3, ReadText
  <2> HIDE DEF v
  <2>2. \A i \in 1 .. Len(v) : mem[at + i] = v[i]
    <3> TAKE i \in 1 .. Len(v)
    <3>1. at + i \in Span(k, a)
      BY <1>2, <1>3, <2>1 DEF Span
    <3> QED BY <2>1, <3>1
  <2>3. Len(v) < 68 - at => mem[at + Len(v) + 1] = 0
    BY <1>2, <1>3, <2>1 DEF Span
  <2> QED BY <1>1, <2>2, <2>3, ReadIs DEF v
<1>4. CASE S!Field(k, a) # "chars"
  <2>1. /\ v \in Seq(Nat) /\ Len(v) = Wide(k, a)
        /\ \A i \in 1 .. Wide(k, a) : v[i] = old[at + i]
    BY <1>4, ReadFixed
  <2> HIDE DEF v
  <2>2. \A i \in 1 .. Len(v) : mem[at + i] = v[i]
    BY <1>2, <1>4, <2>1 DEF Span
  <2> QED BY <1>1, <1>4, <2>2, ReadIs DEF v
<1> QED BY <1>3, <1>4

\* What a write does.
LEMMA WriteIs ==
  ASSUME NEW mem \in Memory, NEW at \in Nat, NEW v \in Seq(Nat)
  PROVE  /\ S!Write(mem, at, v) \in Memory
         /\ \A j \in 1 .. 68 : S!Write(mem, at, v)[j] =
                                IF j - at \in 1 .. Len(v) THEN v[j - at] ELSE mem[j]
<1>1. DOMAIN mem = 1 .. 68 /\ \A j \in 1 .. 68 : mem[j] \in Nat
  BY DEF Memory
<1>2. DOMAIN v = 1 .. Len(v) /\ \A i \in 1 .. Len(v) : v[i] \in Nat
  OBVIOUS
<1>3. S!Write(mem, at, v) =
        [j \in 1 .. 68 |-> IF j - at \in 1 .. Len(v) THEN v[j - at] ELSE mem[j]]
  BY <1>1, <1>2 DEF S!Write
<1> QED BY <1>1, <1>2, <1>3 DEF Memory

\* What is stored reads back, and no byte outside the field changes.
LEMMA StoreIs ==
  ASSUME NEW mem \in Memory, NEW k \in S!Types, NEW a \in S!Fields(k),
         NEW v, Fits(k, a, v)
  PROVE  /\ S!Store(mem, k, a, v) \in Memory
         /\ S!Read(S!Store(mem, k, a, v), k, a) = v
         /\ \A j \in 1 .. 68 \ Span(k, a) : S!Store(mem, k, a, v)[j] = mem[j]
         /\ S!Field(k, a) # "chars" =>
              \A i \in 1 .. Wide(k, a) :
                S!Store(mem, k, a, v)[S!Offset(k, a) + i] = v[i]
<1> DEFINE at == S!Offset(k, a)
           w == Wide(k, a)
           bytes == IF S!Field(k, a) = "chars" THEN Append(v, 0) ELSE v
           new == S!Store(mem, k, a, v)
<1>1. /\ at \in 0 .. 68 /\ at \in Nat /\ w \in Nat /\ at + w <= 68
      /\ Span(k, a) = at + 1 .. IF S!Field(k, a) = "chars" THEN 68 ELSE at + w
  BY FieldIs DEF Span
<1>2. /\ v \in Seq(Nat) /\ Len(v) \in Nat
      /\ S!Field(k, a) = "chars" => Len(v) <= 68 - at
      /\ S!Field(k, a) # "chars" => Len(v) = w
  BY DEF Fits
<1>3. /\ bytes \in Seq(Nat) /\ \A i \in 1 .. Len(v) : bytes[i] = v[i]
      /\ S!Field(k, a) = "chars" => Len(bytes) = Len(v) + 1 /\ bytes[Len(v) + 1] = 0
      /\ S!Field(k, a) # "chars" => Len(bytes) = Len(v)
  BY <1>2
<1>4. new = S!Write(mem, at, bytes)
  BY DEF S!Store
<1> HIDE DEF bytes, new, at, w
<1>11. at \in Nat /\ bytes \in Seq(Nat)
  BY <1>1, <1>3
<1>5. /\ new \in Memory
      /\ \A j \in 1 .. 68 :
           new[j] = IF j - at \in 1 .. Len(bytes) THEN bytes[j - at] ELSE mem[j]
  BY <1>4, <1>11, WriteIs
<1>6. \A i \in 1 .. Len(v) : new[at + i] = v[i]
  <2> TAKE i \in 1 .. Len(v)
  <2>1. Len(v) <= 68 - at /\ Len(v) <= Len(bytes) /\ Len(bytes) \in Nat
    BY <1>1, <1>2, <1>3
  <2>2. at + i \in 1 .. 68 /\ (at + i) - at = i /\ i \in 1 .. Len(bytes)
    BY <1>1, <1>2, <2>1
  <2> QED BY <1>3, <1>5, <2>2
<1>7. S!Field(k, a) = "chars" /\ Len(v) < 68 - at => new[at + Len(v) + 1] = 0
  <2> HAVE S!Field(k, a) = "chars" /\ Len(v) < 68 - at
  <2>1. at \in Nat /\ Len(v) \in Nat /\ Len(v) < 68 - at
    BY <1>2, <1>11
  <2> DEFINE n == Len(v)
  <2>5. n \in Nat /\ n < 68 - at
    BY <2>1
  <2> HIDE DEF n
  <2>6. PICK j \in 1 .. 68 : j = at + n + 1
    BY <2>1, <2>5
  <2>2. j = at + Len(v) + 1
    BY <2>6 DEF n
  <2>3. j - at = Len(v) + 1 /\ j - at \in 1 .. Len(bytes)
    BY <1>3, <2>1, <2>2
  <2>4. new[j] = 0
    BY <1>3, <1>5, <2>3
  <2> QED BY <2>2, <2>4
<1>8. S!Read(new, k, a) = v
  <2>1. \A i \in 1 .. Len(v) : new[S!Offset(k, a) + i] = v[i]
    BY <1>6 DEF at
  <2>2. S!Field(k, a) = "chars" /\ Len(v) < 68 - S!Offset(k, a) =>
          new[S!Offset(k, a) + Len(v) + 1] = 0
    BY <1>7 DEF at
  <2> QED BY <1>5, <2>1, <2>2, ReadIs
<1>9. \A j \in 1 .. 68 \ Span(k, a) : new[j] = mem[j]
  <2> TAKE j \in 1 .. 68 \ Span(k, a)
  <2>1. j - at \notin 1 .. Len(bytes)
    BY <1>1, <1>2, <1>3
  <2> QED BY <1>5, <2>1
<1>10. S!Field(k, a) # "chars" =>
         \A i \in 1 .. Wide(k, a) : new[S!Offset(k, a) + i] = v[i]
  BY <1>2, <1>6 DEF at, w
<1> QED BY <1>5, <1>8, <1>9, <1>10 DEF new

\* A store does not touch the fields that are apart.
LEMMA ApartIs ==
  ASSUME NEW k \in S!Types, NEW a \in S!Fields(k), NEW b \in S!Fields(k),
         Apart(k, a, b)
  PROVE  Span(k, b) \subseteq 1 .. 68 \ Span(k, a)
<1>1. /\ S!Offset(k, a) \in Nat /\ Wide(k, a) \in Nat
      /\ S!Offset(k, b) \in Nat /\ Wide(k, b) \in Nat /\ Span(k, b) \subseteq 1 .. 68
  BY FieldIs
<1>2. CASE Precedes(k, a, b)
  BY <1>1, <1>2 DEF Precedes, Span
<1>3. CASE Precedes(k, b, a)
  BY <1>1, <1>3 DEF Precedes, Span
<1> QED BY <1>2, <1>3 DEF Apart

\* So the fields apart from it read as before.
LEMMA StoreApart ==
  ASSUME NEW mem \in Memory, NEW k \in S!Types, NEW a \in S!Fields(k),
         NEW b \in S!Fields(k), Apart(k, a, b), NEW v, Fits(k, a, v)
  PROVE  S!Read(S!Store(mem, k, a, v), k, b) = S!Read(mem, k, b)
<1>1. \A j \in Span(k, b) : S!Store(mem, k, a, v)[j] = mem[j]
  BY StoreIs, ApartIs
<1>2. S!Store(mem, k, a, v) \in Memory
  BY StoreIs
<1> QED BY <1>1, <1>2, ReadSame

\* The numbers of a bit.
LEMMA BitIs ==
  ASSUME NEW k \in S!Types, NEW a \in S!Fields(k)
  PROVE  S!Bit(k, a) \in S!Bits /\ S!Bit(k, a) - 16 + 1 \in Nat
<1>1. PICK n \in 1 .. 16 : S!Bit(k, a) = 15 + n
  BY FieldsApart DEF InOrder
<1> QED BY <1>1 DEF S!Bits, S!NFTNL_OBJ_BASE

\* Attributes have bits of their own.
LEMMA BitsDiffer ==
  ASSUME NEW k \in S!Types, NEW a \in S!Fields(k), NEW b \in S!Fields(k),
         S!Bit(k, a) = S!Bit(k, b)
  PROVE  a = b
<1>1. PICK n \in 1 .. 16 : S!Bit(k, a) = 15 + n /\ S!api[k][n] = a
  BY FieldsApart DEF InOrder
<1>2. PICK m \in 1 .. 16 : S!Bit(k, b) = 15 + m /\ S!api[k][m] = b
  BY FieldsApart DEF InOrder
<1>3. n = m
  <2>1. 15 + n = 15 + m
    BY <1>1, <1>2
  <2> QED BY <2>1
<1> QED BY <1>1, <1>2, <1>3

\* The values of the program can be kept.
LEMMA ValuesFit ==
  ASSUME NEW k \in S!Types, NEW a \in S!Fields(k), NEW v \in S!Values(k, a)
  PROVE  Fits(k, a, v)
<1>1. /\ S!Offset(k, a) \in Nat /\ Wide(k, a) \in Nat
      /\ S!Field(k, a) = "chars" => S!Offset(k, a) <= 3
      /\ S!Field(k, a) # "chars" => Wide(k, a) = S!Width[S!Field(k, a)]
      /\ a = "L4PROTO" => S!Field(k, a) = "u8"
  BY FieldIs
<1>2. CASE S!Field(k, a) = "chars"
  <2>1. v \in {<< >>, << 7, 7, 7 >>, << 7, 7, 7, 7 >>}
    BY <1>1, <1>2 DEF S!Values
  <2>2. v \in Seq(Nat) /\ Len(v) <= 4 /\ \A i \in 1 .. Len(v) : v[i] # 0
    <3>1. CASE v = << >>
      BY <3>1
    <3>2. CASE v = << 7, 7, 7 >>
      BY <3>2
    <3>3. CASE v = << 7, 7, 7, 7 >>
      BY <3>3
    <3> QED BY <2>1, <3>1, <3>2, <3>3
  <2> QED BY <1>1, <1>2, <2>2 DEF Fits
<1>3. CASE S!Field(k, a) # "chars" /\ a = "L4PROTO"
  <2>1. v \in {<< 6 >>, << 17 >>}
    BY <1>1, <1>3 DEF S!Values
  <2>2. Wide(k, a) = 1
    BY <1>1, <1>3 DEF S!Width
  <2>3. v \in Seq(Nat) /\ Len(v) = 1
    <3>1. CASE v = << 6 >>
      BY <3>1
    <3>2. CASE v = << 17 >>
      BY <3>2
    <3> QED BY <2>1, <3>1, <3>2
  <2> QED BY <1>3, <2>2, <2>3 DEF Fits
<1>4. CASE S!Field(k, a) = "array" /\ a # "L4PROTO"
  <2>1. v = [i \in 1 .. 44 |-> i]
    BY <1>4 DEF S!Values
  <2>2. v \in Seq(Nat) /\ Len(v) = 44
    BY <2>1
  <2>3. Wide(k, a) = 44
    BY <1>1, <1>4 DEF S!Width
  <2> QED BY <1>4, <2>2, <2>3 DEF Fits
<1>5. CASE S!Field(k, a) \notin {"chars", "array"} /\ a # "L4PROTO"
  <2>1. v = [i \in 1 .. Wide(k, a) |-> 15 * (S!Bit(k, a) - S!NFTNL_OBJ_BASE + 1) + i]
    BY <1>1, <1>5 DEF S!Values
  <2>2. S!Bit(k, a) - S!NFTNL_OBJ_BASE + 1 \in Nat
    BY BitIs DEF S!NFTNL_OBJ_BASE
  <2>3. v \in Seq(Nat) /\ Len(v) = Wide(k, a)
    BY <1>1, <2>1, <2>2
  <2> QED BY <1>5, <2>3 DEF Fits
<1> QED BY <1>2, <1>3, <1>4, <1>5

-----------------------------------------------------------------------------
(* What a parser makes of memory, attribute after attribute.               *)
\* The last number of a beginning of the numbers.
LEMMA MaxIs ==
  ASSUME NEW n \in Nat, NEW s \in SUBSET (1 .. n), n \in s
  PROVE  S!Max(s) = n
<1>1. \A y \in s : n >= y
  OBVIOUS
<1>2. S!Max(s) \in s /\ \A y \in s : S!Max(s) >= y
  BY <1>1 DEF S!Max
<1>3. PICK x \in 1 .. n : x = S!Max(s) /\ x >= n
  BY <1>2
<1> QED BY <1>3

\* The recursion that FoldLeft stands for, up to n.
FillRec(x, m, follows, n, g) ==
  g = [s \in SUBSET (1 .. n) |->
         IF s = {} THEN x.mem
         ELSE S!Fill(x, m, follows, g[s \ {S!Max(s)}], S!api[x.ops][S!Max(s)])]

\* There is such a function.
LEMMA FillRecIs ==
  ASSUME NEW x, NEW m, NEW follows, NEW n \in Nat
  PROVE  \E g : FillRec(x, m, follows, n, g)
<1> DEFINE T == {i \in Nat : \E g : FillRec(x, m, follows, i, g)}
<1>1. 0 \in T
  <2> DEFINE g == [s \in SUBSET (1 .. 0) |-> x.mem]
  <2>1. \A s \in SUBSET (1 .. 0) : s = {}
    OBVIOUS
  <2>2. FillRec(x, m, follows, 0, g)
    BY <2>1 DEF FillRec
  <2> QED BY <2>2
<1>2. ASSUME NEW i \in Nat, i \in T PROVE i + 1 \in T
  <2>1. PICK g : FillRec(x, m, follows, i, g)
    BY <1>2
  <2> DEFINE step(h, s) ==
               S!Fill(x, m, follows, h[s \ {S!Max(s)}], S!api[x.ops][S!Max(s)])
             h == [s \in SUBSET (1 .. i + 1) |-> IF s = {} THEN x.mem ELSE step(g, s)]
  <2>2. \A s \in SUBSET (1 .. i) : s \in SUBSET (1 .. i + 1) /\ h[s] = g[s]
    <3> TAKE s \in SUBSET (1 .. i)
    <3>1. s \in SUBSET (1 .. i + 1)
      OBVIOUS
    <3>2. g[s] = IF s = {} THEN x.mem ELSE step(g, s)
      BY <2>1 DEF FillRec
    <3> QED BY <3>1, <3>2
  <2>3. \A s \in SUBSET (1 .. i + 1) : s \ {S!Max(s)} \in SUBSET (1 .. i)
    <3> TAKE s \in SUBSET (1 .. i + 1)
    <3>1. CASE i + 1 \in s
      <4>1. S!Max(s) = i + 1
        BY <3>1, MaxIs
      <4> QED BY <4>1
    <3>2. CASE i + 1 \notin s
      <4>1. \A y \in s : y \in 1 .. i + 1 /\ y # i + 1
        BY <3>2
      <4>2. \A y \in s : y \in 1 .. i
        BY <4>1
      <4> QED BY <4>2
    <3> QED BY <3>1, <3>2
  <2>4. \A s \in SUBSET (1 .. i + 1) : h[s \ {S!Max(s)}] = g[s \ {S!Max(s)}]
    BY <2>2, <2>3
  <2> DEFINE r == [s \in SUBSET (1 .. i + 1) |-> IF s = {} THEN x.mem ELSE step(h, s)]
  <2>5. h = r
    BY <2>4
  <2>6. FillRec(x, m, follows, i + 1, h)
    BY <2>5 DEF FillRec
  <2> QED BY <2>6
<1> HIDE DEF T
<1>3. n \in T
  BY <1>1, <1>2, SetInduction
<1> QED BY <1>3 DEF T

\* What memory is after each attribute of the type, in their order.
FillSteps(x, m, follows, f) ==
  /\ f[0] = x.mem
  /\ \A n \in 1 .. Len(S!api[x.ops]) :
       f[n] = S!Fill(x, m, follows, f[n - 1], S!api[x.ops][n])
  /\ S!Filled(x, m, follows) = f[Len(S!api[x.ops])]

\* So memory is filled step by step.
LEMMA FilledIs ==
  ASSUME NEW x, NEW m, NEW follows, NEW A, S!api[x.ops] \in Seq(A)
  PROVE  \E f : FillSteps(x, m, follows, f)
<1> DEFINE N == Len(S!api[x.ops])
           iter == CHOOSE g : FillRec(x, m, follows, N, g)
           f == [n \in 0 .. N |-> iter[1 .. n]]
<1>1. N \in Nat /\ DOMAIN S!api[x.ops] = 1 .. N
  OBVIOUS
<1>2. S!Filled(x, m, follows) = iter[1 .. N]
  BY <1>1 DEF S!Filled, S!FoldLeft, S!MapThenFoldSet, FillRec
<1>3. FillRec(x, m, follows, N, iter)
  BY <1>1, FillRecIs
<1> HIDE DEF N, iter
<1>4. \A s \in SUBSET (1 .. N) :
        iter[s] = IF s = {} THEN x.mem
                  ELSE S!Fill(x, m, follows, iter[s \ {S!Max(s)}], S!api[x.ops][S!Max(s)])
  BY <1>3 DEF FillRec
<1>5. f[0] = x.mem
  <2>1. 1 .. 0 = {} /\ 0 \in 0 .. N
    BY <1>1
  <2> QED BY <1>4, <2>1
<1>6. ASSUME NEW n \in 1 .. N
      PROVE  f[n] = S!Fill(x, m, follows, f[n - 1], S!api[x.ops][n])
  <2>1. n \in Nat /\ 1 .. n \in SUBSET (1 .. n) /\ n \in 1 .. n
    BY <1>1
  <2>2. S!Max(1 .. n) = n
    BY <2>1, MaxIs
  <2>3. 1 .. n \in SUBSET (1 .. N) /\ 1 .. n # {} /\ (1 .. n) \ {n} = 1 .. n - 1
    <3>1. \A j \in 1 .. n : j \in 1 .. N
      BY <1>1
    <3>2. \A j : j \in (1 .. n) \ {n} <=> j \in 1 .. n - 1
      BY <2>1
    <3> QED BY <2>1, <3>1, <3>2
  <2>4. n \in 0 .. N /\ n - 1 \in 0 .. N
    BY <1>1
  <2> QED BY <1>4, <2>2, <2>3, <2>4
<1>7. N \in 0 .. N
  BY <1>1
<1>8. FillSteps(x, m, follows, f)
  BY <1>2, <1>5, <1>6, <1>7 DEF FillSteps, N
<1> QED BY <1>8

-----------------------------------------------------------------------------
(* The inductive invariant of stateful objects.                            *)
WellObj(x) ==
  /\ x = [flags |-> x.flags, ops |-> x.ops, mem |-> x.mem, head |-> x.head]
  /\ x.flags \subseteq 0 .. 6 \cup S!Bits
  /\ x.ops \in S!Types \cup {S!NoOps}
  /\ x.ops # S!NoOps => S!TYPE \in x.flags
  /\ x.mem \in Memory
  /\ DOMAIN x.head = S!Common
  /\ \A a \in S!Common : x.head[a] \in S!CommonValues(a) \cup {<< >>}
  /\ \A a \in S!Common :
       S!Bit("obj", a) \in x.flags => x.head[a] \in S!CommonValues(a)
SaidOK(x, s) ==
  s.type # S!NoOps =>
    /\ s.type \in S!Types /\ s.attrs \subseteq S!Fields(s.type)
    /\ \A a \in s.attrs :
         /\ S!Bit(s.type, a) \in x.flags
         /\ S!Read(x.mem, s.type, a) \in S!Values(s.type, a)
MsgOK(x, m) ==
  \/ m \in {S!None, S!Crash}
  \/ m = [in |-> "message", attrs |-> S!Build(x)] /\ ~S!Dangles(x)
Untold == [result |-> "none", obj |-> S!New, knows |-> {}]
Told(x, g) ==
  \E follows \in {<< >>, << 9 >>}, knows \in {S!Types, {}} :
    g = S!Parse(S!Build(x), knows, follows)
GotOK(x, m, g) ==
  g = Untold \/ (m \notin {S!None, S!Crash} /\ Told(x, g))

StatefulInv ==
  /\ program \in Programs
  /\ WellObj(obj)
  /\ SaidOK(obj, said)
  /\ MsgOK(obj, msg)
  /\ GotOK(obj, msg, got)

\* The attributes of all types and their bits.
LEMMA HeadIs ==
  /\ S!Common = {"TABLE", "NAME", "FAMILY", "USE", "HANDLE", "USERDATA"}
  /\ S!TYPE = 2
  /\ \A a \in S!Common : S!Bit("obj", a) \in 0 .. 6 /\ S!Bit("obj", a) # 2
  /\ \A a, b \in S!Common : S!Bit("obj", a) = S!Bit("obj", b) => a = b
<1>1. S!Common = {"TABLE", "NAME", "FAMILY", "USE", "HANDLE", "USERDATA"}
  BY DEF S!Common, S!obj_set
<1>2. /\ S!Bit("obj", "TABLE") = 0 /\ S!Bit("obj", "NAME") = 1
      /\ S!Bit("obj", "TYPE") = 2 /\ S!Bit("obj", "FAMILY") = 3
      /\ S!Bit("obj", "USE") = 4 /\ S!Bit("obj", "HANDLE") = 5
      /\ S!Bit("obj", "USERDATA") = 6
  BY DEF S!Bit, S!api
<1> QED BY <1>1, <1>2 DEF S!TYPE

\* A program acts only if there is no message.
LEMMA NothingSent ==
  ASSUME StatefulInv, msg = S!None
  PROVE  got = Untold
BY DEF StatefulInv, GotOK

\* A new object is well formed.
LEMMA NewObject == WellObj(S!New)
<1>1. S!Zeros(S!MemSize) \in Memory
  BY DEF S!Zeros, S!MemSize, Memory
<1> QED BY <1>1 DEF WellObj, S!New

\* The invariant holds at the start, and every step keeps it.
LEMMA StatefulBegins == S!Init => StatefulInv
<1> SUFFICES ASSUME S!Init PROVE StatefulInv
  OBVIOUS
<1>1. WellObj(obj)
  BY NewObject DEF S!Init
<1>2. SaidOK(obj, said)
  BY DEF S!Init, SaidOK, S!Nothing
<1> QED BY <1>1, <1>2 DEF S!Init, StatefulInv, MsgOK, GotOK, Untold

\* An attribute of all types.
LEMMA SetHeadKeeps ==
  ASSUME StatefulInv, NEW a, NEW v, S!set_head(a, v)
  PROVE  StatefulInv'
<1>1. /\ msg = S!None /\ a \in S!Common /\ v \in S!CommonValues(a)
      /\ obj' = [obj EXCEPT !.flags = @ \cup {S!Bit("obj", a)}, !.head[a] = v]
      /\ program' = program /\ said' = said /\ msg' = msg /\ got' = got
  BY DEF S!set_head
<1>2. WellObj(obj) /\ SaidOK(obj, said) /\ program \in Programs
  BY DEF StatefulInv
<1>3. obj' = [flags |-> obj.flags \cup {S!Bit("obj", a)}, ops |-> obj.ops,
              mem |-> obj.mem, head |-> [obj.head EXCEPT ![a] = v]]
  BY <1>1, <1>2 DEF WellObj
<1>4. /\ obj'.flags = obj.flags \cup {S!Bit("obj", a)} /\ obj'.ops = obj.ops
      /\ obj'.mem = obj.mem /\ obj'.head = [obj.head EXCEPT ![a] = v]
      /\ obj' = [flags |-> obj'.flags, ops |-> obj'.ops, mem |-> obj'.mem, head |-> obj'.head]
  BY <1>3
<1>5. WellObj(obj')
  <2>1. obj'.flags \subseteq 0 .. 6 \cup S!Bits
    BY <1>1, <1>2, <1>4, HeadIs DEF WellObj
  <2>2. /\ DOMAIN obj'.head = S!Common
        /\ \A b \in S!Common : obj'.head[b] = IF b = a THEN v ELSE obj.head[b]
    BY <1>1, <1>2, <1>4 DEF WellObj
  <2>3. \A b \in S!Common : obj'.head[b] \in S!CommonValues(b) \cup {<< >>}
    BY <1>1, <1>2, <2>2 DEF WellObj
  <2>4. \A b \in S!Common :
          S!Bit("obj", b) \in obj'.flags => obj'.head[b] \in S!CommonValues(b)
    BY <1>1, <1>2, <1>4, <2>2, HeadIs DEF WellObj
  <2> QED BY <1>2, <1>4, <2>1, <2>2, <2>3, <2>4 DEF WellObj
<1>6. SaidOK(obj', said)
  BY <1>2, <1>4 DEF SaidOK
<1> QED BY <1>1, <1>2, <1>5, <1>6, NothingSent DEF StatefulInv, MsgOK, GotOK

\* What set_type and set_untyped change keeps the invariant.
LEMMA FlagsKeep ==
  ASSUME StatefulInv, msg = S!None,
         NEW k \in S!Types \cup {S!NoOps}, NEW F, F \subseteq {2} \cup S!Bits,
         k # S!NoOps => 2 \in F,
         obj' = [flags |-> obj.flags \cup F, ops |-> k, mem |-> obj.mem,
                 head |-> obj.head],
         program' = program, said' = said, msg' = msg, got' = got
  PROVE  StatefulInv'
<1>2. WellObj(obj) /\ SaidOK(obj, said) /\ program \in Programs
  BY DEF StatefulInv
<1>4. /\ obj'.flags = obj.flags \cup F /\ obj'.ops = k
      /\ obj'.mem = obj.mem /\ obj'.head = obj.head
      /\ obj' = [flags |-> obj'.flags, ops |-> obj'.ops, mem |-> obj'.mem, head |-> obj'.head]
  OBVIOUS
<1>5. WellObj(obj')
  <2>1. obj'.flags \subseteq 0 .. 6 \cup S!Bits
    BY <1>2, <1>4 DEF WellObj
  <2>2. \A a \in S!Common : S!Bit("obj", a) \notin F
    BY HeadIs DEF S!Bits, S!NFTNL_OBJ_BASE
  <2> QED BY <1>2, <1>4, <2>1, <2>2, HeadIs DEF WellObj
<1>6. SaidOK(obj', said)
  BY <1>2, <1>4 DEF SaidOK
<1> QED BY <1>2, <1>5, <1>6, NothingSent DEF StatefulInv, MsgOK, GotOK

\* The type.
LEMMA SetTypeKeeps ==
  ASSUME StatefulInv, NEW k \in S!Types \cup {S!NoOps}, S!set_type(k)
  PROVE  StatefulInv'
<1>1. /\ msg = S!None /\ program' = program /\ said' = said /\ msg' = msg /\ got' = got
  BY DEF S!set_type
<1>2. WellObj(obj)
  BY DEF StatefulInv
<1>3. PICK F : /\ F \subseteq {2} \cup S!Bits /\ (k # S!NoOps => 2 \in F)
               /\ obj' = [flags |-> obj.flags \cup F, ops |-> k, mem |-> obj.mem,
                          head |-> obj.head]
  <2>1. CASE k = S!NoOps
    <3>1. obj' = [flags |-> obj.flags \cup {}, ops |-> k, mem |-> obj.mem, head |-> obj.head]
      BY <1>2, <2>1 DEF S!set_type, WellObj
    <3> QED BY <2>1, <3>1
  <2>2. CASE k # S!NoOps
    BY <1>2, <2>2, HeadIs DEF S!set_type, WellObj
  <2> QED BY <2>1, <2>2
<1> QED BY <1>1, <1>3, FlagsKeep

\* An attribute without a type.
LEMMA SetUntypedKeeps ==
  ASSUME StatefulInv, NEW n \in S!Bits, S!set_untyped(n)
  PROVE  StatefulInv'
<1>1. /\ msg = S!None /\ program' = program /\ said' = said /\ msg' = msg /\ got' = got
      /\ obj.ops = S!NoOps
  BY DEF S!set_untyped
<1>2. WellObj(obj)
  BY DEF StatefulInv
<1>3. obj' = [flags |-> obj.flags \cup {n}, ops |-> obj.ops, mem |-> obj.mem, head |-> obj.head]
  BY <1>2 DEF S!set_untyped, WellObj
<1>4. {n} \subseteq {2} \cup S!Bits /\ obj.ops \in S!Types \cup {S!NoOps}
  BY <1>2 DEF WellObj
<1> QED BY <1>1, <1>3, <1>4, FlagsKeep

\* An attribute of the type: those the program may count on are apart from it.
LEMMA StoreKeeps ==
  ASSUME StatefulInv, NEW a, NEW v, S!set(a, v)
  PROVE  StatefulInv'
<1> DEFINE k == obj.ops
           left == IF said.type # k THEN {}
                   ELSE {b \in said.attrs : ~S!Alternative(k, a, b)}
<1>1. /\ msg = S!None /\ k # S!NoOps /\ a \in S!Fields(k) /\ v \in S!Values(k, a)
      /\ obj' = [obj EXCEPT !.flags = @ \cup {S!Bit(k, a)}, !.mem = S!Store(@, k, a, v)]
      /\ said' = [type |-> k, attrs |-> left \cup {a}]
      /\ program' = program /\ msg' = msg /\ got' = got
  BY DEF S!set
<1>2. WellObj(obj) /\ SaidOK(obj, said) /\ program \in Programs
  BY DEF StatefulInv
<1>3. k \in S!Types /\ obj.mem \in Memory
  BY <1>1, <1>2 DEF WellObj
<1>4. /\ obj'.flags = obj.flags \cup {S!Bit(k, a)} /\ obj'.ops = k
      /\ obj'.mem = S!Store(obj.mem, k, a, v) /\ obj'.head = obj.head
      /\ obj' = [flags |-> obj'.flags, ops |-> obj'.ops, mem |-> obj'.mem, head |-> obj'.head]
  BY <1>1, <1>2 DEF WellObj
<1>5. Fits(k, a, v)
  BY <1>1, <1>3, ValuesFit
<1>6. /\ obj'.mem \in Memory /\ S!Read(obj'.mem, k, a) = v
  BY <1>1, <1>3, <1>4, <1>5, StoreIs
<1>7. S!Bit(k, a) \in S!Bits
  BY <1>1, <1>3, BitIs
<1>8. WellObj(obj')
  <2>1. \A b \in S!Common : S!Bit("obj", b) # S!Bit(k, a)
    BY <1>7, HeadIs DEF S!Bits, S!NFTNL_OBJ_BASE
  <2> QED BY <1>2, <1>4, <1>6, <1>7, <2>1 DEF WellObj
<1>9. \A b \in left :
        /\ b \in S!Fields(k) /\ S!Bit(k, b) \in obj'.flags
        /\ S!Read(obj'.mem, k, b) \in S!Values(k, b)
  <2> SUFFICES ASSUME NEW b \in left
               PROVE  /\ b \in S!Fields(k) /\ S!Bit(k, b) \in obj'.flags
                      /\ S!Read(obj'.mem, k, b) \in S!Values(k, b)
    OBVIOUS
  <2>1. said.type = k /\ b \in said.attrs /\ ~S!Alternative(k, a, b)
    OBVIOUS
  <2>2. /\ b \in S!Fields(k) /\ S!Bit(k, b) \in obj.flags
        /\ S!Read(obj.mem, k, b) \in S!Values(k, b)
    BY <1>1, <1>2, <2>1 DEF SaidOK
  <2>3. CASE a = b
    BY <1>1, <1>4, <1>6, <2>2, <2>3
  <2>4. CASE a # b
    <3>1. Apart(k, a, b)
      BY <1>1, <1>3, <2>1, <2>2, <2>4, FieldsApart DEF Layout
    <3>2. S!Read(obj'.mem, k, b) = S!Read(obj.mem, k, b)
      BY <1>1, <1>3, <1>4, <1>5, <2>2, <3>1, StoreApart
    <3> QED BY <1>4, <2>2, <3>2
  <2> QED BY <2>3, <2>4
<1> HIDE DEF left, k
<1>10. SaidOK(obj', said')
  <2>1. said'.type = k /\ said'.attrs = left \cup {a}
    BY <1>1
  <2> QED BY <1>1, <1>3, <1>4, <1>6, <1>9, <2>1 DEF SaidOK
<1> QED BY <1>1, <1>2, <1>8, <1>10, NothingSent DEF StatefulInv, MsgOK, GotOK

\* A message.
LEMMA BuildKeeps == ASSUME StatefulInv, S!build PROVE StatefulInv'
<1>1. /\ msg = S!None /\ obj' = obj /\ program' = program /\ said' = said /\ got' = got
      /\ msg' = IF S!Dangles(obj) THEN S!Crash
                ELSE [in |-> "message", attrs |-> S!Build(obj)]
  BY DEF S!build
<1>2. MsgOK(obj, msg')
  BY <1>1 DEF MsgOK
<1> QED BY <1>1, <1>2, NothingSent DEF StatefulInv, GotOK

\* Another process.
LEMMA RestartKeeps == ASSUME StatefulInv, S!restart PROVE StatefulInv'
<1>1. /\ msg = S!Crash /\ obj' = S!New /\ said' = S!Nothing /\ msg' = S!None
      /\ program' = program /\ got' = got
  BY DEF S!restart
<1>2. got = Untold
  BY <1>1 DEF StatefulInv, GotOK
<1>3. SaidOK(obj', said')
  BY <1>1 DEF SaidOK, S!Nothing
<1> QED BY <1>1, <1>2, <1>3, NewObject DEF StatefulInv, MsgOK, GotOK

\* A reader.
LEMMA ParseKeeps == ASSUME StatefulInv, S!parse PROVE StatefulInv'
<1>1. /\ msg \notin {S!None, S!Crash}
      /\ \E follows \in {<< >>, << 9 >>}, knows \in {S!Types, {}} :
           got' = S!Parse(msg.attrs, knows, follows)
      /\ obj' = obj /\ program' = program /\ said' = said /\ msg' = msg
  BY DEF S!parse
<1>2. msg = [in |-> "message", attrs |-> S!Build(obj)]
  BY <1>1 DEF StatefulInv, MsgOK
<1>3. msg.attrs = S!Build(obj)
  BY <1>2
<1>4. Told(obj, got')
  BY <1>1, <1>3 DEF Told
<1> QED BY <1>1, <1>4 DEF StatefulInv, GotOK

\* The next message.
LEMMA DiscardKeeps == ASSUME StatefulInv, S!discard PROVE StatefulInv'
BY DEF StatefulInv, S!discard, MsgOK, GotOK, Untold

\* Every step keeps the invariant.
LEMMA StatefulSteps ==
  ASSUME StatefulInv, [S!Next]_<<program, obj, said, msg, got>>,
         S!ProgramsAssumption
  PROVE  StatefulInv'
<1>1. CASE UNCHANGED << program, obj, said, msg, got >>
  BY <1>1 DEF StatefulInv
<1>2. CASE S!Next
  <2>1. ASSUME NEW a \in program.heads, NEW v \in S!CommonValues(a), S!set_head(a, v)
        PROVE  StatefulInv'
    BY <2>1, SetHeadKeeps
  <2>2. ASSUME NEW k \in program.kinds \cup {S!NoOps}, S!set_type(k) PROVE StatefulInv'
    <3>1. k \in S!Types \cup {S!NoOps}
      BY DEF StatefulInv, S!ProgramsAssumption, S!Types
    <3> QED BY <2>2, <3>1, SetTypeKeeps
  <2>3. ASSUME NEW n \in S!Bits, S!set_untyped(n) PROVE StatefulInv'
    BY <2>3, SetUntypedKeeps
  <2>4. ASSUME NEW a, NEW v, S!set(a, v) PROVE StatefulInv'
    BY <2>4, StoreKeeps
  <2> QED BY <1>2, <2>1, <2>2, <2>3, <2>4, BuildKeeps, RestartKeeps, ParseKeeps,
             DiscardKeeps DEF S!Next
<1> QED BY <1>1, <1>2

-----------------------------------------------------------------------------
(* What a reader has: it is an object whatever the message.                *)
\* What the parser of each type takes are attributes of the type.
LEMMA ParsedAre ==
  \A k \in S!Types : \A t \in S!obj_ops[k].parse : t.attr \in S!Fields(k)
<1>1. \A t \in S!obj_ops["counter"].parse : t.attr \in S!Fields("counter")
  BY DEF S!Fields, S!obj_ops, S!Ops, S!counter_set, S!counter_parse, S!Take
<1>2. \A t \in S!obj_ops["quota"].parse : t.attr \in S!Fields("quota")
  BY DEF S!Fields, S!obj_ops, S!Ops, S!quota_set, S!quota_parse, S!TakeAll, S!Take
<1>3. \A t \in S!obj_ops["ct_helper"].parse : t.attr \in S!Fields("ct_helper")
  BY DEF S!Fields, S!obj_ops, S!Ops, S!ct_helper_set, S!ct_helper_parse, S!TakeAll, S!Take
<1>4. \A t \in S!obj_ops["limit"].parse : t.attr \in S!Fields("limit")
  BY DEF S!Fields, S!obj_ops, S!Ops, S!limit_set, S!limit_parse, S!TakeAll, S!Take
<1>5. \A t \in S!obj_ops["ct_timeout"].parse : t.attr \in S!Fields("ct_timeout")
  BY DEF S!Fields, S!obj_ops, S!Ops, S!ct_timeout_set, S!ct_timeout_parse, S!TakeAll, S!Take
<1>6. \A t \in S!obj_ops["secmark"].parse : t.attr \in S!Fields("secmark")
  BY DEF S!Fields, S!obj_ops, S!Ops, S!secmark_set, S!secmark_parse, S!TakeAll, S!Take
<1>7. \A t \in S!obj_ops["ct_expect"].parse : t.attr \in S!Fields("ct_expect")
  BY DEF S!Fields, S!obj_ops, S!Ops, S!ct_expect_set, S!ct_expect_parse, S!TakeAll, S!Take
<1>8. \A t \in S!obj_ops["synproxy"].parse : t.attr \in S!Fields("synproxy")
  BY DEF S!Fields, S!obj_ops, S!Ops, S!synproxy_set, S!synproxy_parse, S!TakeAll, S!Take
<1>9. \A t \in S!obj_ops["tunnel"].parse : t.attr \in S!Fields("tunnel")
  <2>1. S!obj_ops["tunnel"].parse =
          S!tunnel_parse \cup S!tunnel_parse_ip \cup S!tunnel_parse_ip6
            \cup S!tunnel_parse_vxlan \cup S!tunnel_parse_erspan
    BY DEF S!obj_ops, S!Ops
  <2>2. S!Fields("tunnel") = DOMAIN S!tunnel_set
    BY DEF S!Fields, S!obj_ops, S!Ops
  <2>3. \A t \in S!tunnel_parse : t.attr \in DOMAIN S!tunnel_set
    BY DEF S!tunnel_set, S!tunnel_parse, S!TakeAll, S!Take
  <2>4. \A t \in S!tunnel_parse_ip : t.attr \in DOMAIN S!tunnel_set
    BY DEF S!tunnel_set, S!tunnel_parse_ip, S!Take
  <2>5. \A t \in S!tunnel_parse_ip6 : t.attr \in DOMAIN S!tunnel_set
    BY DEF S!tunnel_set, S!tunnel_parse_ip6, S!TakeIf
  <2>6. \A t \in S!tunnel_parse_vxlan \cup S!tunnel_parse_erspan :
          t.attr \in DOMAIN S!tunnel_set
    BY DEF S!tunnel_set, S!tunnel_parse_vxlan, S!tunnel_parse_erspan, S!TakeIf, S!Take
  <2> QED BY <2>1, <2>2, <2>3, <2>4, <2>5, <2>6
<1> QED BY TypesAre, <1>1, <1>2, <1>3, <1>4, <1>5, <1>6, <1>7, <1>8, <1>9

\* What is parsed of the attributes of all types, and the width of numbers.
LEMMA HeadParsed ==
  \A t \in S!obj_parse :
    /\ t.attr \in S!Common \ {"FAMILY"}
    /\ t.attr = "USE" => t.how = "be32"
    /\ t.attr = "HANDLE" => t.how = "be64"
BY DEF S!obj_parse, S!TakeAll, S!Take, S!Common, S!obj_set

\* The numbers among the attributes of all types.
LEMMA HeadWidths ==
  \A a \in S!Common :
    S!obj_set[a] \in DOMAIN S!Width =>
      /\ S!Width[S!obj_set[a]] \in Nat
      /\ a \in {"FAMILY", "USE", "HANDLE"}
      /\ \A v \in S!CommonValues(a) : Len(v) = S!Width[S!obj_set[a]]
<1> TAKE a \in S!Common
<1> HAVE S!obj_set[a] \in DOMAIN S!Width
<1>1. a \in {"FAMILY", "USE", "HANDLE"} /\ S!obj_set[a] \in {"u32", "u64"}
  BY HeadIs DEF S!obj_set, S!Width
<1>2. S!Width["u32"] = 4 /\ S!Width["u64"] = 8
  BY DEF S!Width
<1>3. S!CommonValues(a) = {[i \in 1 .. S!Width[S!obj_set[a]] |-> i]}
  BY <1>1 DEF S!CommonValues
<1>4. Len([i \in 1 .. 4 |-> i]) = 4 /\ Len([i \in 1 .. 8 |-> i]) = 8
  OBVIOUS
<1> QED BY <1>1, <1>2, <1>3, <1>4

LEMMA FilledSize ==
  ASSUME NEW x, NEW m, NEW follows, NEW A, S!api[x.ops] \in Seq(A)
  PROVE  DOMAIN S!Filled(x, m, follows) = DOMAIN x.mem
<1> DEFINE N == Len(S!api[x.ops])
<1>1. PICK f : FillSteps(x, m, follows, f)
  BY FilledIs
<1>2. N \in Nat
  OBVIOUS
<1> DEFINE T == {n \in Nat : n <= N => DOMAIN f[n] = DOMAIN x.mem}
<1>3. 0 \in T
  BY <1>1 DEF FillSteps
<1>4. ASSUME NEW n \in Nat, n \in T PROVE n + 1 \in T
  <2>1. CASE n + 1 <= N
    <3>1. n + 1 \in 1 .. N /\ (n + 1) - 1 = n /\ n <= N
      BY <1>2, <2>1
    <3>2. f[n + 1] = S!Fill(x, m, follows, f[n], S!api[x.ops][n + 1])
      BY <1>1, <3>1 DEF FillSteps
    <3>3. DOMAIN f[n] = DOMAIN x.mem
      BY <1>4, <3>1
    <3> HIDE DEF N
    <3>4. DOMAIN f[n + 1] = DOMAIN f[n]
      BY <3>2 DEF S!Fill, S!Store, S!Write
    <3> QED BY <3>3, <3>4
  <2>2. CASE ~ (n + 1 <= N)
    BY <2>2
  <2> QED BY <2>1, <2>2
<1> HIDE DEF T
<1>5. N \in T
  BY <1>2, <1>3, <1>4, SetInduction
<1> QED BY <1>1, <1>2, <1>5 DEF T, FillSteps

\* A number has the width of its field.
LEMMA DecodedWidth ==
  ASSUME NEW how \in {"be16", "be32", "be64"}, NEW p, NEW w \in Nat, NEW states,
         NEW follows
  PROVE  Len(S!Decode(how, p, w, states, follows)) = w
<1> DEFINE v == S!Reverse(S!Resize(p.is, S!Width[how]))
<1>1. S!Decode(how, p, w, states, follows) = S!Resize(v, w)
  BY DEF S!Decode
<1> HIDE DEF v
<1>2. S!Resize(v, w) = [i \in 1 .. w |-> IF i <= Len(v) THEN v[i] ELSE 0]
  BY DEF S!Resize
<1>3. Len(S!Resize(v, w)) = w
  BY <1>2
<1> QED BY <1>1, <1>3

\* What a reader makes of the attributes of all types.
LEMMA HeadShape ==
  ASSUME NEW m, NEW ops \in S!Types \cup {S!NoOps}, NEW follows
  PROVE  LET x == S!ParseHead(m, ops, follows)
         IN  /\ x = [flags |-> x.flags, ops |-> ops, mem |-> x.mem, head |-> x.head]
             /\ x.flags \subseteq 0 .. 6 \ {2}
             /\ DOMAIN x.mem = 1 .. S!MemSize
             /\ \A a \in S!Common : S!obj_set[a] \in DOMAIN S!Width =>
                  Len(x.head[a]) \in {0, S!Width[S!obj_set[a]]}
<1> DEFINE taken == {t \in S!obj_parse : t.at \in DOMAIN m}
           given == {t.attr : t \in taken}
           row(a) == CHOOSE t \in taken : t.attr = a
           width(a) == IF S!obj_set[a] \in DOMAIN S!Width
                       THEN S!Width[S!obj_set[a]] ELSE 0
           val(a) == S!Decode(row(a).how, m[row(a).at], width(a), 0, follows)
           F == {S!Bit("obj", a) : a \in given \cup {"FAMILY"}}
           H == [a \in S!Common |-> IF a \in given THEN val(a) ELSE S!New.head[a]]
           x == S!ParseHead(m, ops, follows)
<1>1. x = [flags |-> F, ops |-> ops, mem |-> S!New.mem, head |-> H]
  <2>1. x = [S!New EXCEPT !.flags = F, !.ops = ops, !.head = H]
    BY DEF S!ParseHead
  <2> HIDE DEF F, H, x
  <2> QED BY <2>1 DEF S!New
<1>2. F \subseteq 0 .. 6 \ {2}
  BY HeadParsed, HeadIs
<1>3. DOMAIN S!New.mem = 1 .. S!MemSize
  BY DEF S!New, S!Zeros
<1>4. ASSUME NEW a \in S!Common, S!obj_set[a] \in DOMAIN S!Width
      PROVE  Len(H[a]) \in {0, S!Width[S!obj_set[a]]}
  <2>1. CASE a \in given
    <3>1. row(a) \in taken /\ row(a).attr = a
      BY <2>1
    <3>2. row(a).how \in {"be32", "be64"}
      BY <1>4, <3>1, HeadParsed, HeadWidths
    <3>3. width(a) \in Nat /\ width(a) = S!Width[S!obj_set[a]]
      BY <1>4, HeadWidths
    <3>4. H[a] = val(a)
      BY <2>1
    <3> HIDE DEF row, width, H
    <3>5. Len(val(a)) = width(a)
      BY <3>2, <3>3, DecodedWidth
    <3> QED BY <3>3, <3>4, <3>5
  <2>2. CASE a \notin given
    <3>1. H[a] = << >>
      BY <2>2 DEF S!New
    <3> HIDE DEF H
    <3> QED BY <3>1
  <2> QED BY <2>1, <2>2
<1> HIDE DEF F, H, x
<1>5. /\ x.flags = F /\ x.ops = ops /\ x.mem = S!New.mem /\ x.head = H
      /\ x = [flags |-> x.flags, ops |-> ops, mem |-> x.mem, head |-> x.head]
  BY <1>1
<1> QED BY <1>2, <1>3, <1>4, <1>5 DEF x

\* The bit of the type, added.
LEMMA FlagAdded ==
  ASSUME NEW x, NEW ops, NEW n,
         x = [flags |-> x.flags, ops |-> ops, mem |-> x.mem, head |-> x.head]
  PROVE  [x EXCEPT !.flags = @ \cup {n}] =
           [flags |-> x.flags \cup {n}, ops |-> ops, mem |-> x.mem, head |-> x.head]
OBVIOUS

\* What a reader has is an object, and marked as having a type if it has one.
LEMMA ParseShape ==
  ASSUME NEW m, NEW knows \in {S!Types, {}}, NEW follows
  PROVE  LET g == S!Parse(m, knows, follows)
         IN  /\ S!Object(g.obj) /\ g.result \in {"ok", "exit"}
             /\ g.result = "ok" => ~ S!Dangles(g.obj)
<1> DEFINE g == S!Parse(m, knows, follows)
           ops == S!Lookup(m, knows)
           head == S!ParseHead(m, ops, follows)
           known == [head EXCEPT !.flags = @ \cup {S!TYPE}]
<1>1. ops \in S!Types \cup {S!NoOps}
  BY DEF S!Lookup
<1>2. /\ head = [flags |-> head.flags, ops |-> ops, mem |-> head.mem, head |-> head.head]
      /\ head.flags \subseteq 0 .. 6 \ {2}
      /\ DOMAIN head.mem = 1 .. S!MemSize
      /\ \A a \in S!Common : S!obj_set[a] \in DOMAIN S!Width =>
           Len(head.head[a]) \in {0, S!Width[S!obj_set[a]]}
  BY <1>1, HeadShape
<1>3. CASE S!Breaks(m, ops)
  <2>1. g = [result |-> "exit", obj |-> S!New, knows |-> knows]
    BY <1>3 DEF S!Parse
  <2>2. S!Object(S!New)
    <3>1. DOMAIN S!New.mem = 1 .. S!MemSize /\ S!New.flags = {} /\ S!New.ops = S!NoOps
          /\ \A a \in S!Common : S!New.head[a] = << >>
      BY DEF S!New, S!Zeros
    <3>2. Len(<< >>) = 0
      OBVIOUS
    <3> QED BY <3>1, <3>2 DEF S!Object
  <2> QED BY <2>1, <2>2
<1>4. CASE ~ S!Breaks(m, ops) /\ ops = S!NoOps
  <2>1. g = [result |-> "ok", obj |-> head, knows |-> knows]
    BY <1>4 DEF S!Parse
  <2> HIDE DEF head, g, ops
  <2>2. head.ops = S!NoOps
    BY <1>2, <1>4
  <2>3. g.obj = head /\ g.result = "ok"
    BY <2>1
  <2>4. S!Object(head)
    BY <1>2, <2>2 DEF S!Object
  <2>5. ~ S!Dangles(head)
    BY <1>2, HeadIs DEF S!Dangles
  <2> QED BY <2>3, <2>4, <2>5 DEF g
<1>5. CASE ~ S!Breaks(m, ops) /\ ops # S!NoOps
  <2> DEFINE data == S!ParseData(known, m, follows)
             bits == {S!Bit(ops, t.attr) : t \in S!Taken(ops, m)}
             filled == S!Filled(known, m, follows)
  <2>1. g = [result |-> "ok", obj |-> data, knows |-> knows]
    BY <1>5 DEF S!Parse
  <2>2. ops \in S!Types
    BY <1>1, <1>5
  <2> HIDE DEF ops
  <2>3. known = [flags |-> head.flags \cup {2}, ops |-> ops, mem |-> head.mem,
                 head |-> head.head]
    <3>1. S!TYPE = 2
      BY HeadIs
    <3>2. head = [flags |-> head.flags, ops |-> ops, mem |-> head.mem,
                  head |-> head.head]
      BY <1>2
    <3> HIDE DEF head
    <3> QED BY <3>1, <3>2, FlagAdded
  <2>4. /\ known.flags = head.flags \cup {2} /\ known.ops = ops
        /\ known.mem = head.mem /\ known.head = head.head
    BY <2>3
  <2>5. data = [flags |-> head.flags \cup {2} \cup bits, ops |-> ops, mem |-> filled,
                head |-> head.head]
    <3>1. data = [known EXCEPT !.flags = @ \cup bits, !.mem = filled]
      <4> HIDE DEF known
      <4> QED BY <2>4 DEF S!ParseData
    <3> HIDE DEF head, known, data, bits, filled
    <3> QED BY <2>3, <3>1
  <2>6. bits \subseteq S!Bits
    <3>1. \A t \in S!Taken(ops, m) : t.attr \in S!Fields(ops)
      BY <2>2, ParsedAre DEF S!Taken
    <3> QED BY <2>2, <3>1, BitIs
  <2>7. S!api[known.ops] \in Seq(S!Fields(ops))
    BY <2>2, <2>4, FieldsApart DEF InOrder
  <2> HIDE DEF known, head, data, bits, g
  <2>8. DOMAIN filled = DOMAIN known.mem
    BY <2>7, FilledSize
  <2> HIDE DEF filled
  <2>9. /\ data.flags = head.flags \cup {2} \cup bits /\ data.ops = ops
        /\ data.mem = filled /\ data.head = head.head
    BY <2>5
  <2>10. data.flags \subseteq 0 .. 6 \cup S!Bits
    BY <1>2, <2>6, <2>9
  <2>11. S!Object(data)
    BY <1>1, <1>2, <2>4, <2>8, <2>9, <2>10 DEF S!Object
  <2>12. ~ S!Dangles(data)
    BY <1>5, <2>9 DEF S!Dangles
  <2>13. g.obj = data /\ g.result = "ok"
    BY <2>1
  <2> QED BY <2>11, <2>12, <2>13 DEF g
<1> QED BY <1>3, <1>4, <1>5

\* So what the program stored is there.
LEMMA StoredFollows ==
  ASSUME StatefulInv
  PROVE  S!TypeOK /\ S!Stored /\ S!NoFault
<1>1. WellObj(obj) /\ SaidOK(obj, said) /\ GotOK(obj, msg, got)
  BY DEF StatefulInv
<1>2. S!Object(obj)
  <2>1. \A a \in S!Common : S!obj_set[a] \in DOMAIN S!Width =>
          Len(obj.head[a]) \in {0, S!Width[S!obj_set[a]]}
    <3>1. Len(<< >>) = 0
      OBVIOUS
    <3> QED BY <1>1, <3>1, HeadWidths DEF WellObj
  <2>2. DOMAIN obj.mem = 1 .. S!MemSize
    BY <1>1 DEF WellObj, Memory, S!MemSize
  <2> QED BY <1>1, <2>1, <2>2 DEF WellObj, S!Object
<1>3. /\ S!Object(got.obj) /\ got.result \in {"none", "ok", "exit"}
      /\ got.result = "ok" => ~ S!Dangles(got.obj)
  <2>1. CASE got = Untold
    <3>1. got.obj = S!New /\ got.result = "none"
      BY <2>1 DEF Untold
    <3>2. DOMAIN S!New.mem = 1 .. S!MemSize /\ S!New.flags = {} /\ S!New.ops = S!NoOps
          /\ \A a \in S!Common : S!New.head[a] = << >>
      BY DEF S!New, S!Zeros
    <3>3. Len(<< >>) = 0
      OBVIOUS
    <3> QED BY <3>1, <3>2, <3>3 DEF S!Object
  <2>2. CASE Told(obj, got)
    <3>1. PICK follows \in {<< >>, << 9 >>}, knows \in {S!Types, {}} :
            got = S!Parse(S!Build(obj), knows, follows)
      BY <2>2 DEF Told
    <3> QED BY <3>1, ParseShape
  <2> QED BY <1>1, <2>1, <2>2 DEF GotOK
<1>4. S!TypeOK
  BY <1>1, <1>2, <1>3 DEF S!TypeOK, SaidOK
<1>5. S!Stored
  BY <1>1 DEF S!Stored, SaidOK
<1> QED BY <1>3, <1>4, <1>5 DEF S!NoFault

-----------------------------------------------------------------------------
(* The behaviours                                                          *)

Inv == /\ side = "plain" => PlainInv
       /\ side = "stateful" => StatefulInv

\* So it always holds, of the side it is about.
LEMMA InvHolds == Spec => []Inv
<1>1. Init => Inv
  BY PlainBegins, StatefulBegins DEF Init, Inv
<1>2. Inv /\ [Next]_<<side, statefulVars, plainVars>> => Inv'
  <2>1. ASSUME Inv, side = "plain", P!Next, UNCHANGED <<side, statefulVars>> PROVE Inv'
    BY <2>1, PlainSteps DEF Inv
  <2>2. ASSUME Inv, side = "stateful", S!Next, UNCHANGED <<side, plainVars>> PROVE Inv'
    BY <2>2, StatefulSteps, ObjectsAssumption DEF Inv
  <2>3. ASSUME Inv, UNCHANGED <<side, statefulVars, plainVars>> PROVE Inv'
    <3>1. PlainInv' <=> PlainInv
      BY <2>3 DEF PlainInv, plainVars
    <3>2. StatefulInv' <=> StatefulInv
      BY <2>3 DEF StatefulInv, statefulVars
    <3> QED BY <2>3, <3>1, <3>2 DEF Inv
  <2> QED BY <2>1, <2>2, <2>3 DEF Next
<1> QED BY <1>1, <1>2, PTL DEF Spec

\* Merged, for every bound: whatever a program sets, unsets and adds, in any
\* order, and however many messages are read into one object, a reader has what
\* was sent and nothing else, and can send it on (the builders and parsers of
\* chain.c, rule.c, set.c, set_elem.c, table.c and flowtable.c).
THEOREM MergedHolds == Spec => []Merged
<1>1. Inv => Merged
  BY TypesFollow, MergedFollows, RelayFollows DEF Inv, Merged
<1> QED BY <1>1, InvHolds, PTL

\* PartialParse, for every bound: what an expression that is not known leaves,
\* wherever it is in the list (rule.c:456, set.c:745, set_elem.c:555).
THEOREM PartialParseHolds == Spec => []PartialParse
<1>1. Inv => PartialParse
  BY PartialFollows DEF Inv, PartialParse
<1> QED BY <1>1, InvHolds, PTL

\* Stored, for every program: whatever it sets of an object with a union of the
\* fields of nine types in it, under whatever type and in whatever order, what it
\* set under the type the object has now reads back, and a reader's object is
\* never marked as having a type that is not there (object.c:84-126, 249,
\* 314-323).
THEOREM StoredHolds == Spec => []Stored
<1>1. Inv => Stored
  BY StoredFollows DEF Inv, Stored
<1> QED BY <1>1, InvHolds, PTL

--------------------------------------------------------------------------------
(* The dump of a set                                                       *)

\* No element is in the set twice.
NoneTwice == \A i, j \in DOMAIN elems : elems[i] = elems[j] => i = j

\* The node of the list at place i: behind the last element is the list head.
Node(i) == IF i <= Len(elems) THEN elems[i] ELSE ListHead

\* s is a beginning of the set.
Begins(s) ==
    /\ Len(s) <= Len(elems)
    /\ \A i \in 1 .. Len(s) : s[i] = elems[i]

Resting ==
    /\ Begins(out)
    /\ cur = NULL => out = <<>>
    /\ cur # NULL => Len(out) < Len(elems) /\ cur = elems[Len(out) + 1]

\* Where the cursor and the element about to be written are, n being written.
Standing(n) ==
    /\ elem # NULL => /\ n < Len(elems)
                      /\ elem = elems[n + 1] /\ cur = Node(n + 2)
    /\ elem = NULL => \/ cur = NULL /\ n = 0
                      \/ n = Len(elems) /\ cur = elems[1]

Building ==
    /\ elems # <<>>
    /\ Begins(out \o nest)
    /\ Standing(Len(out) + Len(nest))
    /\ cur # NULL => Len(out) < Len(elems)
    /\ nest = <<>> => len = NestHdr
    /\ len >= NestHdr
    /\ \A i \in DOMAIN nest : ~ Oversize(nest[i])
    /\ \A i \in DOMAIN nest : Truncated(nest[i]) => len > MaxNest

DumpIInv ==
    /\ TypeOK /\ NestFits /\ NoneTwice
    /\ pc = "none" => out = <<>>
    /\ pc = "idle" => Resting
    /\ pc = "build" => Building
    /\ pc = "done" => Begins(out)

-------------------------------------------------------------------------------

\* Following the list from a node leads to the node at the next place, and
\* back to the one before.
LEMMA Neighbours ==
    ASSUME TypeOK, NoneTwice
    PROVE  /\ \A i \in DOMAIN elems : NextOf(elems[i]) = Node(i + 1)
           /\ NextOf(ListHead) = Node(1)
           /\ \A i \in 2 .. Len(elems) + 1 : PrevOf(Node(i)) = elems[i - 1]
  <1> USE DumpAssumption
  <1>1. \A i \in DOMAIN elems : IndexOf(elems[i]) = i /\ elems[i] # ListHead
    BY DEF TypeOK, NoneTwice, IndexOf
  <1>2. elems \in Seq(Elems)
    BY DEF TypeOK
  <1>3. \A i \in DOMAIN elems : NextOf(elems[i]) = Node(i + 1)
    BY <1>1, <1>2 DEF NextOf, Node
  <1>4. NextOf(ListHead) = Node(1)
    BY <1>2 DEF NextOf, Node
  <1>5. ASSUME NEW i \in 2 .. Len(elems) + 1
        PROVE  PrevOf(Node(i)) = elems[i - 1]
    BY <1>1, <1>2 DEF PrevOf, Node
  <1> QED BY <1>3, <1>4, <1>5

\* iter_next hands out the element at the cursor and moves on; behind the last
\* element it hands out none and stands at the first.
LEMMA IterNext ==
    ASSUME TypeOK, NoneTwice, elems # <<>>, iter_next,
           NEW i \in 1 .. Len(elems) + 1, cur = Node(i)
    PROVE  /\ i <= Len(elems) => elem' = elems[i] /\ cur' = Node(i + 1)
           /\ i = Len(elems) + 1 => elem' = NULL /\ cur' = elems[1]
  <1> USE DumpAssumption
  <1>1. elems \in Seq(Elems) /\ Len(elems) \in Nat \ {0}
    BY DEF TypeOK
  <1>2. cur # NULL /\ Node(1) = elems[1] /\ elems[1] \in Elems
    BY <1>1 DEF Node
  <1>3. CASE i <= Len(elems)
    <2>1. NextOf(cur) = Node(i + 1) /\ NextOf(ListHead) = elems[1]
      BY <1>1, <1>2, <1>3, Neighbours DEF Node
    <2>2. Node(i + 1) # elems[1]
      BY <1>1, <1>2, <1>3 DEF Node, NoneTwice
    <2> QED BY <1>1, <1>2, <1>3, <2>1, <2>2 DEF iter_next, Wraps, Node
  <1>4. CASE i = Len(elems) + 1
    BY <1>1, <1>2, <1>4, Neighbours DEF iter_next, Wraps, Node
  <1> QED BY <1>1, <1>3, <1>4

\* An element more at the end of what is written.
LEMMA BeginsMore ==
    ASSUME TypeOK, Begins(out \o nest), Len(out) + Len(nest) < Len(elems)
    PROVE  Begins(out \o Append(nest, elems[Len(out) + Len(nest) + 1]))
  <1>1. elems \in Seq(Elems) /\ out \in Seq(Elems) /\ nest \in Seq(Elems)
    BY DEF TypeOK
  <1> DEFINE e == elems[Len(out) + Len(nest) + 1]
             s == out \o nest
             t == out \o Append(nest, e)
  <1>2. /\ Len(s) = Len(out) + Len(nest) /\ Len(t) = Len(s) + 1
        /\ \A i \in 1 .. Len(t) : t[i] = IF i = Len(t) THEN e ELSE s[i]
    BY <1>1
  <1> QED BY <1>1, <1>2 DEF Begins

\* What is left of a length in its nla_len: all of it, if it fits.
LEMMA NlaLenIs ==
    ASSUME NEW e \in Elems
    PROVE  /\ NlaLen(e) \in Nat /\ NlaLen(e) <= Size[e]
           /\ ~ Truncated(e) => NlaLen(e) = Size[e]
  <1>1. PICK m : m \in Nat \ {0} /\ m = MaxNest + 1
    BY DumpAssumption
  <1>2. PICK s : s \in Nat /\ s = Size[e]
    BY DumpAssumption
  <1>3. s % m \in 0 .. m - 1
    BY <1>1, <1>2, SMT
  <1>4. s % m <= s
    BY <1>1, <1>2, SMT
  <1>5. s < m => s % m = s
    BY <1>1, <1>2, SMT
  <1>6. NlaLen(e) = s % m
    BY <1>1, <1>2 DEF NlaLen
  <1>7. ~ Truncated(e) => s < m
    BY <1>1, <1>2, DumpAssumption DEF Truncated
  <1> QED BY <1>2, <1>3, <1>4, <1>5, <1>6, <1>7

\* Initially no iterator exists.
LEMMA DumpInitIInv == DumpInit => DumpIInv
  BY DumpAssumption
     DEF DumpInit, DumpIInv, TypeOK, Phases, NestFits, Truncated, NoneTwice, Resting, Building, Begins

\* An element added behind the last one, at any moment of a dump.
LEMMA AddIInv ==
    ASSUME DumpIInv, NEW e \in Elems, elem_add(e)
    PROVE  DumpIInv'
  <1> USE DEF DumpIInv, elem_add
  <1>1. TypeOK' /\ NestFits'
    BY DEF TypeOK, NestFits, Truncated
  <1>2. /\ elems \in Seq(Elems) /\ out \in Seq(Elems)
        /\ Len(elems') = Len(elems) + 1
        /\ \A i \in 1 .. Len(elems) : elems'[i] = elems[i]
        /\ elems'[Len(elems) + 1] = e
    BY DEF TypeOK
  <1>3. NoneTwice'
    <2>1. \A i \in 1 .. Len(elems) : elems[i] # e
      BY <1>2 DEF ToSet
    <2> QED BY <1>2, <2>1 DEF NoneTwice
  <1>4. Begins(out) => Begins(out)'
    BY <1>2 DEF Begins
  <1>5. pc = "idle" => Resting'
    BY <1>2, <1>4 DEF Resting
  <1> QED BY <1>1, <1>3, <1>4, <1>5

\* A new iterator stands at the first element.
LEMMA CreateIInv ==
    ASSUME DumpIInv, iter_create
    PROVE  DumpIInv'
  <1> USE DumpAssumption DEF DumpIInv, iter_create
  <1>1. elems \in Seq(Elems) /\ out = <<>>
    BY DEF TypeOK
  <1>2. TypeOK' /\ NestFits' /\ NoneTwice'
    BY <1>1 DEF TypeOK, NestFits, Truncated, NoneTwice, Phases
  <1>3. Resting'
    BY <1>1 DEF Resting, Begins
  <1> QED BY <1>2, <1>3

\* A message begins where the last one ended.
LEMMA StartIInv ==
    ASSUME DumpIInv, build_start
    PROVE  DumpIInv'
  <1> USE DumpAssumption DEF DumpIInv, build_start
  <1>1. /\ elems \in Seq(Elems) /\ out \in Seq(Elems) /\ Resting
        /\ elems # <<>> /\ nest' = <<>> /\ out' = out /\ elems' = elems
    BY DEF TypeOK
  <1>2. Begins(out \o nest)' /\ (Len(out) + Len(nest))' = Len(out)
    BY <1>1 DEF Resting, Begins
  <1>3. Standing(Len(out) + Len(nest))'
    <2>1. CASE cur = NULL
      BY <1>1, <1>2, <2>1 DEF iter_next, Standing, Resting
    <2>2. CASE cur # NULL
      <3> DEFINE i == Len(out) + 1
      <3>1. i \in 1 .. Len(elems) + 1 /\ i <= Len(elems) /\ cur = Node(i)
        BY <1>1, <2>2 DEF Resting, Node
      <3>2. elem' = elems[i] /\ cur' = Node(i + 1)
        BY <1>1, <3>1, IterNext
      <3>3. elem' # NULL
        BY <1>1, <3>1, <3>2
      <3> QED BY <1>1, <1>2, <3>1, <3>2, <3>3 DEF Standing, Node
    <2> QED BY <2>1, <2>2
  <1>4. cur' # NULL => Len(out') < Len(elems')
    BY <1>1 DEF iter_next, Resting
  <1>5. Building'
    BY <1>1, <1>2, <1>3, <1>4 DEF Building
  <1>6. TypeOK' /\ NestFits' /\ NoneTwice'
    <2>1. elem' \in Elems \cup {NULL} /\ cur' \in Elems \cup {ListHead, NULL}
      BY <1>1, <1>3 DEF Standing, Node, iter_next
    <2> QED BY <2>1 DEF TypeOK, NestFits, Truncated, NoneTwice, Phases
  <1> QED BY <1>5, <1>6

\* An element that fits in the nest.
LEMMA ElemIInv ==
    ASSUME DumpIInv, build_elem
    PROVE  DumpIInv'
  <1> USE DumpAssumption DEF DumpIInv, build_elem
  <1>1. /\ elems \in Seq(Elems) /\ out \in Seq(Elems) /\ nest \in Seq(Elems)
        /\ elems' = elems /\ out' = out /\ nest' = Append(nest, elem)
        /\ Building /\ elem \in Elems
    BY DEF TypeOK
  <1>n. PICK n \in Nat : n = Len(out) + Len(nest)
    BY <1>1
  <1>2. n < Len(elems) /\ elem = elems[n + 1] /\ cur = Node(n + 2)
    BY <1>1, <1>n DEF Building, Standing
  <1>3. Begins(out \o nest)'
    <2>1. Begins(out \o nest')
      BY <1>1, <1>2, <1>n, BeginsMore DEF Building
    <2> QED BY <1>1, <2>1 DEF Begins
  <1>4. (Len(out) + Len(nest))' = n + 1
    BY <1>1, <1>n
  <1>5. /\ n + 2 <= Len(elems) => elem' = elems[n + 2] /\ cur' = Node((n + 2) + 1)
        /\ n + 2 = Len(elems) + 1 => elem' = NULL /\ cur' = elems[1]
    <2>1. n + 2 \in 1 .. Len(elems) + 1
      BY <1>1, <1>2
    <2> QED BY <1>1, <1>2, <2>1, IterNext DEF Building
  <1>6. Standing(Len(out) + Len(nest))'
    <2>1. CASE n + 2 <= Len(elems)
      <3>1. elem' # NULL
        BY <1>1, <1>2, <1>5, <2>1
      <3>2. Node(Len(out) + Len(nest) + 2)' = Node((n + 2) + 1)
        <4>1. (Len(out) + Len(nest) + 2)' = (n + 2) + 1
          BY <1>4
        <4> QED BY <1>1, <4>1 DEF Node
      <3>3. /\ (Len(out) + Len(nest))' < Len(elems')
            /\ elem' = elems'[(Len(out) + Len(nest))' + 1]
        <4>1. (Len(out) + Len(nest))' + 1 = n + 2
          BY <1>4
        <4> QED BY <1>1, <1>2, <1>4, <1>5, <2>1, <4>1
      <3> QED BY <1>5, <2>1, <3>1, <3>2, <3>3 DEF Standing
    <2>2. CASE n + 2 = Len(elems) + 1
      BY <1>1, <1>2, <1>4, <1>5, <2>2 DEF Standing, Node
    <2> QED BY <1>1, <1>2, <2>1, <2>2
  <1>7. cur' # NULL => Len(out') < Len(elems')
    BY <1>1, <1>2, <1>n
  <1>10. len <= MaxNest /\ \A i \in DOMAIN nest : ~ Truncated(nest[i])
    <2>1. NlaLen(elem) \in Nat /\ len \in Nat /\ ~ (len + NlaLen(elem) > MaxNest)
      BY <1>1, NlaLenIs DEF Overflow, TypeOK
    <2>2. len <= MaxNest
      BY <2>1
    <2> QED BY <1>1, <2>1, <2>2 DEF Building
  <1>8. Building'
    <2>1. len' = len + Size[elem] /\ len \in Nat /\ Size[elem] \in Nat \ {0}
      BY <1>1 DEF TypeOK
    <2>2. len' >= NestHdr /\ ~ Oversize(elem)
      <3>1. /\ NlaLen(elem) \in Nat /\ NestHdr \in Nat /\ len >= NestHdr
            /\ ~ (len + NlaLen(elem) > MaxNest)
        BY <1>1, NlaLenIs DEF Building, Overflow
      <3> QED BY <2>1, <3>1 DEF Oversize
    <2>3. \A i \in DOMAIN nest' : ~ Oversize(nest'[i])
      BY <1>1, <2>2 DEF Building
    <2>4. (\A i \in DOMAIN nest : ~ Oversize(nest[i]))'
      BY <2>3 DEF Oversize, NlaLen
    <2>7. (\A i \in DOMAIN nest : Truncated(nest[i]) => len > MaxNest)'
      BY <1>1, <1>10, <2>1 DEF Truncated
    <2>5. elems' # <<>>
      BY <1>1 DEF Building
    <2>6. nest' # <<>>
      <3>1. Len(nest') = Len(nest) + 1 /\ Len(nest) \in Nat
        BY <1>1
      <3> QED BY <3>1
    <2> QED BY <1>3, <1>6, <1>7, <2>2, <2>4, <2>5, <2>6, <2>7 DEF Building
  <1>9. TypeOK' /\ NestFits' /\ NoneTwice'
    <2>1. elem' \in Elems \cup {NULL} /\ cur' \in Elems \cup {ListHead, NULL}
      BY <1>1, <1>2, <1>5 DEF Node
    <2>2. /\ len' \in Nat /\ nest' \in Seq(Elems) /\ len' = len + Size[elem]
          /\ Len(nest') = Len(nest) + 1 /\ Last(nest') = elem
          /\ \A i \in 1 .. Len(nest') - 1 : nest'[i] = nest[i]
      BY <1>1 DEF TypeOK, Last
    <2>3. len' > MaxNest => Truncated(elem)
      BY <1>1, <2>2, NlaLenIs DEF Overflow, TypeOK
    <2>4. nest' # <<>>
      BY <1>1, <2>2
    <2>5. NestFits'
      BY <1>1, <1>10, <2>2, <2>3, <2>4 DEF NestFits, Truncated
    <2> QED BY <1>1, <2>1, <2>2, <2>5 DEF TypeOK, NoneTwice
  <1> QED BY <1>8, <1>9

\* An element taken back because the nest would be too long.
LEMMA OverflowIInv ==
    ASSUME DumpIInv, build_overflow
    PROVE  DumpIInv'
  <1> USE DumpAssumption DEF DumpIInv, build_overflow
  <1>1. /\ elems \in Seq(Elems) /\ out \in Seq(Elems) /\ nest \in Seq(Elems)
        /\ elems' = elems /\ out' = out \o nest
        /\ Building
    BY DEF TypeOK
  <1> DEFINE n == Len(out) + Len(nest)
  <1>2. n \in Nat /\ n < Len(elems) /\ elem = elems[n + 1] /\ cur = Node(n + 2)
    BY <1>1 DEF Building, Standing
  <1>3. cur' = elems[n + 1]
    BY <1>1, <1>2, Neighbours
  <1>4. Resting'
    BY <1>1, <1>2, <1>3 DEF Resting, Building, Begins
  <1>5. elem \in Elems /\ cur' = elem
    BY <1>1, <1>2, <1>3
  <1>6. /\ len' \in Nat
        /\ ~ Truncated(elem) => len' = len
    BY <1>5, NlaLenIs DEF TypeOK
  <1>7. NestFits'
    BY <1>5, <1>6 DEF NestFits, Truncated
  <1>8. TypeOK' /\ NoneTwice'
    BY <1>1, <1>5, <1>6 DEF TypeOK, NoneTwice, Phases
  <1> QED BY <1>4, <1>7, <1>8

\* The two ways to return 0, and the end of the iterator.
LEMMA EndIInv ==
    ASSUME DumpIInv, build_empty \/ build_end \/ iter_destroy
    PROVE  DumpIInv'
  <1>1. CASE build_empty
    <2>1. elems = <<>> /\ Resting /\ TypeOK /\ NestFits /\ NoneTwice
      BY <1>1 DEF DumpIInv, build_empty
    <2>2. cur = NULL /\ out = <<>>
      BY <2>1 DEF Resting, TypeOK
    <2>3. NestFits'
      BY <1>1, <2>1, <2>2, DumpAssumption DEF build_empty, NestFits, Truncated
    <2>4. TypeOK' /\ NoneTwice' /\ Begins(out)'
      BY <1>1, <2>1, <2>2 DEF build_empty, TypeOK, NoneTwice, Phases, Begins
    <2> QED BY <1>1, <2>3, <2>4 DEF DumpIInv, build_empty
  <1>2. CASE build_end
    BY <1>2 DEF DumpIInv, build_end, TypeOK, NestFits, Truncated, NoneTwice, Phases, Building, Begins
  <1>3. CASE iter_destroy
    BY <1>3, DumpAssumption
       DEF DumpIInv, iter_destroy, TypeOK, NestFits, Truncated, NoneTwice, Phases
  <1> QED BY <1>1, <1>2, <1>3

\* Every step of the builder and every added element keep the invariant.
LEMMA DumpNextIInv == DumpIInv /\ [DumpNext]_dumpVars => DumpIInv'
  <1> SUFFICES ASSUME DumpIInv, [DumpNext]_dumpVars PROVE DumpIInv'
    OBVIOUS
  <1>1. CASE UNCHANGED dumpVars
    BY <1>1 DEF dumpVars, DumpIInv, TypeOK, NestFits, Truncated, NoneTwice, Resting, Building, Standing,
                Node, Begins
  <1>2. CASE DumpNext
    BY <1>2, AddIInv, CreateIInv, StartIInv, ElemIInv, OverflowIInv, EndIInv
       DEF DumpNext, build
  <1> QED BY <1>1, <1>2

-------------------------------------------------------------------------------

\* The type invariant, for any elements: the cursor is an element, the list
\* head or NULL, and what the loop is about to write is never the list head
\* (set_elem.c:843-858).
THEOREM DumpTypeCorrect == DumpSpec => []TypeOK
  <1>1. DumpIInv => TypeOK
    BY DEF DumpIInv
  <1> QED BY <1>1, DumpInitIInv, DumpNextIInv, PTL DEF DumpSpec

\* A list nest is longer than its 16-bit length can say only because the nest
\* of an element is too, and then of its last element or of the one just
\* refused, whatever the sizes of the elements (set_elem.c:875-917).
THEOREM NestsFit == DumpSpec => []NestFits
  <1>1. DumpIInv => NestFits
    BY DEF DumpIInv
  <1> QED BY <1>1, DumpInitIInv, DumpNextIInv, PTL DEF DumpSpec

\* However elements are appended and wherever messages overflow, what was
\* written is a beginning of the set (set_elem.c:843-918).
THEOREM DumpsAreExact == DumpSpec => []DumpExact
  <1>1. DumpIInv => DumpExact
    <2> SUFFICES ASSUME DumpIInv PROVE DumpExact
      OBVIOUS
    <2>1. elems \in Seq(Elems) /\ out \in Seq(Elems) /\ nest \in Seq(Elems)
      BY DEF DumpIInv, TypeOK
    <2>2. Written \in Seq(Elems) /\ Begins(Written)
      BY <2>1 DEF DumpIInv, Written, TypeOK, Phases, Resting, Building, Begins
    <2>3. Written = SubSeq(elems, 1, Len(Written))
      BY <2>1, <2>2 DEF Begins
    <2> QED BY <2>2, <2>3 DEF DumpExact, Begins
  <1> QED BY <1>1, DumpInitIInv, DumpNextIInv, PTL DEF DumpSpec

\* When the builder returns 0 every element of the set is out, but for an
\* iterator that was created while the set was empty (set_elem.c:834, 917).
THEOREM DumpsAreComplete == DumpSpec => DumpComplete
  <1> DEFINE Complete == pc # "done" /\ pc' = "done" => out' = elems' \/ cur = NULL
  <1>1. DumpIInv /\ [DumpNext]_dumpVars => [Complete]_dumpVars
    <2> SUFFICES ASSUME DumpIInv, DumpNext, pc # "done", pc' = "done"
                 PROVE  out' = elems' \/ cur = NULL
      BY DEF dumpVars
    <2>1. elems \in Seq(Elems) /\ out \in Seq(Elems) /\ nest \in Seq(Elems)
      BY DEF DumpIInv, TypeOK
    <2>2. CASE build_empty
      BY <2>1, <2>2 DEF DumpIInv, build_empty, Resting
    <2>3. CASE build_end
      <3>1. /\ out' = out \o nest /\ elems' = elems
            /\ Begins(out \o nest) /\ Standing(Len(out) + Len(nest))
        BY <2>3 DEF build_end, DumpIInv, Building
      <3>2. CASE cur = NULL
        BY <3>2
      <3>3. CASE cur # NULL
        <4>1. Len(out) + Len(nest) = Len(elems)
          BY <2>3, <3>1, <3>3 DEF Standing, build_end
        <4>2. Len(out \o nest) = Len(elems) /\ out \o nest \in Seq(Elems)
          BY <2>1, <4>1
        <4>3. \A i \in 1 .. Len(elems) : (out \o nest)[i] = elems[i]
          BY <3>1, <4>2 DEF Begins
        <4> HIDE DEF Complete
        <4> QED BY <2>1, <3>1, <4>2, <4>3, SeqEqual
      <3> QED BY <3>2, <3>3
    <2> QED
      BY <2>2, <2>3 DEF DumpNext, build, elem_add, iter_create, iter_destroy,
                        build_start, build_elem, build_overflow
  <1> QED BY <1>1, DumpInitIInv, DumpNextIInv, PTL DEF DumpSpec, DumpComplete

-------------------------------------------------------------------------------
(* The refinement of ElemStream, but for its fairness.                     *)

\* A beginning of the set is what Send of ElemStream sends.
LEMMA BeginsIsSubSeq ==
    ASSUME elems \in Seq(Elems), NEW s \in Seq(Elems), Begins(s)
    PROVE  s = SubSeq(elems, 1, Len(s))
  BY DEF Begins

\* A message that is complete: with the next elements, or with none because
\* the iterator sees none or every message refuses the next element.
LEMMA MessageIsSend ==
    ASSUME DumpIInv, build_overflow \/ build_end
    PROVE  Abs!Send \/ Abs!SendNone \/ UNCHANGED Abs!vars
  <1>1. /\ elems \in Seq(Elems) /\ out \in Seq(Elems) /\ nest \in Seq(Elems)
        /\ pc = "build" /\ Building
        /\ out' = out \o nest /\ elems' = elems
    BY DEF DumpIInv, TypeOK, build_overflow, build_end
  <1>2. /\ out' \in Seq(Elems) /\ Len(out') = Len(out) + Len(nest)
        /\ Len(out') <= Len(elems)
        /\ out' = SubSeq(elems, 1, Len(out'))
    BY <1>1, BeginsIsSubSeq DEF Building, Begins
  <1>3. ASSUME Len(nest) > 0, cur # NULL, cur' # NULL,
               pc' = "idle" \/ (pc' = "done" /\ out' = elems')
        PROVE  Abs!Send
    <2>1. PICK n \in Len(out) + 1 .. Len(elems) : n = Len(out')
      BY <1>1, <1>2, <1>3
    <2>2. out' = SubSeq(elems, 1, n)
      BY <1>2, <2>1
    <2>3. ASSUME NEW i \in Len(out) + 1 .. n
          PROVE  elems[i] \notin {e \in Elems : Oversize(e)}
      <3>1. i - Len(out) \in DOMAIN nest /\ elems[i] = nest[i - Len(out)]
        BY <1>1, <1>2, <2>1 DEF Building, Begins
      <3> QED BY <1>1, <3>1 DEF Building
    <2> QED BY <1>1, <1>3, <2>2, <2>3 DEF Phase, Abs!Send
  <1>4. CASE build_overflow
    <2>1. /\ elem # NULL /\ elem \in Elems /\ Overflow(elem) /\ pc' = "idle"
          /\ cur' = PrevOf(cur)
      BY <1>4 DEF build_overflow, DumpIInv, TypeOK
    <2>3. PICK n \in Nat : n = Len(out) + Len(nest)
      BY <1>1
    <2>4. n < Len(elems) /\ cur = Node(n + 2)
      BY <1>1, <2>1, <2>3 DEF Building, Standing
    <2>5. PrevOf(cur) = elems[n + 1] /\ cur # NULL
      <3>1. n + 2 \in 2 .. Len(elems) + 1 /\ (n + 2) - 1 = n + 1
        BY <1>1, <2>4
      <3>2. PrevOf(Node(n + 2)) = elems[(n + 2) - 1]
        BY <3>1, Neighbours DEF DumpIInv
      <3> QED BY <1>1, <2>4, <3>1, <3>2, DumpAssumption DEF Node
    <2>6. cur' # NULL
      BY <1>1, <2>1, <2>4, <2>5, DumpAssumption
    <2>7. CASE nest = <<>>
      BY <1>1, <2>1, <2>5, <2>6, <2>7 DEF Phase, Abs!vars
    <2>8. CASE nest # <<>>
      BY <1>1, <1>3, <2>1, <2>5, <2>6, <2>8
    <2> QED BY <2>7, <2>8
  <1>5. CASE build_end
    <2>1. elem = NULL /\ pc' = "done" /\ cur' = cur
      BY <1>5 DEF build_end
    <2>2. CASE cur = NULL
      <3>1. Len(out) + Len(nest) = 0 \/ Len(out) + Len(nest) = Len(elems)
        BY <1>1, <2>1 DEF Building, Standing
      <3>2. elems # <<>> /\ elems[1] # NULL
        BY <1>1, DumpAssumption DEF Building
      <3>3. out = <<>> /\ nest = <<>>
        BY <1>1, <2>1, <2>2, <3>2 DEF Building, Standing
      <3> QED BY <1>1, <2>1, <2>2, <3>3 DEF Phase, Abs!SendNone
    <2>3. CASE cur # NULL
      <3>1. Len(out) + Len(nest) = Len(elems) /\ Len(out) < Len(elems)
        BY <1>1, <2>1, <2>3 DEF Building, Standing
      <3>2. out' = elems'
        <4>1. \A i \in 1 .. Len(elems) : out'[i] = elems[i]
          BY <1>1, <1>2, <3>1 DEF Building, Begins
        <4> QED BY <1>1, <1>2, <3>1, <4>1, SeqEqual
      <3> QED BY <1>1, <1>3, <2>1, <2>3, <3>1, <3>2
    <2> QED BY <2>2, <2>3
  <1> QED BY <1>4, <1>5

\* While the loop runs, the caller sees nothing.
LEMMA LoopIsStutter ==
    ASSUME DumpIInv, build_start \/ build_elem
    PROVE  UNCHANGED Abs!vars
  <1>1. cur = NULL <=> cur' = NULL
    <2>1. elems \in Seq(Elems) /\ elems # <<>>
      BY DEF DumpIInv, TypeOK, Building, build_start, build_elem
    <2>2. PICK k \in Nat : cur = NULL \/ (k \in 1 .. Len(elems) + 1 /\ cur = Node(k))
      <3>1. CASE build_start
        BY <2>1, <3>1 DEF build_start, DumpIInv, Resting, Node, TypeOK
      <3>2. CASE build_elem
        <4>1. PICK n \in Nat : n = Len(out) + Len(nest)
          BY DEF DumpIInv, TypeOK
        <4>2. n < Len(elems) /\ cur = Node(n + 2)
          BY <3>2, <4>1 DEF build_elem, DumpIInv, Building, Standing
        <4> QED BY <2>1, <4>1, <4>2
      <3> QED BY <3>1, <3>2
    <2>3. iter_next
      BY DEF build_start, build_elem
    <2>4. CASE cur = NULL
      BY <2>3, <2>4 DEF iter_next
    <2>5. CASE cur # NULL
      <3>1. cur' = Node(k + 1) \/ cur' = elems[1]
        BY <2>1, <2>2, <2>3, <2>5, IterNext DEF DumpIInv
      <3> QED BY <2>1, <2>2, <2>5, <3>1, DumpAssumption DEF Node
    <2> QED BY <2>4, <2>5
  <1> QED BY <1>1 DEF Phase, Abs!vars, build_start, build_elem

\* Every step of the builder is one of the stream or none.
LEMMA StepOfStream ==
    ASSUME DumpIInv, [DumpNext]_dumpVars
    PROVE  [Abs!Next]_Abs!vars
  <1>1. ASSUME NEW e \in Elems, elem_add(e) PROVE Abs!Grow(e)
    BY <1>1 DEF elem_add, Phase, ToSet, Abs!Grow, Abs!ToSet
  <1>2. CASE iter_create
    <2>1. elems # <<>> => elems[1] # NULL
      BY DumpAssumption DEF DumpIInv, TypeOK
    <2> QED BY <1>2, <2>1 DEF iter_create, Phase, Abs!Next, Abs!Start, DumpIInv
  <1>3. CASE iter_destroy
    BY <1>3 DEF iter_destroy, Phase, Abs!Next, Abs!Stop
  <1>4. CASE build_empty
    <2>1. cur = NULL
      BY <1>4 DEF build_empty, DumpIInv, Resting, TypeOK
    <2> QED BY <1>4, <2>1 DEF build_empty, Phase, Abs!Next, Abs!SendNone
  <1>5. CASE build_start \/ build_elem
    BY <1>5, LoopIsStutter
  <1>6. CASE build_overflow \/ build_end
    BY <1>6, MessageIsSend DEF Phase, Abs!Next
  <1>7. CASE UNCHANGED dumpVars
    BY <1>7 DEF dumpVars, Phase, Abs!vars
  <1> QED BY <1>1, <1>2, <1>3, <1>4, <1>5, <1>6, <1>7 DEF DumpNext, build, Phase, Abs!Next

\* Each call is a step of ElemStream or none: a message carries the next
\* elements, at least one of them unless the next is one that its nla_len makes
\* too long for any message, and elements appended meanwhile come in order
\* (set_elem.c:851-918).  An element that wraps to a short nla_len goes out like
\* a short one.  That the dump ends is left to the run.
THEOREM DumpIsStream == DumpSpec => Abs!Init /\ [][Abs!Next]_Abs!vars
  <1>1. DumpInit => Abs!Init
    BY DEF DumpInit, Phase, Abs!Init
  <1>2. DumpIInv /\ [DumpNext]_dumpVars => [Abs!Next]_Abs!vars
    BY StepOfStream
  <1> QED BY <1>1, <1>2, DumpInitIInv, DumpNextIInv, PTL DEF DumpSpec

-------------------------------------------------------------------------------
(* An element that every message refuses.                                  *)

\* The cursor is at such an element, or the loop about to write it into an
\* empty nest.
Stuck ==
    \/ pc = "idle" /\ cur \in Elems /\ Oversize(cur)
    \/ pc = "build" /\ nest = <<>> /\ elem \in Elems /\ Oversize(elem)

\* Once the dump is stuck at such an element, no step gets it past.
LEMMA StuckStays ==
    ASSUME DumpIInv, Stuck, [DumpNext]_dumpVars
    PROVE  Stuck'
  <1> USE DumpAssumption
  <1>1. elems \in Seq(Elems) /\ out \in Seq(Elems) /\ nest \in Seq(Elems)
    BY DEF DumpIInv, TypeOK
  <1>2. CASE build_start
    <2>1. /\ Len(out) + 1 \in 1 .. Len(elems) + 1 /\ Len(out) + 1 <= Len(elems)
          /\ cur = elems[Len(out) + 1] /\ Oversize(cur)
      BY <1>1, <1>2 DEF build_start, Stuck, DumpIInv, Resting
    <2>2. elem' = cur
      BY <1>1, <1>2, <2>1, IterNext DEF build_start, DumpIInv, Node
    <2> QED BY <1>1, <1>2, <2>1, <2>2 DEF build_start, Stuck, Oversize
  <1>3. CASE build_overflow
    <2>1. /\ pc = "build" /\ elem \in Elems /\ elem # NULL /\ Oversize(elem)
          /\ cur' = PrevOf(cur) /\ pc' = "idle" /\ Building
      BY <1>3 DEF build_overflow, Stuck, DumpIInv
    <2>2. PICK n \in Nat : n = Len(out) + Len(nest)
      BY <1>1
    <2>3. n < Len(elems) /\ elem = elems[n + 1] /\ cur = Node(n + 2)
      BY <1>1, <2>1, <2>2 DEF Building, Standing
    <2>4. n + 2 \in 2 .. Len(elems) + 1 /\ (n + 2) - 1 = n + 1
      BY <1>1, <2>3
    <2>5. cur' = elem
      BY <2>1, <2>3, <2>4, Neighbours DEF DumpIInv
    <2> QED BY <2>1, <2>5 DEF Stuck, Oversize
  <1>4. ~ build_elem /\ ~ build_end /\ ~ build_empty
    BY <1>1 DEF build_elem, build_end, build_empty, Stuck, DumpIInv, Resting, Building,
                Overflow, Oversize
  <1>5. CASE \E e \in Elems : elem_add(e)
    BY <1>5 DEF elem_add, Stuck, Oversize
  <1>6. ~ iter_create /\ ~ iter_destroy
    BY DEF iter_create, iter_destroy, Stuck
  <1>7. CASE UNCHANGED dumpVars
    BY <1>7 DEF dumpVars, Stuck, Oversize
  <1> QED BY <1>2, <1>3, <1>4, <1>5, <1>6, <1>7 DEF DumpNext, build

\* Once the dump has come to an element whose nla_len does not fit beside the
\* header of the list, no sequence of calls gets past it or makes the builder
\* return 0 (set_elem.c:875, 905-912).
THEOREM OversizeStallsForever == DumpSpec => OversizeStalls
  <1>1. pc = "idle" /\ cur \in Elems /\ Oversize(cur) => Stuck
    BY DEF Stuck
  <1>2. Stuck => pc \in {"idle", "build"}
    BY DEF Stuck
  <1>3. DumpIInv /\ Stuck /\ [DumpNext]_dumpVars => Stuck'
    BY StuckStays
  <1> QED BY <1>1, <1>2, <1>3, DumpInitIInv, DumpNextIInv, PTL DEF DumpSpec, OversizeStalls
================================================================================

------------------------------- MODULE ElemData -------------------------------
(***************************************************************************)
(* The data of a set element: a value, or a verdict with the chain it goes *)
(* to.  They share one union (include/data_reg.h):                         *)
(*                                                                         *)
(*     word       0         1      2 and 3      4        16                *)
(*     value     val[0]   val[1]   val[2,3]   val[4]..   len               *)
(*     verdict   verdict    -       chain     chain_id                     *)
(*                                                                         *)
(* and the flags of the element are all that tells what is in there.  The  *)
(* words that matter are 0 (first), 2 and 3 (ptr), and len.  The program   *)
(* sets and unsets the three attributes in any order, reads the chain,     *)
(* sends elements, one after the other in a list, and releases them; a     *)
(* reader parses the list.                                                 *)
(*                                                                         *)
(* Lengths are in words; one of more than 16 words, which the setter does  *)
(* not refuse, is not set.  Names of chains can always be allocated: see   *)
(* ObjectMemory for what happens if not.                                   *)
(***************************************************************************)
EXTENDS Naturals, Sequences, FiniteSets, SequencesExt

CONSTANTS Chains,     \* names of chains
          Codes,      \* codes of verdicts
          Values,     \* values, named by what their first word is as a verdict
          Lengths,    \* lengths of values, in words
          Addresses,  \* where a name can be
          MaxElems    \* elements in a message

Jumps == {"JUMP", "GOTO"}
BoundAssumption ==
  /\ "DROP" \in Codes /\ Jumps \cap Codes # {} /\ "NULL" \notin Addresses
  /\ Addresses \cap Values = {} /\ "none" \notin Chains /\ Lengths \subseteq 0..16
  /\ MaxElems \in Nat \ {0}

VARIABLES
  mine,    \* the element of the program
  heap,    \* the names that are allocated, by address
  msg,     \* the list that is sent
  theirs,  \* the elements of the reader
  result,  \* what the parser told
  fault,   \* an address was used that is none
  torn,    \* attributes of mine with a later one stored over them
  fields,  \* what each was set to
  lost,    \* a value has been stored over an address
  sent     \* for each element of the list what mine, torn and fields were

vars == <<mine, heap, msg, theirs, result, fault, torn, fields, lost, sent>>

Attrs == {"VERDICT", "CHAIN", "DATA"}
\* calloc: the verdict is 0, which is NF_DROP.
New == [flags |-> {}, first |-> "DROP", ptr |-> "NULL", len |-> 0]
NoFields == [VERDICT |-> "DROP", CHAIN |-> "NULL", DATA |-> <<"DROP", 0>>]

Init ==
  /\ mine = New /\ heap = <<>> /\ msg = <<>> /\ theirs = <<>>
  /\ result = "none" /\ fault = FALSE
  /\ torn = {} /\ fields = NoFields /\ lost = FALSE /\ sent = <<>>

Live    == DOMAIN heap
Without(h, p) == [q \in DOMAIN h \ {p} |-> h[q]]
\* What a value of n words is stored over.
Hit(n)  == (IF n > 0 THEN {"VERDICT"} ELSE {}) \cup (IF n > 2 THEN {"CHAIN"} ELSE {})
Flag(x, a) == [x EXCEPT !.flags = @ \cup {a}]

\* The program sends up to MaxElems elements, and then the reader reads them.
Working == ~fault /\ theirs = <<>> /\ result = "none" /\ Len(msg) < MaxElems
Meant(a, v, hit) ==
  /\ fields' = [fields EXCEPT ![a] = v]
  /\ torn' = (torn \ {a}) \cup (hit \cap mine.flags)
Forgotten(a) ==
  /\ fields' = [fields EXCEPT ![a] = NoFields[a]]
  /\ torn' = torn \ {a}
Remote == <<msg, theirs, result, sent>>

-----------------------------------------------------------------------------
(* nftnl_set_elem_set, unset, get *)

set_verdict(c) ==
  /\ Working
  /\ mine' = Flag([mine EXCEPT !.first = c], "VERDICT")
  /\ Meant("VERDICT", c, IF mine.len > 0 THEN {"DATA"} ELSE {})
  /\ UNCHANGED <<heap, fault, lost>> /\ UNCHANGED Remote

set_chain(c) ==
  /\ Working
  /\ LET frees == "CHAIN" \in mine.flags
         rest  == IF frees THEN Without(heap, mine.ptr) ELSE heap IN
     \E p \in Addresses \ DOMAIN rest :
       /\ mine' = Flag([mine EXCEPT !.ptr = p], "CHAIN")
       /\ heap' = [q \in DOMAIN rest \cup {p} |-> IF q = p THEN c ELSE rest[q]]
       /\ fault' = (frees /\ mine.ptr \notin Live)
  /\ Meant("CHAIN", c, IF mine.len > 2 THEN {"DATA"} ELSE {})
  /\ UNCHANGED lost /\ UNCHANGED Remote

set_data(v, n) ==
  /\ Working
  /\ mine' = Flag([mine EXCEPT !.first = IF n > 0 THEN v ELSE @,
                               !.ptr = IF n > 2 THEN v ELSE @,
                               !.len = n], "DATA")
  /\ Meant("DATA", <<v, n>>, Hit(n))
  /\ lost' = (lost \/ (n > 2 /\ "CHAIN" \in mine.flags))
  /\ UNCHANGED <<heap, fault>> /\ UNCHANGED Remote

unset(a) ==
  /\ Working
  /\ a \in mine.flags
  /\ mine' = [mine EXCEPT !.flags = @ \ {a}]
  /\ heap' = IF a = "CHAIN" THEN Without(heap, mine.ptr) ELSE heap
  /\ fault' = (a = "CHAIN" /\ mine.ptr \notin Live)
  /\ Forgotten(a)
  /\ UNCHANGED lost /\ UNCHANGED Remote

\* The length of the name is taken.
get_chain ==
  /\ Working
  /\ "CHAIN" \in mine.flags /\ mine.ptr \notin Live
  /\ fault' = TRUE
  /\ UNCHANGED <<mine, heap, torn, fields, lost>> /\ UNCHANGED Remote

-----------------------------------------------------------------------------
(* nftnl_set_elem_nlmsg_build_payload: one nest for a verdict, and one for  *)
(* a value.  Of two the reader takes the last.                              *)

NoChain == "none"
Verdict(code, chain) == [is |-> "verdict", word |-> code, rest |-> chain, len |-> 0]
Value(x) == [is |-> "value", word |-> x.first,
             rest |-> IF x.len > 2 THEN x.ptr ELSE "NULL", len |-> x.len]
Nothing  == [is |-> "nothing", word |-> "DROP", rest |-> "NULL", len |-> 0]

\* Mutant: a verdict is preferred to a value.
Build_verdict(x) ==
  IF "VERDICT" \in x.flags
  THEN Verdict(x.first, IF "CHAIN" \in x.flags /\ x.ptr \in Live THEN heap[x.ptr]
                        ELSE NoChain)
  ELSE IF "DATA" \in x.flags THEN Value(x)
  ELSE Nothing
Build(x) ==
  IF "DATA" \in x.flags THEN Value(x)
  ELSE IF "VERDICT" \in x.flags
  THEN Verdict(x.first, IF "CHAIN" \in x.flags /\ x.ptr \in Live THEN heap[x.ptr]
                        ELSE NoChain)
  ELSE Nothing

\* The name of the chain is read, and the element released.
send ==
  /\ Working
  /\ fault' = ("CHAIN" \in mine.flags /\ mine.ptr \notin Live)
  /\ msg' = Append(msg, Build(mine))
  /\ heap' = IF "CHAIN" \in mine.flags THEN Without(heap, mine.ptr) ELSE heap
  /\ mine' = New /\ torn' = {} /\ fields' = NoFields
  /\ sent' = Append(sent, [flags |-> mine.flags, torn |-> torn, fields |-> fields])
  /\ UNCHANGED <<theirs, result, lost>>

-----------------------------------------------------------------------------
(* The reader: nftnl_set_elems_parse, parse2, nftnl_parse_data and           *)
(* nftnl_parse_verdict, whose table of attributes is not initialised: the   *)
(* chain of a jump without one is what the stack holds there, perhaps what  *)
(* an earlier verdict left.                                                 *)

Got(flags, x)  == [flags |-> flags, word |-> x.word, chain |-> x.rest, len |-> x.len]
Fails == [flags |-> {"fails"}, word |-> "DROP", chain |-> "NULL", len |-> 0]
Wild  == [Fails EXCEPT !.flags = {"wild"}]
Jump(x, chain) == Got({"VERDICT", "CHAIN"}, [x EXCEPT !.rest = chain])
LeftBy(before) == {y.rest : y \in {z \in Range(before) :
                                     z.is = "verdict" /\ z.rest # NoChain}}

ParseVerdict(x, before) ==
  IF x.word \notin Codes THEN {Fails}
  ELSE IF x.word \notin Jumps THEN {Got({"VERDICT"}, [x EXCEPT !.rest = "NULL"])}
  ELSE IF x.rest # NoChain THEN {Jump(x, x.rest)}
  ELSE {Fails, Wild} \cup {Jump(x, c) : c \in LeftBy(before)}

ParseElem(x, before) ==
  CASE x.is = "verdict" -> ParseVerdict(x, before)
    [] x.is = "value"   -> IF x.len = 0 THEN {Fails} ELSE {Got({"DATA"}, x)}
    [] OTHER            -> {Got({}, x)}

\* One step for each element: the first that fails ends it, and those before stay.
parse ==
  /\ ~fault /\ result = "none" /\ mine = New /\ Len(theirs) < Len(msg)
  /\ LET i == Len(theirs) + 1 IN
     \E e \in ParseElem(msg[i], SubSeq(msg, 1, i - 1)) :
       /\ theirs' = IF e.flags \cap {"fails", "wild"} = {} THEN Append(theirs, e)
                    ELSE theirs
       /\ result' = IF e = Fails THEN "fails" ELSE IF e = Wild THEN "wild"
                    ELSE IF i = Len(msg) THEN "ok" ELSE "none"
  /\ UNCHANGED <<mine, heap, msg, fault, torn, fields, lost, sent>>

\* Both begin again.
renew ==
  /\ fault \/ result # "none"
  /\ mine' = New /\ heap' = <<>> /\ msg' = <<>> /\ theirs' = <<>>
  /\ result' = "none" /\ fault' = FALSE
  /\ torn' = {} /\ fields' = NoFields /\ lost' = FALSE /\ sent' = <<>>

Next ==
  \/ \E c \in Codes : set_verdict(c)
  \/ \E c \in Chains : set_chain(c)
  \/ \E v \in Values, n \in Lengths : set_data(v, n)
  \/ \E a \in Attrs : unset(a)
  \/ get_chain
  \/ send
  \/ parse
  \/ renew

Spec == Init /\ [][Next]_vars

-----------------------------------------------------------------------------
(* Properties *)

Words == Codes \cup Values

\* The shape of what is kept, sent and read: of a value, the words; of a chain,
\* never an address.
TypeOK ==
  /\ mine.flags \subseteq Attrs /\ mine.first \in Words
  /\ mine.ptr \in Addresses \cup Values \cup {"NULL"} /\ mine.len \in Lengths \cup {0}
  /\ Live \subseteq Addresses /\ \A p \in Live : heap[p] \in Chains
  /\ torn \subseteq mine.flags
  /\ Len(sent) = Len(msg) /\ Len(theirs) <= Len(msg)
  /\ \A i \in DOMAIN theirs : "CHAIN" \in theirs[i].flags =>
       "VERDICT" \in theirs[i].flags /\ theirs[i].chain \in Chains

\* What is set, and was not stored over by a later attribute, is what it was set
\* to: the union is as good as a field for each.
LikeFields ==
  ~fault => \A a \in mine.flags \ torn :
    CASE a = "VERDICT" -> mine.first = fields.VERDICT
      [] a = "CHAIN"   -> mine.ptr \in Live /\ heap[mine.ptr] = fields.CHAIN
      [] a = "DATA"    -> /\ mine.len = fields.DATA[2]
                          /\ mine.len > 0 => mine.first = fields.DATA[1]
                          /\ mine.len > 2 => mine.ptr = fields.DATA[1]

\* Only a value of three words or more, set on an element that has a chain, makes
\* a later operation, the release included, use an address that is none: even
\* when the value has been unset in between.
NoFault == fault => lost

\* Every name that is allocated is the chain of the element, unless a value was
\* stored over its address.
NoLeak == ~lost => Live = (IF "CHAIN" \in mine.flags THEN {mine.ptr} ELSE {})

\* What becomes of an element: a value goes before a verdict, a chain goes with
\* a jump only, and a chain alone is not sent.
Arrived(x, y) ==
  CASE "DATA" \in x.flags ->
         /\ y.flags = {"DATA"} /\ y.len = x.fields.DATA[2]
         /\ "DATA" \notin x.torn => /\ y.word = x.fields.DATA[1]
                                    /\ y.len > 2 => y.chain = x.fields.DATA[1]
    [] x.flags \in {{"VERDICT"}, {"VERDICT", "CHAIN"}} ->
         IF "VERDICT" \in x.torn THEN y.word \in Codes
         ELSE /\ y.word = x.fields.VERDICT
              /\ IF x.fields.VERDICT \in Jumps
                 THEN /\ y.flags = {"VERDICT", "CHAIN"}
                      /\ "CHAIN" \notin x.flags \/ y.chain = x.fields.CHAIN
                 ELSE y.flags = {"VERDICT"}
    [] OTHER -> y.flags = {}
Arrives == \A i \in DOMAIN theirs : Arrived(sent[i], theirs[i])

\* The list is refused, or the process broken, only for a value of no length, a
\* jump without a chain, or a word that is no verdict where a value was stored
\* over it.
BadElem(x) ==
  \/ "DATA" \in x.flags /\ x.fields.DATA[2] = 0
  \/ /\ "VERDICT" \in x.flags /\ "DATA" \notin x.flags
     /\ "VERDICT" \in x.torn \/ (x.fields.VERDICT \in Jumps /\ "CHAIN" \notin x.flags)
Refused ==
  /\ result = "fails" => BadElem(sent[Len(theirs) + 1])
  /\ result = "wild" => LET x == sent[Len(theirs) + 1] IN
       {"VERDICT"} = x.flags \cap {"VERDICT", "DATA"} /\ "CHAIN" \notin x.flags
=============================================================================

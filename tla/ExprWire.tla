------------------------------ MODULE ExprWire ------------------------------
(***************************************************************************)
(* An expression of any type on its way through a message: the program     *)
(* sets attributes, builds the message, and a reader (another process with *)
(* the same library) parses it into a new expression.  ExprTables says what*)
(* each type does; here is what the attributes mean as bytes, and the three*)
(* places where a type has more than a table: the union of verdict and data*)
(* (immediate), the list of expressions (dynset), and strings without an   *)
(* end (objref).                                                           *)
(*                                                                         *)
(* A value is the sequence of its bytes in memory, least significant first.*)
(* Lengths the library never checks are kept by the program: data fits a   *)
(* register, a name of a match its array.                                  *)
(***************************************************************************)
EXTENDS ExprTables, SequencesExt, FiniteSets, Integers

CONSTANTS
  MaxSet,      \* calls of the setter
  MaxExprs     \* expressions in a dynset
ASSUME BoundsAssumption == MaxSet \in Nat \ {0} /\ MaxExprs \in Nat \ {0}

VARIABLES
  kind,      \* the type of the expression
  e,         \* the expression of the program
  msg,       \* the message: attribute number to payload, or None
  got        \* what the reader has: a result, and the new expression

vars == <<kind, e, msg, got>>

None  == [in |-> "nothing"]
Kinds == DOMAIN ops
Fields(k) == DOMAIN ops[k].set
Number(enum, a) == CHOOSE n \in DOMAIN enum : enum[n] = a

Width == [u8 |-> 1, u16 |-> 2, u32 |-> 4, u64 |-> 8,
          U8 |-> 1, U16 |-> 2, U32 |-> 4, U64 |-> 8,
          be16 |-> 2, be32 |-> 4, be64 |-> 8, nonzero |-> 4]
Zeros(n) == [i \in 1..n |-> 0]
Resize(v, n) == [i \in 1..n |-> IF i <= Len(v) THEN v[i] ELSE 0]

\* Verdict codes: NF_ACCEPT goes on its own, NFT_JUMP needs a chain, NF_STOLEN
\* is none the parser knows.
Accept == <<1, 0, 0, 0>>
Stolen == <<2, 0, 0, 0>>
Jump   == <<253, 255, 255, 255>>

\* A new expression is zeroed.
Blank(k, a) ==
  LET field == ops[k].set[a] IN
    IF field \in DOMAIN Width THEN Zeros(Width[field]) ELSE <<>>
New(k) == [flags |-> {}, val |-> [a \in Fields(k) |-> Blank(k, a)],
           list |-> <<>>]

\* A field is kept with its bit.
With(x, a, v) ==
  [flags |-> x.flags \cup {a}, val |-> [x.val EXCEPT ![a] = v],
   list |-> x.list]

Values(k, a) ==
  LET field == ops[k].set[a] IN
    CASE a = "VERDICT"           -> {Accept, Stolen, Jump}
      [] field = "name"          -> {<<>>, <<7, 7, 7>>, <<7, 7, 7, 7>>}
      [] field \in {"data", "info"} -> {<<>>, <<1, 2, 3, 4>>}
      [] OTHER -> {Zeros(Width[field]), [i \in 1..Width[field] |-> i]}

Init ==
  /\ kind \in Kinds
  /\ e = New(kind)
  /\ msg = None
  /\ got = [result |-> "none", e |-> New(kind)]

-----------------------------------------------------------------------------
(* The program *)

\* nftnl_expr_set.  Attributes outside Fields are refused (or, by osf and
\* synproxy, taken and dropped) and change no field.  Data and verdict of an
\* immediate share memory: "Sane configurations allows you to set ONLY one".
set(a, v) ==
  /\ msg = None
  /\ a \in Fields(kind) /\ v \in Values(kind, a)
  /\ a \in e.flags \/ Cardinality(e.flags) < MaxSet
  /\ a = "DATA" => e.flags \cap {"VERDICT", "CHAIN", "CHAIN_ID"} = {}
  /\ a \in {"VERDICT", "CHAIN", "CHAIN_ID"} => "DATA" \notin e.flags
  /\ e' = With(e, a, v)
  /\ UNCHANGED <<kind, msg, got>>

\* NFTNL_EXPR_DYNSET_EXPR on an empty list (on another it frees what stays
\* linked, see ObjectMemory), and nftnl_expr_add_expr, which sets no bit.
set_expr(x) ==
  /\ msg = None
  /\ kind = "dynset" /\ e.list = <<>>
  /\ e' = [e EXCEPT !.flags = @ \cup {"EXPR"}, !.list = <<x>>]
  /\ UNCHANGED <<kind, msg, got>>

add_expr(x) ==
  /\ msg = None
  /\ kind = "dynset" /\ Len(e.list) < MaxExprs
  /\ e' = [e EXCEPT !.list = Append(@, x)]
  /\ UNCHANGED <<kind, msg, got>>

-----------------------------------------------------------------------------
(* The builder.  A payload is bytes, or a nest of a data value, of a       *)
(* verdict, of one expression or of several.                               *)

Payload(in, is) == [in |-> in, is |-> is]

Encode(how, v) ==
  CASE how = "u8"   -> Payload("bytes", Resize(v, 1))
    [] how = "strz" -> Payload("bytes", Append(v, 0))
    [] how = "data" -> Payload("value", v)
    [] how \in {"be16", "be32", "be64", "nonzero"} ->
         Payload("bytes", Reverse(Resize(v, Width[how])))
    [] OTHER        -> Payload("bytes", v)          \* str, info

\* The data of an immediate.  A verdict takes along what is set beside it.
immediate_data(x) ==
  LET beside == {"CHAIN", "CHAIN_ID"} \cap x.flags IN
    CASE "DATA" \in x.flags ->
           [n \in {Number(abi.immediate, "DATA")} |->
              Payload("value", x.val["DATA"])]
      [] "DATA" \notin x.flags /\ "VERDICT" \in x.flags ->
           [n \in {Number(abi.immediate, "DATA")} |->
              Payload("verdict", [a \in {"VERDICT"} \cup beside |-> x.val[a]])]
      [] OTHER -> <<>>

\* The expressions of a dynset, by their number and not by a bit.
dynset_exprs(x) ==
  CASE Len(x.list) = 0 -> <<>>
    [] Len(x.list) = 1 ->
         [n \in {Number(abi.dynset, "EXPR")} |-> Payload("expr", x.list)]
    [] OTHER ->
         [n \in {Number(abi.dynset, "EXPRESSIONS")} |->
            Payload("exprs", x.list)]

Build(k, x) ==
  LET sent  == {p \in ops[k].build :
                  /\ p.attr \in x.flags
                  /\ p.how = "nonzero" => x.val[p.attr] # Zeros(4)}
      nr(p) == Number(IF p.by = "abi" THEN abi[k] ELSE api[k], p.nla)
      table == [n \in {nr(p) : p \in sent} |->
                  LET p == CHOOSE p \in sent : nr(p) = n
                  IN  Encode(p.how, x.val[p.attr])]
      more  == CASE k = "immediate" -> immediate_data(x)
                 [] k = "dynset"    -> dynset_exprs(x)
                 [] OTHER           -> <<>>
  IN  table ++ more

build ==
  /\ msg = None
  /\ msg' = [in |-> "message", attrs |-> Build(kind, e)]
  /\ UNCHANGED <<kind, e, got>>

-----------------------------------------------------------------------------
(* The reader *)

\* mnl_attr_validate
Valid(type, p) ==
  CASE type \in DOMAIN Width -> p.in = "bytes" /\ Len(p.is) = Width[type]
    [] type = "STRING"       -> p.is # <<>>
    [] type = "NUL_STRING"   -> p.is # <<>> /\ p.is[Len(p.is)] = 0
    [] OTHER                 -> TRUE                 \* BINARY, NESTED

Breaks(k, m) ==
  \E a \in DOMAIN ops[k].cb :
    LET c == ops[k].cb[a]
        n == Number(IF c.by = "abi" THEN abi[k] ELSE api[k], a)
    IN  n \in DOMAIN m /\ ~Valid(c.type, m[n])

\* A string is read up to its NUL.  Without one it ends in the padding up to
\* the next multiple of 4, or else in what follows.
ReadString(bytes, follows) ==
  LET ends == {i \in 1..Len(bytes) : bytes[i] = 0}
  IN  IF ends # {} THEN SubSeq(bytes, 1, Min(ends) - 1)
      ELSE IF Len(bytes) % 4 # 0 THEN bytes ELSE bytes \o follows

Decode(how, p, field, follows) ==
  CASE how = "name" -> ReadString(p.is, follows)
    [] how \in {"be16", "be32", "be64"} ->
         Resize(Reverse(Resize(p.is, Width[how])), Width[field])
    [] OTHER        -> p.is                          \* u8, data, info

\* Mutant: the case of NF_ACCEPT is missing.
parse_verdict_noaccept(v) ==
  CASE v["VERDICT"] = Jump /\ "CHAIN" \in DOMAIN v ->
         {[result |-> "ok", chain |-> <<v["CHAIN"]>>]}
    [] OTHER -> {[result |-> "refused"]}

\* nftnl_parse_verdict, what it leaves in flags and fields, or why it stops.
\* The attributes it looks up are those of the nest and, where there is none,
\* an uninitialised pointer: a jump without a chain is refused, or has any
\* chain at all, or is a fault.
parse_verdict(v) ==
  CASE v["VERDICT"] = Accept -> {[result |-> "ok", chain |-> <<>>]}
    [] v["VERDICT"] = Jump ->
         IF "CHAIN" \in DOMAIN v
         THEN {[result |-> "ok", chain |-> <<v["CHAIN"]>>]}
         ELSE {[result |-> "refused"], [result |-> "fault"],
               [result |-> "ok", chain |-> <<<<9>>>>]}
    [] OTHER -> {[result |-> "refused"]}

immediate_read(x, m) ==
  LET n == Number(abi.immediate, "DATA")
      p == m[n]
      y == With(x, "VERDICT", p.is["VERDICT"])
      verdict(v) ==
        IF v.result # "ok" THEN [result |-> v.result, e |-> x]
        ELSE [result |-> "ok",
              e |-> IF v.chain = <<>> THEN y
                    ELSE With(y, "CHAIN", v.chain[1])]
  IN  CASE n \notin DOMAIN m -> {[result |-> "ok", e |-> x]}
        [] n \in DOMAIN m /\ p.in = "value" ->
             {[result |-> IF p.is = <<>> THEN "refused" ELSE "ok",
               e |-> With(x, "DATA", p.is)]}
        [] OTHER -> {verdict(v) : v \in parse_verdict(p.is)}

\* Mutant: every expression is linked at the head of the list.
dynset_read_front(x, m) ==
  LET many == Number(abi.dynset, "EXPRESSIONS")
      one  == Number(abi.dynset, "EXPR")
  IN  CASE one \in DOMAIN m ->
             [x EXCEPT !.flags = @ \cup {"EXPR"}, !.list = m[one].is]
        [] one \notin DOMAIN m /\ many \in DOMAIN m ->
             [x EXCEPT !.flags = @ \cup {"EXPRESSIONS"},
                       !.list = Reverse(m[many].is)]
        [] OTHER -> x

dynset_read(x, m) ==
  LET one  == Number(abi.dynset, "EXPR")
      many == Number(abi.dynset, "EXPRESSIONS")
  IN  CASE one \in DOMAIN m ->
             [x EXCEPT !.flags = @ \cup {"EXPR"}, !.list = m[one].is]
        [] one \notin DOMAIN m /\ many \in DOMAIN m ->
             [x EXCEPT !.flags = @ \cup {"EXPRESSIONS"}, !.list = m[many].is]
        [] OTHER -> x

\* The attributes of a message that its parser takes from the table.
Taken(k, m) == {t \in ops[k].parse : Number(abi[k], t.nla) \in DOMAIN m}

\* The value of a data attribute is refused if it is empty.  Of several, only
\* the last one parsed decides what the parser returns.
DataRefused(k, m) ==
  LET data == {Number(abi[k], t.nla) : t \in {t \in Taken(k, m) : t.how = "data"}}
  IN  data # {} /\ m[Max(data)].is = <<>>

FromTable(k, m, follows) ==
  LET taken == Taken(k, m)
      nr(t) == Number(abi[k], t.nla)
      bit(t) == IF t.by = "api" THEN {t.attr}
                ELSE {api[k][n] : n \in {nr(t)} \cap DOMAIN api[k]}
      val(a) == LET t == CHOOSE t \in taken : t.attr = a
                IN  Decode(t.how, m[nr(t)], ops[k].set[a], follows)
      given  == {t.attr : t \in taken}
  IN  [flags |-> UNION {bit(t) : t \in taken},
       val   |-> [a \in Fields(k) |->
                    IF a \in given THEN val(a) ELSE Blank(k, a)],
       list  |-> <<>>]

Parse(k, m, follows) ==
  LET x == FromTable(k, m, follows) IN
    CASE Breaks(k, m)      -> {[result |-> "exit", e |-> New(k)]}
      [] k = "immediate" /\ ~Breaks(k, m) -> immediate_read(x, m)
      [] k = "dynset" /\ ~Breaks(k, m) ->
           {[result |-> "ok", e |-> dynset_read(x, m)]}
      [] OTHER -> {[result |-> IF DataRefused(k, m) THEN "refused" ELSE "ok",
                    e |-> x]}

parse ==
  /\ msg # None /\ got.result = "none"
  /\ \E follows \in {<<>>, <<9>>} : got' \in Parse(kind, msg.attrs, follows)
  /\ UNCHANGED <<kind, e, msg>>

\* The reader lets go of what it has, and the program goes on.
discard ==
  /\ got.result # "none"
  /\ msg' = None /\ got' = [result |-> "none", e |-> New(kind)]
  /\ UNCHANGED <<kind, e>>

\* Or the reader becomes the program: it edits and sends on what it read.
forward ==
  /\ got.result = "ok"
  /\ e' = got.e
  /\ msg' = None /\ got' = [result |-> "none", e |-> New(kind)]
  /\ UNCHANGED kind

Next ==
  \/ \E a \in Fields(kind) : \E v \in Values(kind, a) : set(a, v)
  \/ \E x \in {"limit", "counter"} : set_expr(x)
  \/ \E x \in {"limit", "counter"} : add_expr(x)
  \/ build
  \/ parse
  \/ discard
  \/ forward

Spec == Init /\ [][Next]_vars

-----------------------------------------------------------------------------
(* Properties *)

\* An expression has bits only of its own type's attributes, and its integers
\* have the width of their fields.
Expression(x) ==
  /\ x.flags \subseteq ToSet(api[kind])
  /\ DOMAIN x.val = Fields(kind)
  /\ \A a \in Fields(kind) : ops[kind].set[a] \in DOMAIN Width =>
       DOMAIN x.val[a] = 1..Width[ops[kind].set[a]]
  /\ Len(x.list) <= MaxExprs
TypeOK ==
  /\ kind \in Kinds
  /\ Expression(e) /\ Expression(got.e)
  /\ msg = None \/ DOMAIN msg.attrs \subseteq DOMAIN abi[kind]
  /\ got.result \in {"none", "ok", "refused", "exit", "fault"}

\* No message this library builds makes a reader with the same library exit
\* (abi_breakage, utils.c:327), whatever the attributes set: the types that
\* each X_cb insists on are those that X_build writes.  One exception: an
\* object reference with an empty name is a string attribute of length 0.
NoExit ==
  got.result = "exit" =>
    /\ kind = "objref"
    /\ \E a \in {"IMM_NAME", "SET_NAME"} \cap e.flags : e.val[a] = <<>>

\* Where the reader runs into undefined behaviour: a jump without a chain
\* (data_reg.c:129), a name sent without its NUL and without padding
\* (objref.c:129).
Undefined ==
  \/ /\ kind = "immediate" /\ "VERDICT" \in e.flags
     /\ e.val["VERDICT"] = Jump /\ "CHAIN" \notin e.flags
  \/ /\ kind = "objref"
     /\ \E a \in {"IMM_NAME", "SET_NAME"} \cap e.flags : Len(e.val[a]) % 4 = 0

\* What a message does not carry: a zero that is left out (osf.c:96), a chain
\* beside a verdict that is no jump, a chain identifier (never read back);
\* the bits of a dynset's list follow its length.
Lost ==
  CASE kind = "osf" /\ e.val["FLAGS"] = Zeros(4) -> {"FLAGS"}
    [] kind = "immediate" -> {"CHAIN_ID"} \cup
         (IF "VERDICT" \in e.flags /\ e.val["VERDICT"] = Jump THEN {}
          ELSE {"CHAIN"})
    [] kind = "dynset"    -> {"EXPR", "EXPRESSIONS"}
    [] OTHER              -> {}
ListBit ==
  CASE Len(e.list) = 0 -> {}
    [] Len(e.list) = 1 -> {"EXPR"}
    [] OTHER           -> {"EXPRESSIONS"}

\* The reader has what the program set, nothing less and nothing more: the
\* same bits, and behind each the same value, through two numberings, four
\* functions and a change of byte order.
SameBits ==
  got.result = "ok" /\ ~Undefined =>
    /\ got.e.flags = (e.flags \ Lost) \cup ListBit
    /\ \A a \in got.e.flags \cap Fields(kind) : got.e.val[a] = e.val[a]
    /\ got.e.list = e.list
Exact == TypeOK /\ SameBits

\* The last of the data attributes, in the order they are parsed, is empty.
LastDataEmpty ==
  LET order == <<"MASK", "XOR", "FROM_DATA", "TO_DATA", "DATA">>
      given == {i \in 1..5 : /\ order[i] \in e.flags
                             /\ ops[kind].set[order[i]] = "data"}
  IN  given # {} /\ e.val[order[Max(given)]] = <<>>

\* A message is refused for two reasons and no other: a verdict the parser does
\* not know, and an empty data value that no other data value follows.  One
\* that is followed goes unnoticed, since the later result replaces the
\* earlier (bitwise.c:201, range.c:154).
Refused ==
  got.result # "none" /\ ~Undefined =>
    (got.result = "refused") =
      (\/ LastDataEmpty
       \/ /\ kind = "immediate" /\ "VERDICT" \in e.flags
          /\ e.val["VERDICT"] = Stolen)

\* What has been through a message once goes through unchanged ever after:
\* nothing is lost or gained by reading a rule and sending it on.
Settled ==
  got.result = "ok" => Parse(kind, Build(kind, got.e), <<>>) = {got}
=============================================================================

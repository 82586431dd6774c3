--------------------------- MODULE ExprWireProofs ---------------------------
(***************************************************************************)
(* Theorems about expressions on their way through a message.              *)
(*                                                                         *)
(* The proof separates the tables from their meaning.  TablesAgree is what *)
(* the four functions of one type must agree on: each field has one number *)
(* that the builder puts it under and the parser takes it from, as what it *)
(* was put, and that the callback insists on in no other form.  There is   *)
(* one lemma for each type and nothing else looks at the tables.           *)
(***************************************************************************)
EXTENDS ExprWire, SequenceTheorems, TLAPS

-----------------------------------------------------------------------------
(* What the tables of a type agree on                                      *)

Named(enum, a) == \E n \in DOMAIN enum : enum[n] = a

\* A field of some width can be sent in this way,
Fits(how, field) ==
  \/ how = "u8" /\ field = "u8"
  \/ how = "be16" /\ field = "u16"
  \/ how \in {"be32", "nonzero"} /\ field = "u32"
  \/ how = "be64" /\ field = "u64"
  \/ how \in {"strz", "str"} /\ field = "name"
  \/ how = "data" /\ field = "data"
  \/ how = "info" /\ field = "info"
\* what is sent as done is read back as how,
Undoes(how, done) ==
  \/ how = done /\ done \in {"u8", "be16", "be32", "be64", "data", "info"}
  \/ how = "be32" /\ done = "nonzero"
  \/ how = "name" /\ done \in {"strz", "str"}
\* and passes a callback that insists on a type.
Insists(type, how) ==
  \/ type = "U8" /\ how = "u8"
  \/ type = "U16" /\ how = "be16"
  \/ type = "U32" /\ how \in {"be32", "nonzero"}
  \/ type = "U64" /\ how = "be64"
  \/ type = "STRING" /\ how \in {"strz", "str"}
  \/ type = "NUL_STRING" /\ how = "strz"
  \/ type = "BINARY" /\ how \in {"data", "info"}

Names == {"IMM_NAME", "SET_NAME"}
\* What has more than a table.
Special(k, nla) ==
  \/ k = "immediate" /\ nla = "DATA"
  \/ k = "dynset" /\ nla \in {"EXPR", "EXPRESSIONS"}

SetterAgrees(k) ==
  \A a \in Fields(k) :
    /\ ops[k].set[a] \in {"u8", "u16", "u32", "u64", "name", "data", "info"}
    /\ Named(api[k], a)
    /\ (k = "immediate" /\ a # "DREG") \/ \E p \in ops[k].build : p.attr = a
    /\ a = "VERDICT" => k = "immediate"

BuilderAgrees(k) ==
  /\ \A p \in ops[k].build :
       /\ p.attr \in Fields(k) /\ Fits(p.how, ops[k].set[p.attr])
       /\ Named(abi[k], p.nla) /\ ~Special(k, p.nla)
       /\ p.by # "abi" => api[k] = abi[k]
       /\ p.how = "str" <=> k = "objref" /\ p.attr \in Names
       /\ p.how = "nonzero" <=> k = "osf" /\ p.attr = "FLAGS"
       /\ p.how = "data" => p.nla = p.attr
       /\ k = "immediate" => p.attr = "DREG"
  /\ \A p, q \in ops[k].build : p.nla = q.nla \/ p.attr = q.attr => p = q

ParserAgrees(k) ==
  /\ \A t \in ops[k].parse :
       /\ \E p \in ops[k].build : p.nla = t.nla /\ p.attr = t.attr /\ Undoes(t.how, p.how)
       /\ t.by # "api" => \A n \in DOMAIN abi[k] :
            abi[k][n] = t.nla => n \in DOMAIN api[k] /\ api[k][n] = t.attr
  /\ \A p \in ops[k].build : \E t \in ops[k].parse : t.nla = p.nla
  /\ \A t, u \in ops[k].parse : t.nla = u.nla => t = u

CheckAgrees(k) ==
  \A a \in DOMAIN ops[k].cb :
    /\ Named(abi[k], a)
    /\ ops[k].cb[a].by # "abi" => api[k] = abi[k]
    /\ \A p \in ops[k].build : p.nla = a => Insists(ops[k].cb[a].type, p.how)
    /\ Special(k, a) => ops[k].cb[a].type \in {"BINARY", "NESTED"}

\* The order in which data attributes are numbered, and so parsed, in all types.
DataOrder == <<"MASK", "XOR", "FROM_DATA", "TO_DATA", "DATA">>
DataInOrder(k) ==
  /\ DOMAIN abi[k] \subseteq Nat
  /\ \A i, j \in 1..5 : \A m, n \in DOMAIN abi[k] :
       i < j /\ abi[k][m] = DataOrder[i] /\ abi[k][n] = DataOrder[j] => m < n
  /\ \A a \in Fields(k) : ops[k].set[a] = "data" => Named(DataOrder, a)

TablesAgree(k) ==
  /\ SetterAgrees(k) /\ BuilderAgrees(k) /\ ParserAgrees(k) /\ CheckAgrees(k)
  /\ DataInOrder(k)

\* An entry of a builder or a parser.
Row(attr, nla, how, by) == [attr |-> attr, nla |-> nla, how |-> how, by |-> by]

\* What an entry is, by the way it is written in the tables.
LEMMA Rows ==
  /\ \A as, how, r : r \in Put(as, how) <=> \E a \in as : r = Row(a, a, how, "abi")
  /\ \A as, how, r : r \in PutApi(as, how) <=> \E a \in as : r = Row(a, a, how, "api")
  /\ \A a, n, how, r : r \in PutAs(a, n, how) <=> r = Row(a, n, how, "abi")
  /\ \A as, how, r : r \in Take(as, how) <=> \E a \in as : r = Row(a, a, how, "api")
  /\ \A as, how, r : r \in TakeAbi(as, how) <=> \E a \in as : r = Row(a, a, how, "abi")
  /\ \A a, n, how, r : r \in TakeAs(n, a, how) <=> r = Row(a, n, how, "api")
BY DEF Put, PutApi, PutAs, Take, TakeAbi, TakeAs, Row

\* What an entry consists of.
LEMMA RowIs == \A attr, nla, how, by :
  /\ Row(attr, nla, how, by).attr = attr /\ Row(attr, nla, how, by).nla = nla
  /\ Row(attr, nla, how, by).how = how /\ Row(attr, nla, how, by).by = by
BY DEF Row

\* The four functions of bitwise agree.
LEMMA BitwiseAgrees == TablesAgree("bitwise")
<1>1. /\ ops["bitwise"].set = bitwise_set /\ ops["bitwise"].cb = bitwise_cb
      /\ ops["bitwise"].build = bitwise_build /\ ops["bitwise"].parse = bitwise_parse
  BY DEF ops, Ops
<1>2. /\ api["bitwise"] = <<"SREG", "DREG", "LEN", "MASK", "XOR", "OP", "DATA">>
      /\ abi["bitwise"] = <<"SREG", "DREG", "LEN", "MASK", "XOR", "OP", "DATA">>
  BY DEF api, abi
<1>3. /\ DOMAIN bitwise_set = {"SREG", "DREG", "OP", "LEN", "MASK", "XOR", "DATA"}
      /\ \A a \in {"SREG", "DREG", "OP", "LEN"} : bitwise_set[a] = "u32"
      /\ \A a \in {"MASK", "XOR", "DATA"} : bitwise_set[a] = "data"
  BY DEF bitwise_set, Held, ++
<1>4. /\ \A a \in {"SREG", "DREG", "OP", "LEN"} : Row(a, a, "be32", "abi") \in bitwise_build
      /\ \A a \in {"MASK", "XOR", "DATA"} : Row(a, a, "data", "abi") \in bitwise_build
      /\ \A a \in {"SREG", "DREG", "OP", "LEN"} : Row(a, a, "be32", "api") \in bitwise_parse
      /\ \A a \in {"MASK", "XOR"} : Row(a, a, "data", "abi") \in bitwise_parse
      /\ Row("DATA", "DATA", "data", "api") \in bitwise_parse
  BY Rows DEF bitwise_build, bitwise_parse
<1>5. SetterAgrees("bitwise")
  BY <1>1, <1>2, <1>3, <1>4, RowIs DEF SetterAgrees, Fields, Named
<1>6. BuilderAgrees("bitwise")
  BY <1>1, <1>2, <1>3, Rows, RowIs
     DEF BuilderAgrees, Fields, Fits, Named, Special, Names, bitwise_build
<1>7. ParserAgrees("bitwise")
  BY <1>1, <1>2, <1>4, Rows, RowIs DEF ParserAgrees, Undoes, bitwise_build, bitwise_parse
<1>8. CheckAgrees("bitwise")
  BY <1>1, <1>2, Rows, RowIs
     DEF CheckAgrees, Insists, Named, Special, bitwise_cb, bitwise_build, Check, ++
<1>9. DataInOrder("bitwise")
  BY <1>1, <1>2, <1>3 DEF DataInOrder, DataOrder, Fields, Named
<1> QED BY <1>5, <1>6, <1>7, <1>8, <1>9 DEF TablesAgree

\* The four functions of byteorder agree.
LEMMA ByteorderAgrees == TablesAgree("byteorder")
<1>1. /\ ops["byteorder"].set = byteorder_set /\ ops["byteorder"].cb = byteorder_cb
      /\ ops["byteorder"].build = byteorder_build /\ ops["byteorder"].parse = byteorder_parse
  BY DEF ops, Ops
<1>2. /\ api["byteorder"] = <<"DREG", "SREG", "OP", "LEN", "SIZE">>
      /\ abi["byteorder"] = <<"SREG", "DREG", "OP", "LEN", "SIZE">>
  BY DEF api, abi
<1>3. /\ DOMAIN byteorder_set = {"SREG", "DREG", "OP", "LEN", "SIZE"}
      /\ \A a \in {"SREG", "DREG", "OP", "LEN", "SIZE"} : byteorder_set[a] = "u32"
  BY DEF byteorder_set, Held, ++
<1>4. /\ \A a \in {"SREG", "DREG", "OP", "LEN", "SIZE"} :
            Row(a, a, "be32", "abi") \in byteorder_build
      /\ \A a \in {"SREG", "DREG", "OP", "LEN", "SIZE"} :
            Row(a, a, "be32", "api") \in byteorder_parse
  BY Rows DEF byteorder_build, byteorder_parse
<1>5. SetterAgrees("byteorder")
  BY <1>1, <1>2, <1>3, <1>4, RowIs DEF SetterAgrees, Fields, Named
<1>6. BuilderAgrees("byteorder")
  BY <1>1, <1>2, <1>3, Rows, RowIs
     DEF BuilderAgrees, Fields, Fits, Named, Special, Names, byteorder_build
<1>7. ParserAgrees("byteorder")
  BY <1>1, <1>2, <1>4, Rows, RowIs DEF ParserAgrees, Undoes, byteorder_build, byteorder_parse
<1>8. CheckAgrees("byteorder")
  BY <1>1, <1>2, Rows, RowIs
     DEF CheckAgrees, Insists, Named, Special, byteorder_cb, byteorder_build, Check, ++
<1>9. DataInOrder("byteorder")
  BY <1>1, <1>2, <1>3 DEF DataInOrder, DataOrder, Fields, Named
<1> QED BY <1>5, <1>6, <1>7, <1>8, <1>9 DEF TablesAgree

\* The four functions of cmp agree.
LEMMA CmpAgrees == TablesAgree("cmp")
<1>1. /\ ops["cmp"].set = cmp_set /\ ops["cmp"].cb = cmp_cb
      /\ ops["cmp"].build = cmp_build /\ ops["cmp"].parse = cmp_parse
  BY DEF ops, Ops
<1>2. /\ api["cmp"] = <<"SREG", "OP", "DATA">>
      /\ abi["cmp"] = <<"SREG", "OP", "DATA">>
  BY DEF api, abi
<1>3. /\ DOMAIN cmp_set = {"SREG", "OP", "DATA"}
      /\ \A a \in {"SREG", "OP"} : cmp_set[a] = "u32"
      /\ cmp_set["DATA"] = "data"
  BY DEF cmp_set, Held, ++
<1>4. /\ \A a \in {"SREG", "OP"} : Row(a, a, "be32", "abi") \in cmp_build
      /\ Row("DATA", "DATA", "data", "abi") \in cmp_build
      /\ \A a \in {"SREG", "OP"} : Row(a, a, "be32", "abi") \in cmp_parse
      /\ Row("DATA", "DATA", "data", "abi") \in cmp_parse
  BY Rows DEF cmp_build, cmp_parse
<1>5. SetterAgrees("cmp")
  BY <1>1, <1>2, <1>3, <1>4, RowIs DEF SetterAgrees, Fields, Named
<1>6. BuilderAgrees("cmp")
  BY <1>1, <1>2, <1>3, Rows, RowIs
     DEF BuilderAgrees, Fields, Fits, Named, Special, Names, cmp_build
<1>7. ParserAgrees("cmp")
  BY <1>1, <1>2, <1>4, Rows, RowIs DEF ParserAgrees, Undoes, cmp_build, cmp_parse
<1>8. CheckAgrees("cmp")
  BY <1>1, <1>2, Rows, RowIs
     DEF CheckAgrees, Insists, Named, Special, cmp_cb, cmp_build, Check, ++
<1>9. DataInOrder("cmp")
  BY <1>1, <1>2, <1>3 DEF DataInOrder, DataOrder, Fields, Named
<1> QED BY <1>5, <1>6, <1>7, <1>8, <1>9 DEF TablesAgree

\* The four functions of connlimit agree.
LEMMA ConnlimitAgrees == TablesAgree("connlimit")
<1>1. /\ ops["connlimit"].set = connlimit_set /\ ops["connlimit"].cb = connlimit_cb
      /\ ops["connlimit"].build = connlimit_build /\ ops["connlimit"].parse = connlimit_parse
  BY DEF ops, Ops
<1>2. /\ api["connlimit"] = <<"COUNT", "FLAGS">>
      /\ abi["connlimit"] = <<"COUNT", "FLAGS">>
  BY DEF api, abi
<1>3. /\ DOMAIN connlimit_set = {"COUNT", "FLAGS"}
      /\ \A a \in {"COUNT", "FLAGS"} : connlimit_set[a] = "u32"
  BY DEF connlimit_set, Held, ++
<1>4. /\ \A a \in {"COUNT", "FLAGS"} : Row(a, a, "be32", "abi") \in connlimit_build
      /\ \A a \in {"COUNT", "FLAGS"} : Row(a, a, "be32", "api") \in connlimit_parse
  BY Rows DEF connlimit_build, connlimit_parse
<1>5. SetterAgrees("connlimit")
  BY <1>1, <1>2, <1>3, <1>4, RowIs DEF SetterAgrees, Fields, Named
<1>6. BuilderAgrees("connlimit")
  BY <1>1, <1>2, <1>3, Rows, RowIs
     DEF BuilderAgrees, Fields, Fits, Named, Special, Names, connlimit_build
<1>7. ParserAgrees("connlimit")
  BY <1>1, <1>2, <1>4, Rows, RowIs DEF ParserAgrees, Undoes, connlimit_build, connlimit_parse
<1>8. CheckAgrees("connlimit")
  BY <1>1, <1>2, Rows, RowIs
     DEF CheckAgrees, Insists, Named, Special, connlimit_cb, connlimit_build, Check, ++
<1>9. DataInOrder("connlimit")
  BY <1>1, <1>2, <1>3 DEF DataInOrder, DataOrder, Fields, Named
<1> QED BY <1>5, <1>6, <1>7, <1>8, <1>9 DEF TablesAgree

\* The four functions of counter agree.
LEMMA CounterAgrees == TablesAgree("counter")
<1>1. /\ ops["counter"].set = counter_set /\ ops["counter"].cb = counter_cb
      /\ ops["counter"].build = counter_build /\ ops["counter"].parse = counter_parse
  BY DEF ops, Ops
<1>2. /\ api["counter"] = <<"PACKETS", "BYTES">>
      /\ abi["counter"] = <<"BYTES", "PACKETS", "PAD">>
  BY DEF api, abi
<1>3. /\ DOMAIN counter_set = {"BYTES", "PACKETS"}
      /\ \A a \in {"BYTES", "PACKETS"} : counter_set[a] = "u64"
  BY DEF counter_set, Held, ++
<1>4. /\ \A a \in {"BYTES", "PACKETS"} : Row(a, a, "be64", "abi") \in counter_build
      /\ \A a \in {"BYTES", "PACKETS"} : Row(a, a, "be64", "api") \in counter_parse
  BY Rows DEF counter_build, counter_parse
<1>5. SetterAgrees("counter")
  BY <1>1, <1>2, <1>3, <1>4, RowIs DEF SetterAgrees, Fields, Named
<1>6. BuilderAgrees("counter")
  BY <1>1, <1>2, <1>3, Rows, RowIs
     DEF BuilderAgrees, Fields, Fits, Named, Special, Names, counter_build
<1>7. ParserAgrees("counter")
  BY <1>1, <1>2, <1>4, Rows, RowIs DEF ParserAgrees, Undoes, counter_build, counter_parse
<1>8. CheckAgrees("counter")
  BY <1>1, <1>2, Rows, RowIs
     DEF CheckAgrees, Insists, Named, Special, counter_cb, counter_build, Check, ++
<1>9. DataInOrder("counter")
  BY <1>1, <1>2, <1>3 DEF DataInOrder, DataOrder, Fields, Named
<1> QED BY <1>5, <1>6, <1>7, <1>8, <1>9 DEF TablesAgree

\* The four functions of ct agree.
LEMMA CtAgrees == TablesAgree("ct")
<1>1. /\ ops["ct"].set = ct_set /\ ops["ct"].cb = ct_cb
      /\ ops["ct"].build = ct_build /\ ops["ct"].parse = ct_parse
  BY DEF ops, Ops
<1>2. /\ api["ct"] = <<"DREG", "KEY", "DIR", "SREG">>
      /\ abi["ct"] = <<"DREG", "KEY", "DIRECTION", "SREG">>
  BY DEF api, abi
<1>3. /\ DOMAIN ct_set = {"KEY", "DREG", "SREG", "DIR"}
      /\ \A a \in {"KEY", "DREG", "SREG"} : ct_set[a] = "u32"
      /\ ct_set["DIR"] = "u8"
  BY DEF ct_set, Held, ++
<1>4. /\ \A a \in {"KEY", "DREG", "SREG"} : Row(a, a, "be32", "abi") \in ct_build
      /\ Row("DIR", "DIRECTION", "u8", "abi") \in ct_build
      /\ \A a \in {"KEY", "DREG", "SREG"} : Row(a, a, "be32", "api") \in ct_parse
      /\ Row("DIR", "DIRECTION", "u8", "api") \in ct_parse
  BY Rows DEF ct_build, ct_parse
<1>5. SetterAgrees("ct")
  BY <1>1, <1>2, <1>3, <1>4, RowIs DEF SetterAgrees, Fields, Named
<1>6. BuilderAgrees("ct")
  BY <1>1, <1>2, <1>3, Rows, RowIs
     DEF BuilderAgrees, Fields, Fits, Named, Special, Names, ct_build
<1>7. ParserAgrees("ct")
  BY <1>1, <1>2, <1>4, Rows, RowIs DEF ParserAgrees, Undoes, ct_build, ct_parse
<1>8. CheckAgrees("ct")
  BY <1>1, <1>2, Rows, RowIs
     DEF CheckAgrees, Insists, Named, Special, ct_cb, ct_build, Check, ++
<1>9. DataInOrder("ct")
  BY <1>1, <1>2, <1>3 DEF DataInOrder, DataOrder, Fields, Named
<1> QED BY <1>5, <1>6, <1>7, <1>8, <1>9 DEF TablesAgree

\* The four functions of dup agree.
LEMMA DupAgrees == TablesAgree("dup")
<1>1. /\ ops["dup"].set = dup_set /\ ops["dup"].cb = dup_cb
      /\ ops["dup"].build = dup_build /\ ops["dup"].parse = dup_parse
  BY DEF ops, Ops
<1>2. /\ api["dup"] = <<"SREG_ADDR", "SREG_DEV">>
      /\ abi["dup"] = <<"SREG_ADDR", "SREG_DEV">>
  BY DEF api, abi
<1>3. /\ DOMAIN dup_set = {"SREG_ADDR", "SREG_DEV"}
      /\ \A a \in {"SREG_ADDR", "SREG_DEV"} : dup_set[a] = "u32"
  BY DEF dup_set, Held, ++
<1>4. /\ \A a \in {"SREG_ADDR", "SREG_DEV"} : Row(a, a, "be32", "abi") \in dup_build
      /\ \A a \in {"SREG_ADDR", "SREG_DEV"} : Row(a, a, "be32", "api") \in dup_parse
  BY Rows DEF dup_build, dup_parse
<1>5. SetterAgrees("dup")
  BY <1>1, <1>2, <1>3, <1>4, RowIs DEF SetterAgrees, Fields, Named
<1>6. BuilderAgrees("dup")
  BY <1>1, <1>2, <1>3, Rows, RowIs
     DEF BuilderAgrees, Fields, Fits, Named, Special, Names, dup_build
<1>7. ParserAgrees("dup")
  BY <1>1, <1>2, <1>4, Rows, RowIs DEF ParserAgrees, Undoes, dup_build, dup_parse
<1>8. CheckAgrees("dup")
  BY <1>1, <1>2, Rows, RowIs
     DEF CheckAgrees, Insists, Named, Special, dup_cb, dup_build, Check, ++
<1>9. DataInOrder("dup")
  BY <1>1, <1>2, <1>3 DEF DataInOrder, DataOrder, Fields, Named
<1> QED BY <1>5, <1>6, <1>7, <1>8, <1>9 DEF TablesAgree

\* The four functions of dynset agree.
LEMMA DynsetAgrees == TablesAgree("dynset")
<1>1. /\ ops["dynset"].set = dynset_set /\ ops["dynset"].cb = dynset_cb
      /\ ops["dynset"].build = dynset_build /\ ops["dynset"].parse = dynset_parse
  BY DEF ops, Ops
<1>2. /\ api["dynset"] = <<"SREG_KEY", "SREG_DATA", "OP", "TIMEOUT", "SET_NAME", "SET_ID",
                           "EXPR", "EXPRESSIONS", "FLAGS">>
      /\ abi["dynset"] = <<"SET_NAME", "SET_ID", "OP", "SREG_KEY", "SREG_DATA", "TIMEOUT",
                           "EXPR", "PAD", "FLAGS", "EXPRESSIONS">>
  BY DEF api, abi
<1>3. /\ DOMAIN dynset_set = {"SREG_KEY", "SREG_DATA", "OP", "SET_ID", "FLAGS", "TIMEOUT",
                              "SET_NAME"}
      /\ \A a \in {"SREG_KEY", "SREG_DATA", "OP", "SET_ID", "FLAGS"} : dynset_set[a] = "u32"
      /\ dynset_set["TIMEOUT"] = "u64"
      /\ dynset_set["SET_NAME"] = "name"
  BY DEF dynset_set, Held, ++
<1>4. /\ \A a \in {"SREG_KEY", "SREG_DATA", "OP", "SET_ID", "FLAGS"} :
            Row(a, a, "be32", "abi") \in dynset_build
      /\ Row("TIMEOUT", "TIMEOUT", "be64", "abi") \in dynset_build
      /\ Row("SET_NAME", "SET_NAME", "strz", "abi") \in dynset_build
      /\ \A a \in {"SREG_KEY", "SREG_DATA", "OP", "SET_ID", "FLAGS"} :
            Row(a, a, "be32", "api") \in dynset_parse
      /\ Row("TIMEOUT", "TIMEOUT", "be64", "api") \in dynset_parse
      /\ Row("SET_NAME", "SET_NAME", "name", "api") \in dynset_parse
  BY Rows DEF dynset_build, dynset_parse
<1>5. SetterAgrees("dynset")
  BY <1>1, <1>2, <1>3, <1>4, RowIs DEF SetterAgrees, Fields, Named
<1>6. BuilderAgrees("dynset")
  BY <1>1, <1>2, <1>3, Rows, RowIs
     DEF BuilderAgrees, Fields, Fits, Named, Special, Names, dynset_build
<1>7. ParserAgrees("dynset")
  BY <1>1, <1>2, <1>4, Rows, RowIs DEF ParserAgrees, Undoes, dynset_build, dynset_parse
<1>8. CheckAgrees("dynset")
  <2>1. /\ DOMAIN dynset_cb = {"SREG_KEY", "SREG_DATA", "SET_ID", "OP", "FLAGS",
                               "TIMEOUT", "SET_NAME", "EXPR"}
        /\ \A a \in {"SREG_KEY", "SREG_DATA", "SET_ID", "OP", "FLAGS"} :
              dynset_cb[a].type = "U32"
        /\ dynset_cb["TIMEOUT"].type = "U64" /\ dynset_cb["SET_NAME"].type = "STRING"
        /\ dynset_cb["EXPR"].type = "NESTED"
        /\ \A a \in DOMAIN dynset_cb : dynset_cb[a].by = "abi"
    BY DEF dynset_cb, Check, ++
  <2>2. \A p \in dynset_build :
          /\ p.nla \in {"SREG_KEY", "SREG_DATA", "OP", "SET_ID", "FLAGS"} => p.how = "be32"
          /\ p.nla = "TIMEOUT" => p.how = "be64"
          /\ p.nla = "SET_NAME" => p.how = "strz"
          /\ p.nla # "EXPR"
    BY Rows, RowIs DEF dynset_build
  <2>3. \A a \in DOMAIN dynset_cb :
          Named(abi["dynset"], a) /\ (Special("dynset", a) => dynset_cb[a].type = "NESTED")
    BY <1>2, <2>1 DEF Named, Special
  <2>4. \A a \in DOMAIN dynset_cb : \A p \in dynset_build :
          p.nla = a => Insists(dynset_cb[a].type, p.how)
    BY <2>1, <2>2 DEF Insists
  <2> QED BY <1>1, <2>1, <2>3, <2>4 DEF CheckAgrees
<1>9. DataInOrder("dynset")
  BY <1>1, <1>2, <1>3 DEF DataInOrder, DataOrder, Fields, Named
<1> QED BY <1>5, <1>6, <1>7, <1>8, <1>9 DEF TablesAgree

\* The four functions of exthdr agree.
LEMMA ExthdrAgrees == TablesAgree("exthdr")
<1>1. /\ ops["exthdr"].set = exthdr_set /\ ops["exthdr"].cb = exthdr_cb
      /\ ops["exthdr"].build = exthdr_build /\ ops["exthdr"].parse = exthdr_parse
  BY DEF ops, Ops
<1>2. /\ api["exthdr"] = <<"DREG", "TYPE", "OFFSET", "LEN", "FLAGS", "OP", "SREG">>
      /\ abi["exthdr"] = <<"DREG", "TYPE", "OFFSET", "LEN", "FLAGS", "OP", "SREG">>
  BY DEF api, abi
<1>3. /\ DOMAIN exthdr_set = {"DREG", "OFFSET", "LEN", "OP", "FLAGS", "SREG", "TYPE"}
      /\ \A a \in {"DREG", "OFFSET", "LEN", "OP", "FLAGS", "SREG"} : exthdr_set[a] = "u32"
      /\ exthdr_set["TYPE"] = "u8"
  BY DEF exthdr_set, Held, ++
<1>4. /\ \A a \in {"DREG", "SREG", "OFFSET", "LEN", "OP", "FLAGS"} :
            Row(a, a, "be32", "abi") \in exthdr_build
      /\ Row("TYPE", "TYPE", "u8", "abi") \in exthdr_build
      /\ \A a \in {"DREG", "SREG", "OFFSET", "LEN", "OP", "FLAGS"} :
            Row(a, a, "be32", "api") \in exthdr_parse
      /\ Row("TYPE", "TYPE", "u8", "api") \in exthdr_parse
  BY Rows DEF exthdr_build, exthdr_parse
<1>5. SetterAgrees("exthdr")
  BY <1>1, <1>2, <1>3, <1>4, RowIs DEF SetterAgrees, Fields, Named
<1>6. BuilderAgrees("exthdr")
  BY <1>1, <1>2, <1>3, Rows, RowIs
     DEF BuilderAgrees, Fields, Fits, Named, Special, Names, exthdr_build
<1>7. ParserAgrees("exthdr")
  BY <1>1, <1>2, <1>4, Rows, RowIs DEF ParserAgrees, Undoes, exthdr_build, exthdr_parse
<1>8. CheckAgrees("exthdr")
  BY <1>1, <1>2, Rows, RowIs
     DEF CheckAgrees, Insists, Named, Special, exthdr_cb, exthdr_build, Check, ++
<1>9. DataInOrder("exthdr")
  BY <1>1, <1>2, <1>3 DEF DataInOrder, DataOrder, Fields, Named
<1> QED BY <1>5, <1>6, <1>7, <1>8, <1>9 DEF TablesAgree

\* The four functions of fib agree.
LEMMA FibAgrees == TablesAgree("fib")
<1>1. /\ ops["fib"].set = fib_set /\ ops["fib"].cb = fib_cb
      /\ ops["fib"].build = fib_build /\ ops["fib"].parse = fib_parse
  BY DEF ops, Ops
<1>2. /\ api["fib"] = <<"DREG", "RESULT", "FLAGS">>
      /\ abi["fib"] = <<"DREG", "RESULT", "FLAGS">>
  BY DEF api, abi
<1>3. /\ DOMAIN fib_set = {"RESULT", "DREG", "FLAGS"}
      /\ \A a \in {"RESULT", "DREG", "FLAGS"} : fib_set[a] = "u32"
  BY DEF fib_set, Held, ++
<1>4. /\ \A a \in {"FLAGS", "RESULT", "DREG"} : Row(a, a, "be32", "abi") \in fib_build
      /\ \A a \in {"RESULT", "DREG", "FLAGS"} : Row(a, a, "be32", "api") \in fib_parse
  BY Rows DEF fib_build, fib_parse
<1>5. SetterAgrees("fib")
  BY <1>1, <1>2, <1>3, <1>4, RowIs DEF SetterAgrees, Fields, Named
<1>6. BuilderAgrees("fib")
  BY <1>1, <1>2, <1>3, Rows, RowIs
     DEF BuilderAgrees, Fields, Fits, Named, Special, Names, fib_build
<1>7. ParserAgrees("fib")
  BY <1>1, <1>2, <1>4, Rows, RowIs DEF ParserAgrees, Undoes, fib_build, fib_parse
<1>8. CheckAgrees("fib")
  BY <1>1, <1>2, Rows, RowIs
     DEF CheckAgrees, Insists, Named, Special, fib_cb, fib_build, Check, ++
<1>9. DataInOrder("fib")
  BY <1>1, <1>2, <1>3 DEF DataInOrder, DataOrder, Fields, Named
<1> QED BY <1>5, <1>6, <1>7, <1>8, <1>9 DEF TablesAgree

\* The four functions of flow agree.
LEMMA FlowAgrees == TablesAgree("flow")
<1>1. /\ ops["flow"].set = flow_set /\ ops["flow"].cb = flow_cb
      /\ ops["flow"].build = flow_build /\ ops["flow"].parse = flow_parse
  BY DEF ops, Ops
<1>2. /\ api["flow"] = <<"TABLE_NAME">>
      /\ abi["flow"] = <<"TABLE_NAME">>
  BY DEF api, abi
<1>3. /\ DOMAIN flow_set = {"TABLE_NAME"}
      /\ flow_set["TABLE_NAME"] = "name"
  BY DEF flow_set, Held, ++
<1>4. /\ Row("TABLE_NAME", "TABLE_NAME", "strz", "abi") \in flow_build
      /\ Row("TABLE_NAME", "TABLE_NAME", "name", "api") \in flow_parse
  BY Rows DEF flow_build, flow_parse
<1>5. SetterAgrees("flow")
  BY <1>1, <1>2, <1>3, <1>4, RowIs DEF SetterAgrees, Fields, Named
<1>6. BuilderAgrees("flow")
  BY <1>1, <1>2, <1>3, Rows, RowIs
     DEF BuilderAgrees, Fields, Fits, Named, Special, Names, flow_build
<1>7. ParserAgrees("flow")
  BY <1>1, <1>2, <1>4, Rows, RowIs DEF ParserAgrees, Undoes, flow_build, flow_parse
<1>8. CheckAgrees("flow")
  BY <1>1, <1>2, Rows, RowIs
     DEF CheckAgrees, Insists, Named, Special, flow_cb, flow_build, Check, ++
<1>9. DataInOrder("flow")
  BY <1>1, <1>2, <1>3 DEF DataInOrder, DataOrder, Fields, Named
<1> QED BY <1>5, <1>6, <1>7, <1>8, <1>9 DEF TablesAgree

\* The four functions of fullcone agree.
LEMMA FullconeAgrees == TablesAgree("fullcone")
<1>1. /\ ops["fullcone"].set = fullcone_set /\ ops["fullcone"].cb = fullcone_cb
      /\ ops["fullcone"].build = fullcone_build /\ ops["fullcone"].parse = fullcone_parse
  BY DEF ops, Ops
<1>2. /\ api["fullcone"] = <<"FLAGS", "REG_PROTO_MIN", "REG_PROTO_MAX">>
      /\ abi["fullcone"] = <<"FLAGS", "REG_PROTO_MIN", "REG_PROTO_MAX">>
  BY DEF api, abi
<1>3. /\ DOMAIN fullcone_set = {"FLAGS", "REG_PROTO_MIN", "REG_PROTO_MAX"}
      /\ \A a \in {"FLAGS", "REG_PROTO_MIN", "REG_PROTO_MAX"} : fullcone_set[a] = "u32"
  BY DEF fullcone_set, Held, ++
<1>4. /\ \A a \in {"FLAGS", "REG_PROTO_MIN", "REG_PROTO_MAX"} :
            Row(a, a, "be32", "abi") \in fullcone_build
      /\ \A a \in {"FLAGS", "REG_PROTO_MIN", "REG_PROTO_MAX"} :
            Row(a, a, "be32", "api") \in fullcone_parse
  BY Rows DEF fullcone_build, fullcone_parse
<1>5. SetterAgrees("fullcone")
  BY <1>1, <1>2, <1>3, <1>4, RowIs DEF SetterAgrees, Fields, Named
<1>6. BuilderAgrees("fullcone")
  BY <1>1, <1>2, <1>3, Rows, RowIs
     DEF BuilderAgrees, Fields, Fits, Named, Special, Names, fullcone_build
<1>7. ParserAgrees("fullcone")
  BY <1>1, <1>2, <1>4, Rows, RowIs DEF ParserAgrees, Undoes, fullcone_build, fullcone_parse
<1>8. CheckAgrees("fullcone")
  BY <1>1, <1>2, Rows, RowIs
     DEF CheckAgrees, Insists, Named, Special, fullcone_cb, fullcone_build, Check, ++
<1>9. DataInOrder("fullcone")
  BY <1>1, <1>2, <1>3 DEF DataInOrder, DataOrder, Fields, Named
<1> QED BY <1>5, <1>6, <1>7, <1>8, <1>9 DEF TablesAgree

\* The four functions of fwd agree.
LEMMA FwdAgrees == TablesAgree("fwd")
<1>1. /\ ops["fwd"].set = fwd_set /\ ops["fwd"].cb = fwd_cb
      /\ ops["fwd"].build = fwd_build /\ ops["fwd"].parse = fwd_parse
  BY DEF ops, Ops
<1>2. /\ api["fwd"] = <<"SREG_DEV", "SREG_ADDR", "NFPROTO">>
      /\ abi["fwd"] = <<"SREG_DEV", "SREG_ADDR", "NFPROTO">>
  BY DEF api, abi
<1>3. /\ DOMAIN fwd_set = {"SREG_DEV", "SREG_ADDR", "NFPROTO"}
      /\ \A a \in {"SREG_DEV", "SREG_ADDR", "NFPROTO"} : fwd_set[a] = "u32"
  BY DEF fwd_set, Held, ++
<1>4. /\ \A a \in {"SREG_DEV", "SREG_ADDR", "NFPROTO"} : Row(a, a, "be32", "abi") \in fwd_build
      /\ \A a \in {"SREG_DEV", "SREG_ADDR", "NFPROTO"} : Row(a, a, "be32", "api") \in fwd_parse
  BY Rows DEF fwd_build, fwd_parse
<1>5. SetterAgrees("fwd")
  BY <1>1, <1>2, <1>3, <1>4, RowIs DEF SetterAgrees, Fields, Named
<1>6. BuilderAgrees("fwd")
  BY <1>1, <1>2, <1>3, Rows, RowIs
     DEF BuilderAgrees, Fields, Fits, Named, Special, Names, fwd_build
<1>7. ParserAgrees("fwd")
  BY <1>1, <1>2, <1>4, Rows, RowIs DEF ParserAgrees, Undoes, fwd_build, fwd_parse
<1>8. CheckAgrees("fwd")
  BY <1>1, <1>2, Rows, RowIs
     DEF CheckAgrees, Insists, Named, Special, fwd_cb, fwd_build, Check, ++
<1>9. DataInOrder("fwd")
  BY <1>1, <1>2, <1>3 DEF DataInOrder, DataOrder, Fields, Named
<1> QED BY <1>5, <1>6, <1>7, <1>8, <1>9 DEF TablesAgree

\* The four functions of hash agree.
LEMMA HashAgrees == TablesAgree("hash")
<1>1. /\ ops["hash"].set = hash_set /\ ops["hash"].cb = hash_cb
      /\ ops["hash"].build = hash_build /\ ops["hash"].parse = hash_parse
  BY DEF ops, Ops
<1>2. /\ api["hash"] = <<"SREG", "DREG", "LEN", "MODULUS", "SEED", "OFFSET", "TYPE",
                         "SET_NAME", "SET_ID">>
      /\ abi["hash"] = <<"SREG", "DREG", "LEN", "MODULUS", "SEED", "OFFSET", "TYPE",
                         "SET_NAME", "SET_ID">>
  BY DEF api, abi
<1>3. /\ DOMAIN hash_set = {"SREG", "DREG", "LEN", "MODULUS", "SEED", "OFFSET", "TYPE"}
      /\ \A a \in {"SREG", "DREG", "LEN", "MODULUS", "SEED", "OFFSET",
            "TYPE"} : hash_set[a] = "u32"
  BY DEF hash_set, Held, ++
<1>4. /\ \A a \in {"SREG", "DREG", "LEN", "MODULUS", "SEED", "OFFSET", "TYPE"} : Row(a, a,
            "be32", "abi") \in hash_build
      /\ \A a \in {"SREG", "DREG", "LEN", "MODULUS", "SEED", "OFFSET", "TYPE"} : Row(a, a,
            "be32", "api") \in hash_parse
  BY Rows DEF hash_build, hash_parse
<1>5. SetterAgrees("hash")
  BY <1>1, <1>2, <1>3, <1>4, RowIs DEF SetterAgrees, Fields, Named
<1>6. BuilderAgrees("hash")
  BY <1>1, <1>2, <1>3, Rows, RowIs
     DEF BuilderAgrees, Fields, Fits, Named, Special, Names, hash_build
<1>7. ParserAgrees("hash")
  BY <1>1, <1>2, <1>4, Rows, RowIs DEF ParserAgrees, Undoes, hash_build, hash_parse
<1>8. CheckAgrees("hash")
  BY <1>1, <1>2, Rows, RowIs
     DEF CheckAgrees, Insists, Named, Special, hash_cb, hash_build, Check, ++
<1>9. DataInOrder("hash")
  BY <1>1, <1>2, <1>3 DEF DataInOrder, DataOrder, Fields, Named
<1> QED BY <1>5, <1>6, <1>7, <1>8, <1>9 DEF TablesAgree

\* The four functions of immediate agree.
LEMMA ImmediateAgrees == TablesAgree("immediate")
<1>1. /\ ops["immediate"].set = immediate_set /\ ops["immediate"].cb = immediate_cb
      /\ ops["immediate"].build = immediate_build /\ ops["immediate"].parse = immediate_parse
  BY DEF ops, Ops
<1>2. /\ api["immediate"] = <<"DREG", "DATA", "VERDICT", "CHAIN", "CHAIN_ID">>
      /\ abi["immediate"] = <<"DREG", "DATA">>
  BY DEF api, abi
<1>3. /\ DOMAIN immediate_set = {"DREG", "VERDICT", "CHAIN_ID", "DATA", "CHAIN"}
      /\ \A a \in {"DREG", "VERDICT", "CHAIN_ID"} : immediate_set[a] = "u32"
      /\ immediate_set["DATA"] = "data"
      /\ immediate_set["CHAIN"] = "name"
  BY DEF immediate_set, Held, ++
<1>4. /\ Row("DREG", "DREG", "be32", "abi") \in immediate_build
      /\ Row("DREG", "DREG", "be32", "api") \in immediate_parse
  BY Rows DEF immediate_build, immediate_parse
<1>5. SetterAgrees("immediate")
  BY <1>1, <1>2, <1>3, <1>4, RowIs DEF SetterAgrees, Fields, Named
<1>6. BuilderAgrees("immediate")
  BY <1>1, <1>2, <1>3, Rows, RowIs
     DEF BuilderAgrees, Fields, Fits, Named, Special, Names, immediate_build
<1>7. ParserAgrees("immediate")
  BY <1>1, <1>2, <1>4, Rows, RowIs DEF ParserAgrees, Undoes, immediate_build, immediate_parse
<1>8. CheckAgrees("immediate")
  BY <1>1, <1>2, Rows, RowIs
     DEF CheckAgrees, Insists, Named, Special, immediate_cb, immediate_build, Check, ++
<1>9. DataInOrder("immediate")
  BY <1>1, <1>2, <1>3 DEF DataInOrder, DataOrder, Fields, Named
<1> QED BY <1>5, <1>6, <1>7, <1>8, <1>9 DEF TablesAgree

\* The four functions of last agree.
LEMMA LastAgrees == TablesAgree("last")
<1>1. /\ ops["last"].set = last_set /\ ops["last"].cb = last_cb
      /\ ops["last"].build = last_build /\ ops["last"].parse = last_parse
  BY DEF ops, Ops
<1>2. /\ api["last"] = <<"MSECS", "SET">>
      /\ abi["last"] = <<"SET", "MSECS", "PAD">>
  BY DEF api, abi
<1>3. /\ DOMAIN last_set = {"MSECS", "SET"}
      /\ last_set["MSECS"] = "u64"
      /\ last_set["SET"] = "u32"
  BY DEF last_set, Held, ++
<1>4. /\ Row("MSECS", "MSECS", "be64", "abi") \in last_build
      /\ Row("SET", "SET", "be32", "abi") \in last_build
      /\ Row("MSECS", "MSECS", "be64", "api") \in last_parse
      /\ Row("SET", "SET", "be32", "api") \in last_parse
  BY Rows DEF last_build, last_parse
<1>5. SetterAgrees("last")
  BY <1>1, <1>2, <1>3, <1>4, RowIs DEF SetterAgrees, Fields, Named
<1>6. BuilderAgrees("last")
  BY <1>1, <1>2, <1>3, Rows, RowIs
     DEF BuilderAgrees, Fields, Fits, Named, Special, Names, last_build
<1>7. ParserAgrees("last")
  BY <1>1, <1>2, <1>4, Rows, RowIs DEF ParserAgrees, Undoes, last_build, last_parse
<1>8. CheckAgrees("last")
  BY <1>1, <1>2, Rows, RowIs
     DEF CheckAgrees, Insists, Named, Special, last_cb, last_build, Check, ++
<1>9. DataInOrder("last")
  BY <1>1, <1>2, <1>3 DEF DataInOrder, DataOrder, Fields, Named
<1> QED BY <1>5, <1>6, <1>7, <1>8, <1>9 DEF TablesAgree

\* The four functions of limit agree.
LEMMA LimitAgrees == TablesAgree("limit")
<1>1. /\ ops["limit"].set = limit_set /\ ops["limit"].cb = limit_cb
      /\ ops["limit"].build = limit_build /\ ops["limit"].parse = limit_parse
  BY DEF ops, Ops
<1>2. /\ api["limit"] = <<"RATE", "UNIT", "BURST", "TYPE", "FLAGS">>
      /\ abi["limit"] = <<"RATE", "UNIT", "BURST", "TYPE", "FLAGS", "PAD">>
  BY DEF api, abi
<1>3. /\ DOMAIN limit_set = {"RATE", "UNIT", "BURST", "TYPE", "FLAGS"}
      /\ \A a \in {"RATE", "UNIT"} : limit_set[a] = "u64"
      /\ \A a \in {"BURST", "TYPE", "FLAGS"} : limit_set[a] = "u32"
  BY DEF limit_set, Held, ++
<1>4. /\ \A a \in {"RATE", "UNIT"} : Row(a, a, "be64", "abi") \in limit_build
      /\ \A a \in {"BURST", "TYPE", "FLAGS"} : Row(a, a, "be32", "abi") \in limit_build
      /\ \A a \in {"RATE", "UNIT"} : Row(a, a, "be64", "api") \in limit_parse
      /\ \A a \in {"BURST", "TYPE", "FLAGS"} : Row(a, a, "be32", "api") \in limit_parse
  BY Rows DEF limit_build, limit_parse
<1>5. SetterAgrees("limit")
  BY <1>1, <1>2, <1>3, <1>4, RowIs DEF SetterAgrees, Fields, Named
<1>6. BuilderAgrees("limit")
  BY <1>1, <1>2, <1>3, Rows, RowIs
     DEF BuilderAgrees, Fields, Fits, Named, Special, Names, limit_build
<1>7. ParserAgrees("limit")
  BY <1>1, <1>2, <1>4, Rows, RowIs DEF ParserAgrees, Undoes, limit_build, limit_parse
<1>8. CheckAgrees("limit")
  BY <1>1, <1>2, Rows, RowIs
     DEF CheckAgrees, Insists, Named, Special, limit_cb, limit_build, Check, ++
<1>9. DataInOrder("limit")
  BY <1>1, <1>2, <1>3 DEF DataInOrder, DataOrder, Fields, Named
<1> QED BY <1>5, <1>6, <1>7, <1>8, <1>9 DEF TablesAgree

\* The four functions of log agree.
LEMMA LogAgrees == TablesAgree("log")
<1>1. /\ ops["log"].set = log_set /\ ops["log"].cb = log_cb
      /\ ops["log"].build = log_build /\ ops["log"].parse = log_parse
  BY DEF ops, Ops
<1>2. /\ api["log"] = <<"PREFIX", "GROUP", "SNAPLEN", "QTHRESHOLD", "LEVEL", "FLAGS">>
      /\ abi["log"] = <<"GROUP", "PREFIX", "SNAPLEN", "QTHRESHOLD", "LEVEL", "FLAGS">>
  BY DEF api, abi
<1>3. /\ DOMAIN log_set = {"PREFIX", "GROUP", "QTHRESHOLD", "SNAPLEN", "LEVEL", "FLAGS"}
      /\ log_set["PREFIX"] = "name"
      /\ \A a \in {"GROUP", "QTHRESHOLD"} : log_set[a] = "u16"
      /\ \A a \in {"SNAPLEN", "LEVEL", "FLAGS"} : log_set[a] = "u32"
  BY DEF log_set, Held, ++
<1>4. /\ Row("PREFIX", "PREFIX", "strz", "abi") \in log_build
      /\ \A a \in {"GROUP", "QTHRESHOLD"} : Row(a, a, "be16", "abi") \in log_build
      /\ \A a \in {"SNAPLEN", "LEVEL", "FLAGS"} : Row(a, a, "be32", "abi") \in log_build
      /\ Row("PREFIX", "PREFIX", "name", "api") \in log_parse
      /\ \A a \in {"GROUP", "QTHRESHOLD"} : Row(a, a, "be16", "api") \in log_parse
      /\ \A a \in {"SNAPLEN", "LEVEL", "FLAGS"} : Row(a, a, "be32", "api") \in log_parse
  BY Rows DEF log_build, log_parse
<1>5. SetterAgrees("log")
  BY <1>1, <1>2, <1>3, <1>4, RowIs DEF SetterAgrees, Fields, Named
<1>6. BuilderAgrees("log")
  BY <1>1, <1>2, <1>3, Rows, RowIs
     DEF BuilderAgrees, Fields, Fits, Named, Special, Names, log_build
<1>7. ParserAgrees("log")
  BY <1>1, <1>2, <1>4, Rows, RowIs DEF ParserAgrees, Undoes, log_build, log_parse
<1>8. CheckAgrees("log")
  BY <1>1, <1>2, Rows, RowIs
     DEF CheckAgrees, Insists, Named, Special, log_cb, log_build, Check, ++
<1>9. DataInOrder("log")
  BY <1>1, <1>2, <1>3 DEF DataInOrder, DataOrder, Fields, Named
<1> QED BY <1>5, <1>6, <1>7, <1>8, <1>9 DEF TablesAgree

\* The four functions of lookup agree.
LEMMA LookupAgrees == TablesAgree("lookup")
<1>1. /\ ops["lookup"].set = lookup_set /\ ops["lookup"].cb = lookup_cb
      /\ ops["lookup"].build = lookup_build /\ ops["lookup"].parse = lookup_parse
  BY DEF ops, Ops
<1>2. /\ api["lookup"] = <<"SREG", "DREG", "SET", "SET_ID", "FLAGS">>
      /\ abi["lookup"] = <<"SET", "SREG", "DREG", "SET_ID", "FLAGS">>
  BY DEF api, abi
<1>3. /\ DOMAIN lookup_set = {"SREG", "DREG", "SET_ID", "FLAGS", "SET"}
      /\ \A a \in {"SREG", "DREG", "SET_ID", "FLAGS"} : lookup_set[a] = "u32"
      /\ lookup_set["SET"] = "name"
  BY DEF lookup_set, Held, ++
<1>4. /\ \A a \in {"SREG", "DREG", "SET_ID", "FLAGS"} :
            Row(a, a, "be32", "abi") \in lookup_build
      /\ Row("SET", "SET", "strz", "abi") \in lookup_build
      /\ \A a \in {"SREG", "DREG", "SET_ID", "FLAGS"} :
            Row(a, a, "be32", "api") \in lookup_parse
      /\ Row("SET", "SET", "name", "api") \in lookup_parse
  BY Rows DEF lookup_build, lookup_parse
<1>5. SetterAgrees("lookup")
  BY <1>1, <1>2, <1>3, <1>4, RowIs DEF SetterAgrees, Fields, Named
<1>6. BuilderAgrees("lookup")
  BY <1>1, <1>2, <1>3, Rows, RowIs
     DEF BuilderAgrees, Fields, Fits, Named, Special, Names, lookup_build
<1>7. ParserAgrees("lookup")
  BY <1>1, <1>2, <1>4, Rows, RowIs DEF ParserAgrees, Undoes, lookup_build, lookup_parse
<1>8. CheckAgrees("lookup")
  BY <1>1, <1>2, Rows, RowIs
     DEF CheckAgrees, Insists, Named, Special, lookup_cb, lookup_build, Check, ++
<1>9. DataInOrder("lookup")
  BY <1>1, <1>2, <1>3 DEF DataInOrder, DataOrder, Fields, Named
<1> QED BY <1>5, <1>6, <1>7, <1>8, <1>9 DEF TablesAgree

\* The four functions of masq agree.
LEMMA MasqAgrees == TablesAgree("masq")
<1>1. /\ ops["masq"].set = masq_set /\ ops["masq"].cb = masq_cb
      /\ ops["masq"].build = masq_build /\ ops["masq"].parse = masq_parse
  BY DEF ops, Ops
<1>2. /\ api["masq"] = <<"FLAGS", "REG_PROTO_MIN", "REG_PROTO_MAX">>
      /\ abi["masq"] = <<"FLAGS", "REG_PROTO_MIN", "REG_PROTO_MAX">>
  BY DEF api, abi
<1>3. /\ DOMAIN masq_set = {"FLAGS", "REG_PROTO_MIN", "REG_PROTO_MAX"}
      /\ \A a \in {"FLAGS", "REG_PROTO_MIN", "REG_PROTO_MAX"} : masq_set[a] = "u32"
  BY DEF masq_set, Held, ++
<1>4. /\ \A a \in {"FLAGS", "REG_PROTO_MIN", "REG_PROTO_MAX"} :
            Row(a, a, "be32", "abi") \in masq_build
      /\ \A a \in {"FLAGS", "REG_PROTO_MIN", "REG_PROTO_MAX"} :
            Row(a, a, "be32", "api") \in masq_parse
  BY Rows DEF masq_build, masq_parse
<1>5. SetterAgrees("masq")
  BY <1>1, <1>2, <1>3, <1>4, RowIs DEF SetterAgrees, Fields, Named
<1>6. BuilderAgrees("masq")
  BY <1>1, <1>2, <1>3, Rows, RowIs
     DEF BuilderAgrees, Fields, Fits, Named, Special, Names, masq_build
<1>7. ParserAgrees("masq")
  BY <1>1, <1>2, <1>4, Rows, RowIs DEF ParserAgrees, Undoes, masq_build, masq_parse
<1>8. CheckAgrees("masq")
  BY <1>1, <1>2, Rows, RowIs
     DEF CheckAgrees, Insists, Named, Special, masq_cb, masq_build, Check, ++
<1>9. DataInOrder("masq")
  BY <1>1, <1>2, <1>3 DEF DataInOrder, DataOrder, Fields, Named
<1> QED BY <1>5, <1>6, <1>7, <1>8, <1>9 DEF TablesAgree

\* The four functions of match agree.
LEMMA MatchAgrees == TablesAgree("match")
<1>1. /\ ops["match"].set = match_set /\ ops["match"].cb = match_cb
      /\ ops["match"].build = match_build /\ ops["match"].parse = match_parse
  BY DEF ops, Ops
<1>2. /\ api["match"] = <<"NAME", "REV", "INFO">>
      /\ abi["match"] = <<"NAME", "REV", "INFO", "PROTOCOL", "FLAGS">>
  BY DEF api, abi
<1>3. /\ DOMAIN match_set = {"NAME", "REV", "INFO"}
      /\ match_set["NAME"] = "name"
      /\ match_set["REV"] = "u32"
      /\ match_set["INFO"] = "info"
  BY DEF match_set, Held, ++
<1>4. /\ Row("NAME", "NAME", "strz", "abi") \in match_build
      /\ Row("REV", "REV", "be32", "abi") \in match_build
      /\ Row("INFO", "INFO", "info", "abi") \in match_build
      /\ Row("NAME", "NAME", "name", "api") \in match_parse
      /\ Row("REV", "REV", "be32", "api") \in match_parse
      /\ Row("INFO", "INFO", "info", "api") \in match_parse
  BY Rows DEF match_build, match_parse
<1>5. SetterAgrees("match")
  BY <1>1, <1>2, <1>3, <1>4, RowIs DEF SetterAgrees, Fields, Named
<1>6. BuilderAgrees("match")
  BY <1>1, <1>2, <1>3, Rows, RowIs
     DEF BuilderAgrees, Fields, Fits, Named, Special, Names, match_build
<1>7. ParserAgrees("match")
  BY <1>1, <1>2, <1>4, Rows, RowIs DEF ParserAgrees, Undoes, match_build, match_parse
<1>8. CheckAgrees("match")
  BY <1>1, <1>2, Rows, RowIs
     DEF CheckAgrees, Insists, Named, Special, match_cb, match_build, Check, ++
<1>9. DataInOrder("match")
  BY <1>1, <1>2, <1>3 DEF DataInOrder, DataOrder, Fields, Named
<1> QED BY <1>5, <1>6, <1>7, <1>8, <1>9 DEF TablesAgree

\* The four functions of meta agree.
LEMMA MetaAgrees == TablesAgree("meta")
<1>1. /\ ops["meta"].set = meta_set /\ ops["meta"].cb = meta_cb
      /\ ops["meta"].build = meta_build /\ ops["meta"].parse = meta_parse
  BY DEF ops, Ops
<1>2. /\ api["meta"] = <<"KEY", "DREG", "SREG">>
      /\ abi["meta"] = <<"DREG", "KEY", "SREG">>
  BY DEF api, abi
<1>3. /\ DOMAIN meta_set = {"KEY", "DREG", "SREG"}
      /\ \A a \in {"KEY", "DREG", "SREG"} : meta_set[a] = "u32"
  BY DEF meta_set, Held, ++
<1>4. /\ \A a \in {"KEY", "DREG", "SREG"} : Row(a, a, "be32", "abi") \in meta_build
      /\ \A a \in {"KEY", "DREG", "SREG"} : Row(a, a, "be32", "api") \in meta_parse
  BY Rows DEF meta_build, meta_parse
<1>5. SetterAgrees("meta")
  BY <1>1, <1>2, <1>3, <1>4, RowIs DEF SetterAgrees, Fields, Named
<1>6. BuilderAgrees("meta")
  BY <1>1, <1>2, <1>3, Rows, RowIs
     DEF BuilderAgrees, Fields, Fits, Named, Special, Names, meta_build
<1>7. ParserAgrees("meta")
  BY <1>1, <1>2, <1>4, Rows, RowIs DEF ParserAgrees, Undoes, meta_build, meta_parse
<1>8. CheckAgrees("meta")
  BY <1>1, <1>2, Rows, RowIs
     DEF CheckAgrees, Insists, Named, Special, meta_cb, meta_build, Check, ++
<1>9. DataInOrder("meta")
  BY <1>1, <1>2, <1>3 DEF DataInOrder, DataOrder, Fields, Named
<1> QED BY <1>5, <1>6, <1>7, <1>8, <1>9 DEF TablesAgree

\* The four functions of nat agree.
LEMMA NatAgrees == TablesAgree("nat")
<1>1. /\ ops["nat"].set = nat_set /\ ops["nat"].cb = nat_cb
      /\ ops["nat"].build = nat_build /\ ops["nat"].parse = nat_parse
  BY DEF ops, Ops
<1>2. /\ api["nat"] = <<"TYPE", "FAMILY", "REG_ADDR_MIN", "REG_ADDR_MAX", "REG_PROTO_MIN",
                        "REG_PROTO_MAX", "FLAGS">>
      /\ abi["nat"] = <<"TYPE", "FAMILY", "REG_ADDR_MIN", "REG_ADDR_MAX", "REG_PROTO_MIN",
                        "REG_PROTO_MAX", "FLAGS">>
  BY DEF api, abi
<1>3. /\ DOMAIN nat_set = {"TYPE", "FAMILY", "REG_ADDR_MIN", "REG_ADDR_MAX", "REG_PROTO_MIN",
                           "REG_PROTO_MAX", "FLAGS"}
      /\ \A a \in {"TYPE", "FAMILY", "REG_ADDR_MIN", "REG_ADDR_MAX", "REG_PROTO_MIN",
            "REG_PROTO_MAX", "FLAGS"} : nat_set[a] = "u32"
  BY DEF nat_set, Held, ++
<1>4. /\ \A a \in {"TYPE", "FAMILY", "REG_ADDR_MIN", "REG_ADDR_MAX", "REG_PROTO_MIN",
            "REG_PROTO_MAX", "FLAGS"} : Row(a, a, "be32", "abi") \in nat_build
      /\ \A a \in {"TYPE", "FAMILY", "REG_ADDR_MIN", "REG_ADDR_MAX", "REG_PROTO_MIN",
            "REG_PROTO_MAX", "FLAGS"} : Row(a, a, "be32", "api") \in nat_parse
  BY Rows DEF nat_build, nat_parse
<1>5. SetterAgrees("nat")
  BY <1>1, <1>2, <1>3, <1>4, RowIs DEF SetterAgrees, Fields, Named
<1>6. BuilderAgrees("nat")
  BY <1>1, <1>2, <1>3, Rows, RowIs
     DEF BuilderAgrees, Fields, Fits, Named, Special, Names, nat_build
<1>7. ParserAgrees("nat")
  BY <1>1, <1>2, <1>4, Rows, RowIs DEF ParserAgrees, Undoes, nat_build, nat_parse
<1>8. CheckAgrees("nat")
  BY <1>1, <1>2, Rows, RowIs
     DEF CheckAgrees, Insists, Named, Special, nat_cb, nat_build, Check, ++
<1>9. DataInOrder("nat")
  BY <1>1, <1>2, <1>3 DEF DataInOrder, DataOrder, Fields, Named
<1> QED BY <1>5, <1>6, <1>7, <1>8, <1>9 DEF TablesAgree

\* The four functions of numgen agree.
LEMMA NumgenAgrees == TablesAgree("numgen")
<1>1. /\ ops["numgen"].set = numgen_set /\ ops["numgen"].cb = numgen_cb
      /\ ops["numgen"].build = numgen_build /\ ops["numgen"].parse = numgen_parse
  BY DEF ops, Ops
<1>2. /\ api["numgen"] = <<"DREG", "MODULUS", "TYPE", "OFFSET", "SET_NAME", "SET_ID">>
      /\ abi["numgen"] = <<"DREG", "MODULUS", "TYPE", "OFFSET", "SET_NAME", "SET_ID">>
  BY DEF api, abi
<1>3. /\ DOMAIN numgen_set = {"DREG", "MODULUS", "TYPE", "OFFSET"}
      /\ \A a \in {"DREG", "MODULUS", "TYPE", "OFFSET"} : numgen_set[a] = "u32"
  BY DEF numgen_set, Held, ++
<1>4. /\ \A a \in {"DREG", "MODULUS", "TYPE", "OFFSET"} :
            Row(a, a, "be32", "abi") \in numgen_build
      /\ \A a \in {"DREG", "MODULUS", "TYPE", "OFFSET"} :
            Row(a, a, "be32", "api") \in numgen_parse
  BY Rows DEF numgen_build, numgen_parse
<1>5. SetterAgrees("numgen")
  BY <1>1, <1>2, <1>3, <1>4, RowIs DEF SetterAgrees, Fields, Named
<1>6. BuilderAgrees("numgen")
  BY <1>1, <1>2, <1>3, Rows, RowIs
     DEF BuilderAgrees, Fields, Fits, Named, Special, Names, numgen_build
<1>7. ParserAgrees("numgen")
  BY <1>1, <1>2, <1>4, Rows, RowIs DEF ParserAgrees, Undoes, numgen_build, numgen_parse
<1>8. CheckAgrees("numgen")
  BY <1>1, <1>2, Rows, RowIs
     DEF CheckAgrees, Insists, Named, Special, numgen_cb, numgen_build, Check, ++
<1>9. DataInOrder("numgen")
  BY <1>1, <1>2, <1>3 DEF DataInOrder, DataOrder, Fields, Named
<1> QED BY <1>5, <1>6, <1>7, <1>8, <1>9 DEF TablesAgree

\* The four functions of objref agree.
LEMMA ObjrefAgrees == TablesAgree("objref")
<1>1. /\ ops["objref"].set = objref_set /\ ops["objref"].cb = objref_cb
      /\ ops["objref"].build = objref_build /\ ops["objref"].parse = objref_parse
  BY DEF ops, Ops
<1>2. /\ api["objref"] = <<"IMM_TYPE", "IMM_NAME", "SET_SREG", "SET_NAME", "SET_ID">>
      /\ abi["objref"] = <<"IMM_TYPE", "IMM_NAME", "SET_SREG", "SET_NAME", "SET_ID">>
  BY DEF api, abi
<1>3. /\ DOMAIN objref_set = {"IMM_TYPE", "SET_SREG", "SET_ID", "IMM_NAME", "SET_NAME"}
      /\ \A a \in {"IMM_TYPE", "SET_SREG", "SET_ID"} : objref_set[a] = "u32"
      /\ \A a \in {"IMM_NAME", "SET_NAME"} : objref_set[a] = "name"
  BY DEF objref_set, Held, ++
<1>4. /\ \A a \in {"IMM_TYPE", "SET_SREG", "SET_ID"} : Row(a, a, "be32", "abi") \in objref_build
      /\ \A a \in {"IMM_NAME", "SET_NAME"} : Row(a, a, "str", "abi") \in objref_build
      /\ \A a \in {"IMM_TYPE", "SET_SREG", "SET_ID"} : Row(a, a, "be32", "api") \in objref_parse
      /\ \A a \in {"IMM_NAME", "SET_NAME"} : Row(a, a, "name", "api") \in objref_parse
  BY Rows DEF objref_build, objref_parse
<1>5. SetterAgrees("objref")
  BY <1>1, <1>2, <1>3, <1>4, RowIs DEF SetterAgrees, Fields, Named
<1>6. BuilderAgrees("objref")
  BY <1>1, <1>2, <1>3, Rows, RowIs
     DEF BuilderAgrees, Fields, Fits, Named, Special, Names, objref_build
<1>7. ParserAgrees("objref")
  BY <1>1, <1>2, <1>4, Rows, RowIs DEF ParserAgrees, Undoes, objref_build, objref_parse
<1>8. CheckAgrees("objref")
  BY <1>1, <1>2, Rows, RowIs
     DEF CheckAgrees, Insists, Named, Special, objref_cb, objref_build, Check, ++
<1>9. DataInOrder("objref")
  BY <1>1, <1>2, <1>3 DEF DataInOrder, DataOrder, Fields, Named
<1> QED BY <1>5, <1>6, <1>7, <1>8, <1>9 DEF TablesAgree

\* The four functions of osf agree.
LEMMA OsfAgrees == TablesAgree("osf")
<1>1. /\ ops["osf"].set = osf_set /\ ops["osf"].cb = osf_cb
      /\ ops["osf"].build = osf_build /\ ops["osf"].parse = osf_parse
  BY DEF ops, Ops
<1>2. /\ api["osf"] = <<"DREG", "TTL", "FLAGS">>
      /\ abi["osf"] = <<"DREG", "TTL", "FLAGS">>
  BY DEF api, abi
<1>3. /\ DOMAIN osf_set = {"DREG", "FLAGS", "TTL"}
      /\ \A a \in {"DREG", "FLAGS"} : osf_set[a] = "u32"
      /\ osf_set["TTL"] = "u8"
  BY DEF osf_set, Held, ++
<1>4. /\ Row("FLAGS", "FLAGS", "nonzero", "api") \in osf_build
      /\ Row("DREG", "DREG", "be32", "api") \in osf_build
      /\ Row("TTL", "TTL", "u8", "api") \in osf_build
      /\ \A a \in {"DREG", "FLAGS"} : Row(a, a, "be32", "api") \in osf_parse
      /\ Row("TTL", "TTL", "u8", "api") \in osf_parse
  BY Rows DEF osf_build, osf_parse
<1>5. SetterAgrees("osf")
  BY <1>1, <1>2, <1>3, <1>4, RowIs DEF SetterAgrees, Fields, Named
<1>6. BuilderAgrees("osf")
  BY <1>1, <1>2, <1>3, Rows, RowIs
     DEF BuilderAgrees, Fields, Fits, Named, Special, Names, osf_build
<1>7. ParserAgrees("osf")
  BY <1>1, <1>2, <1>4, Rows, RowIs DEF ParserAgrees, Undoes, osf_build, osf_parse
<1>8. CheckAgrees("osf")
  BY <1>1, <1>2, Rows, RowIs
     DEF CheckAgrees, Insists, Named, Special, osf_cb, osf_build, CheckApi, ++
<1>9. DataInOrder("osf")
  BY <1>1, <1>2, <1>3 DEF DataInOrder, DataOrder, Fields, Named
<1> QED BY <1>5, <1>6, <1>7, <1>8, <1>9 DEF TablesAgree

\* The four functions of payload agree.
LEMMA PayloadAgrees == TablesAgree("payload")
<1>1. /\ ops["payload"].set = payload_set /\ ops["payload"].cb = payload_cb
      /\ ops["payload"].build = payload_build /\ ops["payload"].parse = payload_parse
  BY DEF ops, Ops
<1>2. /\ api["payload"] = <<"DREG", "BASE", "OFFSET", "LEN", "SREG", "CSUM_TYPE",
                            "CSUM_OFFSET", "FLAGS">>
      /\ abi["payload"] = <<"DREG", "BASE", "OFFSET", "LEN", "SREG", "CSUM_TYPE",
                            "CSUM_OFFSET", "CSUM_FLAGS">>
  BY DEF api, abi
<1>3. /\ DOMAIN payload_set = {"SREG", "DREG", "BASE", "OFFSET", "LEN", "CSUM_TYPE",
                               "CSUM_OFFSET", "FLAGS"}
      /\ \A a \in {"SREG", "DREG", "BASE", "OFFSET", "LEN", "CSUM_TYPE", "CSUM_OFFSET",
            "FLAGS"} : payload_set[a] = "u32"
  BY DEF payload_set, Held, ++
<1>4. /\ \A a \in {"SREG", "DREG", "BASE", "OFFSET", "LEN", "CSUM_TYPE",
            "CSUM_OFFSET"} : Row(a, a, "be32", "abi") \in payload_build
      /\ Row("FLAGS", "CSUM_FLAGS", "be32", "abi") \in payload_build
      /\ \A a \in {"SREG", "DREG", "BASE", "OFFSET", "LEN", "CSUM_TYPE",
            "CSUM_OFFSET"} : Row(a, a, "be32", "api") \in payload_parse
      /\ Row("FLAGS", "CSUM_FLAGS", "be32", "api") \in payload_parse
  BY Rows DEF payload_build, payload_parse
<1>5. SetterAgrees("payload")
  BY <1>1, <1>2, <1>3, <1>4, RowIs DEF SetterAgrees, Fields, Named
<1>6. BuilderAgrees("payload")
  BY <1>1, <1>2, <1>3, Rows, RowIs
     DEF BuilderAgrees, Fields, Fits, Named, Special, Names, payload_build
<1>7. ParserAgrees("payload")
  BY <1>1, <1>2, <1>4, Rows, RowIs, SMTT(20)
     DEF ParserAgrees, Undoes, payload_build, payload_parse
<1>8. CheckAgrees("payload")
  BY <1>1, <1>2, Rows, RowIs
     DEF CheckAgrees, Insists, Named, Special, payload_cb, payload_build, Check, ++
<1>9. DataInOrder("payload")
  BY <1>1, <1>2, <1>3 DEF DataInOrder, DataOrder, Fields, Named
<1> QED BY <1>5, <1>6, <1>7, <1>8, <1>9 DEF TablesAgree

\* The four functions of queue agree.
LEMMA QueueAgrees == TablesAgree("queue")
<1>1. /\ ops["queue"].set = queue_set /\ ops["queue"].cb = queue_cb
      /\ ops["queue"].build = queue_build /\ ops["queue"].parse = queue_parse
  BY DEF ops, Ops
<1>2. /\ api["queue"] = <<"NUM", "TOTAL", "FLAGS", "SREG_QNUM">>
      /\ abi["queue"] = <<"NUM", "TOTAL", "FLAGS", "SREG_QNUM">>
  BY DEF api, abi
<1>3. /\ DOMAIN queue_set = {"NUM", "TOTAL", "FLAGS", "SREG_QNUM"}
      /\ \A a \in {"NUM", "TOTAL", "FLAGS"} : queue_set[a] = "u16"
      /\ queue_set["SREG_QNUM"] = "u32"
  BY DEF queue_set, Held, ++
<1>4. /\ \A a \in {"NUM", "TOTAL", "FLAGS"} : Row(a, a, "be16", "abi") \in queue_build
      /\ Row("SREG_QNUM", "SREG_QNUM", "be32", "abi") \in queue_build
      /\ \A a \in {"NUM", "TOTAL", "FLAGS"} : Row(a, a, "be16", "api") \in queue_parse
      /\ Row("SREG_QNUM", "SREG_QNUM", "be32", "api") \in queue_parse
  BY Rows DEF queue_build, queue_parse
<1>5. SetterAgrees("queue")
  BY <1>1, <1>2, <1>3, <1>4, RowIs DEF SetterAgrees, Fields, Named
<1>6. BuilderAgrees("queue")
  BY <1>1, <1>2, <1>3, Rows, RowIs
     DEF BuilderAgrees, Fields, Fits, Named, Special, Names, queue_build
<1>7. ParserAgrees("queue")
  BY <1>1, <1>2, <1>4, Rows, RowIs DEF ParserAgrees, Undoes, queue_build, queue_parse
<1>8. CheckAgrees("queue")
  BY <1>1, <1>2, Rows, RowIs
     DEF CheckAgrees, Insists, Named, Special, queue_cb, queue_build, Check, ++
<1>9. DataInOrder("queue")
  BY <1>1, <1>2, <1>3 DEF DataInOrder, DataOrder, Fields, Named
<1> QED BY <1>5, <1>6, <1>7, <1>8, <1>9 DEF TablesAgree

\* The four functions of quota agree.
LEMMA QuotaAgrees == TablesAgree("quota")
<1>1. /\ ops["quota"].set = quota_set /\ ops["quota"].cb = quota_cb
      /\ ops["quota"].build = quota_build /\ ops["quota"].parse = quota_parse
  BY DEF ops, Ops
<1>2. /\ api["quota"] = <<"BYTES", "FLAGS", "CONSUMED">>
      /\ abi["quota"] = <<"BYTES", "FLAGS", "PAD", "CONSUMED">>
  BY DEF api, abi
<1>3. /\ DOMAIN quota_set = {"BYTES", "CONSUMED", "FLAGS"}
      /\ \A a \in {"BYTES", "CONSUMED"} : quota_set[a] = "u64"
      /\ quota_set["FLAGS"] = "u32"
  BY DEF quota_set, Held, ++
<1>4. /\ \A a \in {"BYTES", "CONSUMED"} : Row(a, a, "be64", "abi") \in quota_build
      /\ Row("FLAGS", "FLAGS", "be32", "abi") \in quota_build
      /\ \A a \in {"BYTES", "CONSUMED"} : Row(a, a, "be64", "api") \in quota_parse
      /\ Row("FLAGS", "FLAGS", "be32", "api") \in quota_parse
  BY Rows DEF quota_build, quota_parse
<1>5. SetterAgrees("quota")
  BY <1>1, <1>2, <1>3, <1>4, RowIs DEF SetterAgrees, Fields, Named
<1>6. BuilderAgrees("quota")
  BY <1>1, <1>2, <1>3, Rows, RowIs
     DEF BuilderAgrees, Fields, Fits, Named, Special, Names, quota_build
<1>7. ParserAgrees("quota")
  BY <1>1, <1>2, <1>4, Rows, RowIs DEF ParserAgrees, Undoes, quota_build, quota_parse
<1>8. CheckAgrees("quota")
  BY <1>1, <1>2, Rows, RowIs
     DEF CheckAgrees, Insists, Named, Special, quota_cb, quota_build, Check, ++
<1>9. DataInOrder("quota")
  BY <1>1, <1>2, <1>3 DEF DataInOrder, DataOrder, Fields, Named
<1> QED BY <1>5, <1>6, <1>7, <1>8, <1>9 DEF TablesAgree

\* The four functions of range agree.
LEMMA RangeAgrees == TablesAgree("range")
<1>1. /\ ops["range"].set = range_set /\ ops["range"].cb = range_cb
      /\ ops["range"].build = range_build /\ ops["range"].parse = range_parse
  BY DEF ops, Ops
<1>2. /\ api["range"] = <<"SREG", "OP", "FROM_DATA", "TO_DATA">>
      /\ abi["range"] = <<"SREG", "OP", "FROM_DATA", "TO_DATA">>
  BY DEF api, abi
<1>3. /\ DOMAIN range_set = {"SREG", "OP", "FROM_DATA", "TO_DATA"}
      /\ \A a \in {"SREG", "OP"} : range_set[a] = "u32"
      /\ \A a \in {"FROM_DATA", "TO_DATA"} : range_set[a] = "data"
  BY DEF range_set, Held, ++
<1>4. /\ \A a \in {"SREG", "OP"} : Row(a, a, "be32", "abi") \in range_build
      /\ \A a \in {"FROM_DATA", "TO_DATA"} : Row(a, a, "data", "abi") \in range_build
      /\ \A a \in {"SREG", "OP"} : Row(a, a, "be32", "abi") \in range_parse
      /\ \A a \in {"FROM_DATA", "TO_DATA"} : Row(a, a, "data", "abi") \in range_parse
  BY Rows DEF range_build, range_parse
<1>5. SetterAgrees("range")
  BY <1>1, <1>2, <1>3, <1>4, RowIs DEF SetterAgrees, Fields, Named
<1>6. BuilderAgrees("range")
  BY <1>1, <1>2, <1>3, Rows, RowIs
     DEF BuilderAgrees, Fields, Fits, Named, Special, Names, range_build
<1>7. ParserAgrees("range")
  BY <1>1, <1>2, <1>4, Rows, RowIs DEF ParserAgrees, Undoes, range_build, range_parse
<1>8. CheckAgrees("range")
  BY <1>1, <1>2, Rows, RowIs
     DEF CheckAgrees, Insists, Named, Special, range_cb, range_build, Check, ++
<1>9. DataInOrder("range")
  BY <1>1, <1>2, <1>3 DEF DataInOrder, DataOrder, Fields, Named
<1> QED BY <1>5, <1>6, <1>7, <1>8, <1>9 DEF TablesAgree

\* The four functions of redir agree.
LEMMA RedirAgrees == TablesAgree("redir")
<1>1. /\ ops["redir"].set = redir_set /\ ops["redir"].cb = redir_cb
      /\ ops["redir"].build = redir_build /\ ops["redir"].parse = redir_parse
  BY DEF ops, Ops
<1>2. /\ api["redir"] = <<"REG_PROTO_MIN", "REG_PROTO_MAX", "FLAGS">>
      /\ abi["redir"] = <<"REG_PROTO_MIN", "REG_PROTO_MAX", "FLAGS">>
  BY DEF api, abi
<1>3. /\ DOMAIN redir_set = {"REG_PROTO_MIN", "REG_PROTO_MAX", "FLAGS"}
      /\ \A a \in {"REG_PROTO_MIN", "REG_PROTO_MAX", "FLAGS"} : redir_set[a] = "u32"
  BY DEF redir_set, Held, ++
<1>4. /\ \A a \in {"REG_PROTO_MIN", "REG_PROTO_MAX", "FLAGS"} :
            Row(a, a, "be32", "abi") \in redir_build
      /\ \A a \in {"REG_PROTO_MIN", "REG_PROTO_MAX", "FLAGS"} :
            Row(a, a, "be32", "api") \in redir_parse
  BY Rows DEF redir_build, redir_parse
<1>5. SetterAgrees("redir")
  BY <1>1, <1>2, <1>3, <1>4, RowIs DEF SetterAgrees, Fields, Named
<1>6. BuilderAgrees("redir")
  BY <1>1, <1>2, <1>3, Rows, RowIs
     DEF BuilderAgrees, Fields, Fits, Named, Special, Names, redir_build
<1>7. ParserAgrees("redir")
  BY <1>1, <1>2, <1>4, Rows, RowIs DEF ParserAgrees, Undoes, redir_build, redir_parse
<1>8. CheckAgrees("redir")
  BY <1>1, <1>2, Rows, RowIs
     DEF CheckAgrees, Insists, Named, Special, redir_cb, redir_build, Check, ++
<1>9. DataInOrder("redir")
  BY <1>1, <1>2, <1>3 DEF DataInOrder, DataOrder, Fields, Named
<1> QED BY <1>5, <1>6, <1>7, <1>8, <1>9 DEF TablesAgree

\* The four functions of reject agree.
LEMMA RejectAgrees == TablesAgree("reject")
<1>1. /\ ops["reject"].set = reject_set /\ ops["reject"].cb = reject_cb
      /\ ops["reject"].build = reject_build /\ ops["reject"].parse = reject_parse
  BY DEF ops, Ops
<1>2. /\ api["reject"] = <<"TYPE", "CODE">>
      /\ abi["reject"] = <<"TYPE", "ICMP_CODE">>
  BY DEF api, abi
<1>3. /\ DOMAIN reject_set = {"TYPE", "CODE"}
      /\ reject_set["TYPE"] = "u32"
      /\ reject_set["CODE"] = "u8"
  BY DEF reject_set, Held, ++
<1>4. /\ Row("TYPE", "TYPE", "be32", "abi") \in reject_build
      /\ Row("CODE", "ICMP_CODE", "u8", "abi") \in reject_build
      /\ Row("TYPE", "TYPE", "be32", "api") \in reject_parse
      /\ Row("CODE", "ICMP_CODE", "u8", "api") \in reject_parse
  BY Rows DEF reject_build, reject_parse
<1>5. SetterAgrees("reject")
  BY <1>1, <1>2, <1>3, <1>4, RowIs DEF SetterAgrees, Fields, Named
<1>6. BuilderAgrees("reject")
  BY <1>1, <1>2, <1>3, Rows, RowIs
     DEF BuilderAgrees, Fields, Fits, Named, Special, Names, reject_build
<1>7. ParserAgrees("reject")
  BY <1>1, <1>2, <1>4, Rows, RowIs DEF ParserAgrees, Undoes, reject_build, reject_parse
<1>8. CheckAgrees("reject")
  BY <1>1, <1>2, Rows, RowIs
     DEF CheckAgrees, Insists, Named, Special, reject_cb, reject_build, Check, ++
<1>9. DataInOrder("reject")
  BY <1>1, <1>2, <1>3 DEF DataInOrder, DataOrder, Fields, Named
<1> QED BY <1>5, <1>6, <1>7, <1>8, <1>9 DEF TablesAgree

\* The four functions of rt agree.
LEMMA RtAgrees == TablesAgree("rt")
<1>1. /\ ops["rt"].set = rt_set /\ ops["rt"].cb = rt_cb
      /\ ops["rt"].build = rt_build /\ ops["rt"].parse = rt_parse
  BY DEF ops, Ops
<1>2. /\ api["rt"] = <<"KEY", "DREG">>
      /\ abi["rt"] = <<"DREG", "KEY">>
  BY DEF api, abi
<1>3. /\ DOMAIN rt_set = {"KEY", "DREG"}
      /\ \A a \in {"KEY", "DREG"} : rt_set[a] = "u32"
  BY DEF rt_set, Held, ++
<1>4. /\ \A a \in {"KEY", "DREG"} : Row(a, a, "be32", "abi") \in rt_build
      /\ \A a \in {"KEY", "DREG"} : Row(a, a, "be32", "api") \in rt_parse
  BY Rows DEF rt_build, rt_parse
<1>5. SetterAgrees("rt")
  BY <1>1, <1>2, <1>3, <1>4, RowIs DEF SetterAgrees, Fields, Named
<1>6. BuilderAgrees("rt")
  BY <1>1, <1>2, <1>3, Rows, RowIs
     DEF BuilderAgrees, Fields, Fits, Named, Special, Names, rt_build
<1>7. ParserAgrees("rt")
  BY <1>1, <1>2, <1>4, Rows, RowIs DEF ParserAgrees, Undoes, rt_build, rt_parse
<1>8. CheckAgrees("rt")
  BY <1>1, <1>2, Rows, RowIs
     DEF CheckAgrees, Insists, Named, Special, rt_cb, rt_build, Check, ++
<1>9. DataInOrder("rt")
  BY <1>1, <1>2, <1>3 DEF DataInOrder, DataOrder, Fields, Named
<1> QED BY <1>5, <1>6, <1>7, <1>8, <1>9 DEF TablesAgree

\* The four functions of socket agree.
LEMMA SocketAgrees == TablesAgree("socket")
<1>1. /\ ops["socket"].set = socket_set /\ ops["socket"].cb = socket_cb
      /\ ops["socket"].build = socket_build /\ ops["socket"].parse = socket_parse
  BY DEF ops, Ops
<1>2. /\ api["socket"] = <<"KEY", "DREG", "LEVEL">>
      /\ abi["socket"] = <<"KEY", "DREG", "LEVEL">>
  BY DEF api, abi
<1>3. /\ DOMAIN socket_set = {"KEY", "DREG", "LEVEL"}
      /\ \A a \in {"KEY", "DREG", "LEVEL"} : socket_set[a] = "u32"
  BY DEF socket_set, Held, ++
<1>4. /\ \A a \in {"KEY", "DREG", "LEVEL"} : Row(a, a, "be32", "abi") \in socket_build
      /\ \A a \in {"KEY", "DREG", "LEVEL"} : Row(a, a, "be32", "api") \in socket_parse
  BY Rows DEF socket_build, socket_parse
<1>5. SetterAgrees("socket")
  BY <1>1, <1>2, <1>3, <1>4, RowIs DEF SetterAgrees, Fields, Named
<1>6. BuilderAgrees("socket")
  BY <1>1, <1>2, <1>3, Rows, RowIs
     DEF BuilderAgrees, Fields, Fits, Named, Special, Names, socket_build
<1>7. ParserAgrees("socket")
  BY <1>1, <1>2, <1>4, Rows, RowIs DEF ParserAgrees, Undoes, socket_build, socket_parse
<1>8. CheckAgrees("socket")
  BY <1>1, <1>2, Rows, RowIs
     DEF CheckAgrees, Insists, Named, Special, socket_cb, socket_build, Check, ++
<1>9. DataInOrder("socket")
  BY <1>1, <1>2, <1>3 DEF DataInOrder, DataOrder, Fields, Named
<1> QED BY <1>5, <1>6, <1>7, <1>8, <1>9 DEF TablesAgree

\* The four functions of synproxy agree.
LEMMA SynproxyAgrees == TablesAgree("synproxy")
<1>1. /\ ops["synproxy"].set = synproxy_set /\ ops["synproxy"].cb = synproxy_cb
      /\ ops["synproxy"].build = synproxy_build /\ ops["synproxy"].parse = synproxy_parse
  BY DEF ops, Ops
<1>2. /\ api["synproxy"] = <<"MSS", "WSCALE", "FLAGS">>
      /\ abi["synproxy"] = <<"MSS", "WSCALE", "FLAGS">>
  BY DEF api, abi
<1>3. /\ DOMAIN synproxy_set = {"MSS", "WSCALE", "FLAGS"}
      /\ synproxy_set["MSS"] = "u16"
      /\ synproxy_set["WSCALE"] = "u8"
      /\ synproxy_set["FLAGS"] = "u32"
  BY DEF synproxy_set, Held, ++
<1>4. /\ Row("MSS", "MSS", "be16", "api") \in synproxy_build
      /\ Row("WSCALE", "WSCALE", "u8", "api") \in synproxy_build
      /\ Row("FLAGS", "FLAGS", "be32", "api") \in synproxy_build
      /\ Row("MSS", "MSS", "be16", "api") \in synproxy_parse
      /\ Row("WSCALE", "WSCALE", "u8", "api") \in synproxy_parse
      /\ Row("FLAGS", "FLAGS", "be32", "api") \in synproxy_parse
  BY Rows DEF synproxy_build, synproxy_parse
<1>5. SetterAgrees("synproxy")
  BY <1>1, <1>2, <1>3, <1>4, RowIs DEF SetterAgrees, Fields, Named
<1>6. BuilderAgrees("synproxy")
  BY <1>1, <1>2, <1>3, Rows, RowIs
     DEF BuilderAgrees, Fields, Fits, Named, Special, Names, synproxy_build
<1>7. ParserAgrees("synproxy")
  BY <1>1, <1>2, <1>4, Rows, RowIs DEF ParserAgrees, Undoes, synproxy_build, synproxy_parse
<1>8. CheckAgrees("synproxy")
  BY <1>1, <1>2, Rows, RowIs
     DEF CheckAgrees, Insists, Named, Special, synproxy_cb, synproxy_build, CheckApi, ++
<1>9. DataInOrder("synproxy")
  BY <1>1, <1>2, <1>3 DEF DataInOrder, DataOrder, Fields, Named
<1> QED BY <1>5, <1>6, <1>7, <1>8, <1>9 DEF TablesAgree

\* The four functions of target agree.
LEMMA TargetAgrees == TablesAgree("target")
<1>1. /\ ops["target"].set = target_set /\ ops["target"].cb = target_cb
      /\ ops["target"].build = target_build /\ ops["target"].parse = target_parse
  BY DEF ops, Ops
<1>2. /\ api["target"] = <<"NAME", "REV", "INFO">>
      /\ abi["target"] = <<"NAME", "REV", "INFO", "PROTOCOL", "FLAGS">>
  BY DEF api, abi
<1>3. /\ DOMAIN target_set = {"NAME", "REV", "INFO"}
      /\ target_set["NAME"] = "name"
      /\ target_set["REV"] = "u32"
      /\ target_set["INFO"] = "info"
  BY DEF target_set, Held, ++
<1>4. /\ Row("NAME", "NAME", "strz", "abi") \in target_build
      /\ Row("REV", "REV", "be32", "abi") \in target_build
      /\ Row("INFO", "INFO", "info", "abi") \in target_build
      /\ Row("NAME", "NAME", "name", "api") \in target_parse
      /\ Row("REV", "REV", "be32", "api") \in target_parse
      /\ Row("INFO", "INFO", "info", "api") \in target_parse
  BY Rows DEF target_build, target_parse
<1>5. SetterAgrees("target")
  BY <1>1, <1>2, <1>3, <1>4, RowIs DEF SetterAgrees, Fields, Named
<1>6. BuilderAgrees("target")
  BY <1>1, <1>2, <1>3, Rows, RowIs
     DEF BuilderAgrees, Fields, Fits, Named, Special, Names, target_build
<1>7. ParserAgrees("target")
  BY <1>1, <1>2, <1>4, Rows, RowIs DEF ParserAgrees, Undoes, target_build, target_parse
<1>8. CheckAgrees("target")
  BY <1>1, <1>2, Rows, RowIs
     DEF CheckAgrees, Insists, Named, Special, target_cb, target_build, Check, ++
<1>9. DataInOrder("target")
  BY <1>1, <1>2, <1>3 DEF DataInOrder, DataOrder, Fields, Named
<1> QED BY <1>5, <1>6, <1>7, <1>8, <1>9 DEF TablesAgree

\* The four functions of tproxy agree.
LEMMA TproxyAgrees == TablesAgree("tproxy")
<1>1. /\ ops["tproxy"].set = tproxy_set /\ ops["tproxy"].cb = tproxy_cb
      /\ ops["tproxy"].build = tproxy_build /\ ops["tproxy"].parse = tproxy_parse
  BY DEF ops, Ops
<1>2. /\ api["tproxy"] = <<"FAMILY", "REG_ADDR", "REG_PORT">>
      /\ abi["tproxy"] = <<"FAMILY", "REG_ADDR", "REG_PORT">>
  BY DEF api, abi
<1>3. /\ DOMAIN tproxy_set = {"FAMILY", "REG_ADDR", "REG_PORT"}
      /\ \A a \in {"FAMILY", "REG_ADDR", "REG_PORT"} : tproxy_set[a] = "u32"
  BY DEF tproxy_set, Held, ++
<1>4. /\ \A a \in {"FAMILY", "REG_ADDR", "REG_PORT"} : Row(a, a, "be32", "abi") \in tproxy_build
      /\ \A a \in {"FAMILY", "REG_ADDR", "REG_PORT"} : Row(a, a, "be32", "api") \in tproxy_parse
  BY Rows DEF tproxy_build, tproxy_parse
<1>5. SetterAgrees("tproxy")
  BY <1>1, <1>2, <1>3, <1>4, RowIs DEF SetterAgrees, Fields, Named
<1>6. BuilderAgrees("tproxy")
  BY <1>1, <1>2, <1>3, Rows, RowIs
     DEF BuilderAgrees, Fields, Fits, Named, Special, Names, tproxy_build
<1>7. ParserAgrees("tproxy")
  BY <1>1, <1>2, <1>4, Rows, RowIs DEF ParserAgrees, Undoes, tproxy_build, tproxy_parse
<1>8. CheckAgrees("tproxy")
  BY <1>1, <1>2, Rows, RowIs
     DEF CheckAgrees, Insists, Named, Special, tproxy_cb, tproxy_build, Check, ++
<1>9. DataInOrder("tproxy")
  BY <1>1, <1>2, <1>3 DEF DataInOrder, DataOrder, Fields, Named
<1> QED BY <1>5, <1>6, <1>7, <1>8, <1>9 DEF TablesAgree

\* The four functions of tunnel agree.
LEMMA TunnelAgrees == TablesAgree("tunnel")
<1>1. /\ ops["tunnel"].set = tunnel_set /\ ops["tunnel"].cb = tunnel_cb
      /\ ops["tunnel"].build = tunnel_build /\ ops["tunnel"].parse = tunnel_parse
  BY DEF ops, Ops
<1>2. /\ api["tunnel"] = <<"KEY", "DREG">>
      /\ abi["tunnel"] = <<"KEY", "DREG", "MODE">>
  BY DEF api, abi
<1>3. /\ DOMAIN tunnel_set = {"KEY", "DREG"}
      /\ \A a \in {"KEY", "DREG"} : tunnel_set[a] = "u32"
  BY DEF tunnel_set, Held, ++
<1>4. /\ \A a \in {"KEY", "DREG"} : Row(a, a, "be32", "abi") \in tunnel_build
      /\ \A a \in {"KEY", "DREG"} : Row(a, a, "be32", "api") \in tunnel_parse
  BY Rows DEF tunnel_build, tunnel_parse
<1>5. SetterAgrees("tunnel")
  BY <1>1, <1>2, <1>3, <1>4, RowIs DEF SetterAgrees, Fields, Named
<1>6. BuilderAgrees("tunnel")
  BY <1>1, <1>2, <1>3, Rows, RowIs
     DEF BuilderAgrees, Fields, Fits, Named, Special, Names, tunnel_build
<1>7. ParserAgrees("tunnel")
  BY <1>1, <1>2, <1>4, Rows, RowIs DEF ParserAgrees, Undoes, tunnel_build, tunnel_parse
<1>8. CheckAgrees("tunnel")
  BY <1>1, <1>2, Rows, RowIs
     DEF CheckAgrees, Insists, Named, Special, tunnel_cb, tunnel_build, Check, ++
<1>9. DataInOrder("tunnel")
  BY <1>1, <1>2, <1>3 DEF DataInOrder, DataOrder, Fields, Named
<1> QED BY <1>5, <1>6, <1>7, <1>8, <1>9 DEF TablesAgree

\* The four functions of xfrm agree.
LEMMA XfrmAgrees == TablesAgree("xfrm")
<1>1. /\ ops["xfrm"].set = xfrm_set /\ ops["xfrm"].cb = xfrm_cb
      /\ ops["xfrm"].build = xfrm_build /\ ops["xfrm"].parse = xfrm_parse
  BY DEF ops, Ops
<1>2. /\ api["xfrm"] = <<"DREG", "SREG", "KEY", "DIR", "SPNUM">>
      /\ abi["xfrm"] = <<"DREG", "KEY", "DIR", "SPNUM">>
  BY DEF api, abi
<1>3. /\ DOMAIN xfrm_set = {"KEY", "SPNUM", "DREG", "DIR"}
      /\ \A a \in {"KEY", "SPNUM", "DREG"} : xfrm_set[a] = "u32"
      /\ xfrm_set["DIR"] = "u8"
  BY DEF xfrm_set, Held, ++
<1>4. /\ \A a \in {"KEY", "SPNUM", "DREG"} : Row(a, a, "be32", "abi") \in xfrm_build
      /\ Row("DIR", "DIR", "u8", "abi") \in xfrm_build
      /\ \A a \in {"KEY", "SPNUM", "DREG"} : Row(a, a, "be32", "api") \in xfrm_parse
      /\ Row("DIR", "DIR", "u8", "api") \in xfrm_parse
  BY Rows DEF xfrm_build, xfrm_parse
<1>5. SetterAgrees("xfrm")
  BY <1>1, <1>2, <1>3, <1>4, RowIs DEF SetterAgrees, Fields, Named
<1>6. BuilderAgrees("xfrm")
  BY <1>1, <1>2, <1>3, Rows, RowIs
     DEF BuilderAgrees, Fields, Fits, Named, Special, Names, xfrm_build
<1>7. ParserAgrees("xfrm")
  BY <1>1, <1>2, <1>4, Rows, RowIs DEF ParserAgrees, Undoes, xfrm_build, xfrm_parse
<1>8. CheckAgrees("xfrm")
  BY <1>1, <1>2, Rows, RowIs
     DEF CheckAgrees, Insists, Named, Special, xfrm_cb, xfrm_build, Check, ++
<1>9. DataInOrder("xfrm")
  BY <1>1, <1>2, <1>3 DEF DataInOrder, DataOrder, Fields, Named
<1> QED BY <1>5, <1>6, <1>7, <1>8, <1>9 DEF TablesAgree

-----------------------------------------------------------------------------
(* Numbers                                                                 *)

\* An attribute that a numbering names has a number there, and the name of
\* that number is its own.
LEMMA NumberIs ==
  ASSUME NEW enum, NEW a, Named(enum, a)
  PROVE  Number(enum, a) \in DOMAIN enum /\ enum[Number(enum, a)] = a
BY DEF Number, Named

\* Every type agrees with itself.
LEMMA AllAgree == \A k \in Kinds : TablesAgree(k)
<1>1. Kinds = {"bitwise", "byteorder", "cmp", "connlimit", "counter", "ct", "dup",
        "dynset", "exthdr", "fib", "flow", "fullcone", "fwd", "hash", "immediate",
        "last", "limit", "log", "lookup", "masq", "match", "meta", "nat", "numgen",
        "objref", "osf", "payload", "queue", "quota", "range", "redir", "reject",
        "rt", "socket", "synproxy", "target", "tproxy", "tunnel", "xfrm"}
  BY DEF Kinds, ops
<1> QED
  BY <1>1, BitwiseAgrees, ByteorderAgrees, CmpAgrees, ConnlimitAgrees, CounterAgrees,
     CtAgrees, DupAgrees, DynsetAgrees, ExthdrAgrees, FibAgrees, FlowAgrees,
     FullconeAgrees, FwdAgrees, HashAgrees, ImmediateAgrees, LastAgrees, LimitAgrees,
     LogAgrees, LookupAgrees, MasqAgrees, MatchAgrees, MetaAgrees, NatAgrees,
     NumgenAgrees, ObjrefAgrees, OsfAgrees, PayloadAgrees, QueueAgrees, QuotaAgrees,
     RangeAgrees, RedirAgrees, RejectAgrees, RtAgrees, SocketAgrees, SynproxyAgrees,
     TargetAgrees, TproxyAgrees, TunnelAgrees, XfrmAgrees, Zenon

-----------------------------------------------------------------------------
(* Bytes                                                                   *)

\* What a field may hold: an integer of its width, a string without a NUL in
\* it, or data.
Holds(field, v) ==
  IF field \in DOMAIN Width THEN v \in [1..Width[field] -> Nat]
  ELSE v \in Seq(Nat) /\ (field = "name" => \A i \in 1..Len(v) : v[i] # 0)

\* Reversing an integer of n bytes twice, or fitting it into n bytes, gives
\* it back.
LEMMA Turned ==
  ASSUME NEW n \in Nat, NEW v \in [1..n -> Nat]
  PROVE  /\ Len(v) = n /\ Resize(v, n) = v
         /\ Reverse(v) \in [1..n -> Nat] /\ Len(Reverse(v)) = n
         /\ Resize(Reverse(v), n) = Reverse(v) /\ Reverse(Reverse(v)) = v
<1>1. v \in Seq(Nat) /\ Len(v) = n
  BY SeqDef, LenProperties
<1>2. Reverse(v) \in [1..n -> Nat]
  BY <1>1 DEF Reverse
<1>3. Reverse(v) \in Seq(Nat) /\ Len(Reverse(v)) = n
  BY <1>2, SeqDef, LenProperties
<1>4. \A w \in [1..n -> Nat] : Len(w) = n => Resize(w, n) = w
  BY DEF Resize
<1>5. Reverse(Reverse(v)) \in [1..n -> Nat] /\ \A i \in 1..n : Reverse(Reverse(v))[i] = v[i]
  BY <1>1, <1>2, <1>3 DEF Reverse
<1>6. Reverse(Reverse(v)) = v
  BY <1>5
<1> QED
  BY <1>1, <1>2, <1>3, <1>4, <1>6

\* A string is read up to its NUL.
LEMMA StringRead ==
  ASSUME NEW v \in Seq(Nat), \A i \in 1..Len(v) : v[i] # 0, NEW follows
  PROVE  /\ ReadString(Append(v, 0), follows) = v
         /\ ReadString(v, follows) = IF Len(v) % 4 # 0 THEN v ELSE v \o follows
<1> DEFINE z == Append(v, 0)
           ends(w) == {i \in 1..Len(w) : w[i] = 0}
<1>1. z \in Seq(Nat) /\ Len(z) = Len(v) + 1 /\ z[Len(v) + 1] = 0
      /\ \A i \in 1..Len(v) : z[i] = v[i]
  OBVIOUS
<1>2. ends(z) = {Len(v) + 1} /\ ends(v) = {}
  BY <1>1
<1>3. \A S : S = {Len(v) + 1} => Min(S) - 1 = Len(v)
  BY DEF Min
<1>4. SubSeq(z, 1, Len(v)) = v
  BY <1>1
<1>5. ReadString(z, follows) = v
  <2> DEFINE end == Min(ends(z)) - 1
  <2>1. end = Len(v)
    BY <1>2, <1>3
  <2> HIDE DEF end
  <2>2. SubSeq(z, 1, end) = v
    BY <2>1, <1>4
  <2> QED BY <1>2, <2>2 DEF ReadString, end
<1> QED
  BY <1>2, <1>5 DEF ReadString

\* What is sent as an integer, a string or data is what is read back; only a
\* string sent without a NUL takes along what follows it.
Carried(done, v, follows) ==
  IF done = "str" /\ Len(v) % 4 = 0 THEN v \o follows ELSE v

\* So is each way of sending undone by its way of reading.
LEMMA ReadBack ==
  ASSUME NEW field, NEW done, NEW how, NEW v, NEW follows, Fits(done, field),
         Undoes(how, done), Holds(field, v)
  PROVE  Decode(how, Encode(done, v), field, follows)
           = Carried(done, v, follows)
<1>1. CASE done = "u8"
  <2>1. field = "u8" /\ how = "u8" /\ v \in [1..1 -> Nat]
    BY <1>1 DEF Fits, Undoes, Holds, Width
  <2>2. Encode(done, v) = Payload("bytes", v)
    BY <1>1, <2>1, Turned DEF Encode
  <2> QED BY <1>1, <2>1, <2>2 DEF Decode, Payload, Carried
<1>2. CASE done \in {"be16", "be32", "be64", "nonzero"}
  <2> DEFINE n == Width[field]
  <2>1. /\ how \in {"be16", "be32", "be64"} /\ field \in DOMAIN Width /\ n \in Nat
        /\ Width[done] = n /\ Width[how] = n
    BY <1>2 DEF Fits, Undoes, Width
  <2>2. v \in [1..n -> Nat]
    BY <2>1 DEF Holds
  <2> HIDE DEF n
  <2>3. Encode(done, v) = Payload("bytes", Reverse(v))
    BY <1>2, <2>1, <2>2, Turned DEF Encode
  <2>4. Decode(how, Encode(done, v), field, follows) = v
    BY <2>1, <2>2, <2>3, Turned DEF Decode, Payload, n
  <2> QED BY <1>2, <2>4 DEF Carried
<1>3. CASE done \in {"strz", "str"}
  <2>1. field = "name" /\ how = "name" /\ v \in Seq(Nat) /\ \A i \in 1..Len(v) : v[i] # 0
    BY <1>3 DEF Fits, Undoes, Holds, Width
  <2>2. Encode(done, v).is = IF done = "strz" THEN Append(v, 0) ELSE v
    BY <1>3 DEF Encode, Payload
  <2> QED BY <1>3, <2>1, <2>2, StringRead DEF Decode, Carried
<1>4. CASE done \in {"data", "info"}
  <2>1. how = done BY <1>4 DEF Undoes
  <2>2. Encode(done, v).is = v BY <1>4 DEF Encode, Payload
  <2> QED BY <1>4, <2>1, <2>2 DEF Decode, Carried
<1> QED BY <1>1, <1>2, <1>3, <1>4 DEF Fits

\* And what the callback insists on is what is sent, except for an empty
\* string without a NUL.
LEMMA Passes ==
  ASSUME NEW field, NEW done, NEW type, NEW v, Fits(done, field),
         Insists(type, done), Holds(field, v)
  PROVE  Valid(type, Encode(done, v)) <=> ~(done = "str" /\ v = <<>>)
<1>1. CASE done = "u8"
  <2>1. field = "u8" /\ type = "U8" /\ v \in [1..1 -> Nat]
    BY <1>1 DEF Fits, Insists, Holds, Width
  <2>2. Encode(done, v) = Payload("bytes", v)
    BY <1>1, <2>1, Turned DEF Encode
  <2>3. type \in DOMAIN Width /\ Width[type] = 1
    BY <2>1 DEF Width
  <2> QED BY <1>1, <2>1, <2>2, <2>3, Turned DEF Valid, Payload
<1>2. CASE done \in {"be16", "be32", "be64", "nonzero"}
  <2> DEFINE n == Width[field]
  <2>1. /\ type \in {"U16", "U32", "U64"} /\ field \in DOMAIN Width /\ n \in Nat
        /\ Width[done] = n /\ Width[type] = n /\ type \in DOMAIN Width
    BY <1>2 DEF Fits, Insists, Width
  <2>2. v \in [1..n -> Nat]
    BY <2>1 DEF Holds
  <2> HIDE DEF n
  <2>3. Encode(done, v) = Payload("bytes", Reverse(v))
    BY <1>2, <2>1, <2>2, Turned DEF Encode
  <2>4. Encode(done, v).in = "bytes" /\ Encode(done, v).is = Reverse(v)
    BY <2>3 DEF Payload
  <2>5. Len(Reverse(v)) = n
    BY <2>1, <2>2, Turned
  <2> QED BY <1>2, <2>1, <2>4, <2>5 DEF Valid
<1>3. CASE done \in {"strz", "str"}
  <2>1. v \in Seq(Nat) /\ \A i \in 1..Len(v) : v[i] # 0
    BY <1>3 DEF Fits, Holds, Width
  <2>2. Encode(done, v).is = IF done = "strz" THEN Append(v, 0) ELSE v
    BY <1>3 DEF Encode, Payload
  <2>3. type = "STRING" \/ (type = "NUL_STRING" /\ done = "strz")
    BY <1>3 DEF Insists
  <2>4. "STRING" \notin DOMAIN Width /\ "NUL_STRING" \notin DOMAIN Width
    BY DEF Width
  <2>5. /\ Append(v, 0) # <<>> /\ Append(v, 0)[Len(Append(v, 0))] = 0
        /\ Append(v, 0) \in Seq(Nat)
    BY <2>1
  <2> DEFINE bytes == Encode(done, v).is
  <2>6. CASE done = "strz"
    <3>1. bytes # <<>> /\ bytes[Len(bytes)] = 0
      BY <2>2, <2>5, <2>6
    <3> QED BY <2>3, <2>4, <2>6, <3>1 DEF Valid
  <2>7. CASE done = "str"
    <3>1. bytes = v /\ type = "STRING"
      BY <2>2, <2>3, <2>7
    <3> QED BY <2>4, <2>7, <3>1 DEF Valid
  <2> QED BY <1>3, <2>6, <2>7
<1>4. CASE done \in {"data", "info"}
  <2>1. type = "BINARY" BY <1>4 DEF Insists
  <2>2. "BINARY" \notin DOMAIN Width BY DEF Width
  <2> QED BY <1>4, <2>1, <2>2 DEF Valid
<1> QED BY <1>1, <1>2, <1>3, <1>4 DEF Fits

-----------------------------------------------------------------------------
(* The message of an expression                                            *)

\* The attributes that the table of a type puts into the message.
Sent(k, x) ==
  {a \in x.flags : \E p \in ops[k].build :
     p.attr = a /\ (p.how = "nonzero" => x.val[a] # Zeros(4))}
\* What the exceptions put there.
More(k, x) ==
  CASE k = "immediate" -> immediate_data(x)
    [] k = "dynset"    -> dynset_exprs(x)
    [] OTHER           -> <<>>

\* Of a type with no exception there is nothing but the table; the exceptions
\* have numbers of their own.
LEMMA MoreIs ==
  ASSUME NEW k \in Kinds, NEW x
  PROVE  \A n \in DOMAIN More(k, x) : n \in DOMAIN abi[k] /\ Special(k, abi[k][n])
<1>1. CASE k = "immediate"
  <2>1. Number(abi.immediate, "DATA") \in DOMAIN abi[k]
        /\ abi[k][Number(abi.immediate, "DATA")] = "DATA"
    BY <1>1, NumberIs DEF abi, Named
  <2>2. DOMAIN More(k, x) \subseteq {Number(abi.immediate, "DATA")}
    BY <1>1 DEF More, immediate_data
  <2> QED BY <1>1, <2>1, <2>2 DEF Special
<1>2. CASE k = "dynset"
  <2>1. \A a \in {"EXPR", "EXPRESSIONS"} :
          Number(abi.dynset, a) \in DOMAIN abi[k] /\ abi[k][Number(abi.dynset, a)] = a
    BY <1>2, NumberIs DEF abi, Named
  <2>2. DOMAIN More(k, x) \subseteq {Number(abi.dynset, "EXPR"), Number(abi.dynset,
      "EXPRESSIONS")}
    BY <1>2 DEF More, dynset_exprs
  <2> QED BY <1>2, <2>1, <2>2 DEF Special
<1>3. CASE k \notin {"immediate", "dynset"}
  BY <1>3 DEF More
<1> QED BY <1>1, <1>2, <1>3

\* What the message has under the number of a row, and under the numbers of
\* the exceptions.
LEMMA BuildIs ==
  ASSUME NEW k \in Kinds, NEW x
  PROVE  /\ \A p \in ops[k].build :
              LET n == Number(abi[k], p.nla) IN
                /\ n \in DOMAIN Build(k, x) <=> p.attr \in Sent(k, x)
                /\ p.attr \in Sent(k, x) => Build(k, x)[n] = Encode(p.how, x.val[p.attr])
         /\ \A n : Special(k, abi[k][n]) =>
              /\ n \in DOMAIN Build(k, x) <=> n \in DOMAIN More(k, x)
              /\ n \in DOMAIN More(k, x) => Build(k, x)[n] = More(k, x)[n]
         /\ \A n \in DOMAIN Build(k, x) :
              /\ n \in DOMAIN abi[k]
              /\ Special(k, abi[k][n]) \/ \E p \in ops[k].build : n = Number(abi[k], p.nla)
<1> DEFINE sent == {p \in ops[k].build : /\ p.attr \in x.flags
                                         /\ p.how = "nonzero" => x.val[p.attr] # Zeros(4)}
           nr(p) == Number(IF p.by = "abi" THEN abi[k] ELSE api[k], p.nla)
           table == [n \in {nr(p) : p \in sent} |->
                       LET p == CHOOSE p \in sent : nr(p) = n
                       IN  Encode(p.how, x.val[p.attr])]
<1>1. Build(k, x) = table ++ More(k, x)
  BY DEF Build, More
<1>2. \A p \in ops[k].build :
        /\ nr(p) = Number(abi[k], p.nla) /\ Named(abi[k], p.nla) /\ ~Special(k, p.nla)
  BY AllAgree DEF TablesAgree, BuilderAgrees
<1>3. \A p \in ops[k].build : nr(p) \in DOMAIN abi[k] /\ abi[k][nr(p)] = p.nla
  BY <1>2, NumberIs
<1>4. \A p, q \in ops[k].build : nr(p) = nr(q) \/ p.attr = q.attr => p = q
  BY <1>3, AllAgree DEF TablesAgree, BuilderAgrees
<1>5. \A p \in ops[k].build : p \in sent <=> p.attr \in Sent(k, x)
  BY <1>4 DEF Sent
<1>6. sent \subseteq ops[k].build
  OBVIOUS
<1> HIDE DEF sent, nr
<1>7. DOMAIN table = {nr(p) : p \in sent}
  OBVIOUS
<1>8. ASSUME NEW p \in sent PROVE table[nr(p)] = Encode(p.how, x.val[p.attr])
  <2>1. (CHOOSE q \in sent : nr(q) = nr(p)) = p
    BY <1>4, <1>6
  <2> QED BY <2>1, <1>7
<1> HIDE DEF table
<1>9. /\ DOMAIN Build(k, x) = DOMAIN table \cup DOMAIN More(k, x)
      /\ \A n \in DOMAIN table : Build(k, x)[n] = table[n]
      /\ \A n \in DOMAIN More(k, x) \ DOMAIN table : Build(k, x)[n] = More(k, x)[n]
  BY <1>1 DEF ++
<1>10. \A n \in DOMAIN table : ~Special(k, abi[k][n])
  BY <1>2, <1>3, <1>6, <1>7
<1>11. ASSUME NEW p \in ops[k].build
       PROVE  /\ nr(p) \in DOMAIN Build(k, x) <=> p.attr \in Sent(k, x)
              /\ p.attr \in Sent(k, x) => Build(k, x)[nr(p)] = Encode(p.how, x.val[p.attr])
  <2>1. nr(p) \notin DOMAIN More(k, x)
    BY <1>2, <1>3, MoreIs
  <2>2. nr(p) \in DOMAIN table <=> p \in sent
    BY <1>4, <1>6, <1>7
  <2> QED BY <2>1, <2>2, <1>5, <1>8, <1>9
<1>12. \A n : Special(k, abi[k][n]) =>
         /\ n \in DOMAIN Build(k, x) <=> n \in DOMAIN More(k, x)
         /\ n \in DOMAIN More(k, x) => Build(k, x)[n] = More(k, x)[n]
  BY <1>9, <1>10
<1>13. \A n \in DOMAIN Build(k, x) :
         /\ n \in DOMAIN abi[k]
         /\ Special(k, abi[k][n]) \/ \E p \in ops[k].build : n = nr(p)
  BY <1>3, <1>6, <1>7, <1>9, MoreIs
<1> QED BY <1>2, <1>11, <1>12, <1>13

-----------------------------------------------------------------------------
(* What the parser takes                                                   *)

\* A field arrives as it was sent, but for a string without an end.
Back(k, x, a, follows) ==
  IF k = "objref" /\ a \in Names /\ Len(x.val[a]) % 4 = 0
  THEN x.val[a] \o follows ELSE x.val[a]
\* What the reader has of a message, before the exceptions.
Read(k, x, follows) ==
  [flags |-> Sent(k, x),
   val   |-> [a \in Fields(k) |->
                IF a \in Sent(k, x) THEN Back(k, x, a, follows) ELSE Blank(k, a)],
   list  |-> <<>>]

\* The rows of builder and parser are in pairs.
LEMMA Pairs ==
  ASSUME NEW k \in Kinds
  PROVE  /\ \A t \in ops[k].parse : \E p \in ops[k].build :
              p.nla = t.nla /\ p.attr = t.attr /\ Undoes(t.how, p.how)
         /\ \A p \in ops[k].build : \E t \in ops[k].parse :
              p.nla = t.nla /\ p.attr = t.attr /\ Undoes(t.how, p.how)
         /\ \A t, u \in ops[k].parse : t.attr = u.attr => t = u
         /\ \A p, q \in ops[k].build : p.nla = q.nla \/ p.attr = q.attr => p = q
<1>1. ParserAgrees(k) /\ BuilderAgrees(k)
  BY AllAgree DEF TablesAgree
<1>2. \A p, q \in ops[k].build : p.nla = q.nla \/ p.attr = q.attr => p = q
  BY <1>1 DEF BuilderAgrees
<1>3. /\ \A t \in ops[k].parse : \E p \in ops[k].build :
           p.nla = t.nla /\ p.attr = t.attr /\ Undoes(t.how, p.how)
      /\ \A p \in ops[k].build : \E t \in ops[k].parse : t.nla = p.nla
      /\ \A t, u \in ops[k].parse : t.nla = u.nla => t = u
  BY <1>1 DEF ParserAgrees
<1>4. \A p \in ops[k].build : \E t \in ops[k].parse :
        p.nla = t.nla /\ p.attr = t.attr /\ Undoes(t.how, p.how)
  BY <1>2, <1>3
<1>5. \A t, u \in ops[k].parse : t.attr = u.attr => t = u
  BY <1>2, <1>3
<1> QED BY <1>2, <1>3, <1>4, <1>5

\* The parser takes what was sent, and nothing else.
LEMMA TakenIs ==
  ASSUME NEW k \in Kinds, NEW x
  PROVE  /\ Taken(k, Build(k, x)) = {t \in ops[k].parse : t.attr \in Sent(k, x)}
         /\ {t.attr : t \in Taken(k, Build(k, x))} = Sent(k, x)
<1>1. ASSUME NEW t \in ops[k].parse
      PROVE  Number(abi[k], t.nla) \in DOMAIN Build(k, x) <=> t.attr \in Sent(k, x)
  <2>1. PICK p \in ops[k].build : p.nla = t.nla /\ p.attr = t.attr
    BY Pairs
  <2> QED BY <2>1, BuildIs
<1>2. Taken(k, Build(k, x)) = {t \in ops[k].parse : t.attr \in Sent(k, x)}
  BY <1>1 DEF Taken
<1>3. \A a \in Sent(k, x) : \E t \in ops[k].parse : t.attr = a
  BY Pairs DEF Sent
<1> QED BY <1>2, <1>3

\* The fields behind the bits hold what they may.
Filled(k, x) == \A a \in Sent(k, x) : Holds(ops[k].set[a], x.val[a])

\* Each of it as it comes back.
LEMMA DecodeIs ==
  ASSUME NEW k \in Kinds, NEW x, Filled(k, x), NEW follows,
         NEW t \in ops[k].parse, t.attr \in Sent(k, x)
  PROVE  Decode(t.how, Build(k, x)[Number(abi[k], t.nla)], ops[k].set[t.attr], follows)
           = Back(k, x, t.attr, follows)
<1>1. PICK p \in ops[k].build : p.nla = t.nla /\ p.attr = t.attr /\ Undoes(t.how, p.how)
  BY Pairs
<1>2. Fits(p.how, ops[k].set[p.attr]) /\ (p.how = "str" <=> k = "objref" /\ p.attr \in Names)
  BY AllAgree DEF TablesAgree, BuilderAgrees
<1>3. Build(k, x)[Number(abi[k], t.nla)] = Encode(p.how, x.val[p.attr])
  BY <1>1, BuildIs
<1>4. Holds(ops[k].set[p.attr], x.val[p.attr])
  BY <1>1 DEF Filled
<1> DEFINE done == p.how
           field == ops[k].set[p.attr]
           v == x.val[p.attr]
<1>5. Fits(done, field) /\ Undoes(t.how, done) /\ Holds(field, v)
  BY <1>1, <1>2, <1>4
<1>6. Decode(t.how, Encode(done, v), field, follows)
        = Carried(done, v, follows)
  <2> HIDE DEF done, field, v
  <2> QED BY <1>5, ReadBack
<1> QED BY <1>1, <1>2, <1>3, <1>6 DEF Back, Carried

\* So the table of the parser undoes the table of the builder.
LEMMA FromTableIs ==
  ASSUME NEW k \in Kinds, NEW x, Filled(k, x), NEW follows
  PROVE  FromTable(k, Build(k, x), follows) = Read(k, x, follows)
<1> DEFINE m == Build(k, x)
           nr(t) == Number(abi[k], t.nla)
           bit(t) == IF t.by = "api" THEN {t.attr}
                     ELSE {api[k][n] : n \in {nr(t)} \cap DOMAIN api[k]}
           given == {t.attr : t \in Taken(k, m)}
           val(a) == LET t == CHOOSE t \in Taken(k, m) : t.attr = a
                     IN  Decode(t.how, m[nr(t)], ops[k].set[a], follows)
           flags == UNION {bit(t) : t \in Taken(k, m)}
<1>1. FromTable(k, m, follows) =
        [flags |-> flags,
         val |-> [a \in Fields(k) |-> IF a \in given THEN val(a) ELSE Blank(k, a)],
         list |-> <<>>]
  BY DEF FromTable
<1>2. ASSUME NEW t \in ops[k].parse PROVE bit(t) = {t.attr}
  <2>1. CASE t.by = "api"
    BY <2>1
  <2>2. CASE t.by # "api"
    <3>1. Named(abi[k], t.nla)
      BY Pairs, AllAgree DEF TablesAgree, BuilderAgrees
    <3>2. nr(t) \in DOMAIN abi[k] /\ abi[k][nr(t)] = t.nla
      BY <3>1, NumberIs
    <3>3. nr(t) \in DOMAIN api[k] /\ api[k][nr(t)] = t.attr
      BY <2>2, <3>2, AllAgree DEF TablesAgree, ParserAgrees
    <3> QED BY <2>2, <3>3
  <2> QED BY <2>1, <2>2
<1>3. given = Sent(k, x) /\ Taken(k, m) = {t \in ops[k].parse : t.attr \in Sent(k, x)}
  BY TakenIs
<1>4. flags = Sent(k, x)
  <2> HIDE DEF bit, m
  <2>1. flags = UNION {{t.attr} : t \in Taken(k, m)}
    BY <1>2, <1>3
  <2> QED BY <2>1, <1>3
<1>5. ASSUME NEW a \in Sent(k, x) PROVE val(a) = Back(k, x, a, follows)
  <2>1. PICK t \in Taken(k, m) : t.attr = a
    BY <1>3
  <2>2. t \in ops[k].parse /\ (CHOOSE u \in Taken(k, m) : u.attr = a) = t
    BY <1>3, <2>1, Pairs
  <2> QED BY <2>1, <2>2, DecodeIs
<1>6. [a \in Fields(k) |-> IF a \in given THEN val(a) ELSE Blank(k, a)]
        = [a \in Fields(k) |->
             IF a \in Sent(k, x) THEN Back(k, x, a, follows) ELSE Blank(k, a)]
  BY <1>3, <1>5
<1> QED BY <1>1, <1>4, <1>6 DEF Read

-----------------------------------------------------------------------------
(* Why the reader refuses a message, or exits                              *)

\* A string of length 0 is no string.
EmptyName(k, x) ==
  k = "objref" /\ \E a \in Names \cap x.flags : x.val[a] = <<>>

\* The callback of a type exits for this alone.
LEMMA BreaksIs ==
  ASSUME NEW k \in Kinds, NEW x, Filled(k, x)
  PROVE  Breaks(k, Build(k, x)) <=> EmptyName(k, x)
<1> DEFINE cb == ops[k].cb
           m == Build(k, x)
           nr(a) == Number(IF cb[a].by = "abi" THEN abi[k] ELSE api[k], a)
<1>1. ASSUME NEW a \in DOMAIN cb
      PROVE  nr(a) = Number(abi[k], a) /\ nr(a) \in DOMAIN abi[k] /\ abi[k][nr(a)] = a
  <2>1. Named(abi[k], a) /\ (cb[a].by # "abi" => api[k] = abi[k])
    BY AllAgree DEF TablesAgree, CheckAgrees
  <2> QED BY <2>1, NumberIs
<1>2. Breaks(k, m) <=> \E a \in DOMAIN cb : nr(a) \in DOMAIN m /\ ~Valid(cb[a].type, m[nr(a)])
  BY DEF Breaks
<1>3. ASSUME NEW a \in DOMAIN cb, Special(k, a) PROVE Valid(cb[a].type, m[nr(a)])
  <2>1. cb[a].type \in {"BINARY", "NESTED"}
    BY <1>3, AllAgree DEF TablesAgree, CheckAgrees
  <2> QED BY <2>1 DEF Valid, Width
<1>4. ASSUME NEW a \in DOMAIN cb, NEW p \in ops[k].build, p.nla = a, p.attr \in Sent(k, x)
      PROVE  ~Valid(cb[a].type, m[nr(a)])
               <=> k = "objref" /\ p.attr \in Names /\ x.val[p.attr] = <<>>
  <2>1. /\ Fits(p.how, ops[k].set[p.attr]) /\ Insists(cb[a].type, p.how)
        /\ p.how = "str" <=> k = "objref" /\ p.attr \in Names
    BY <1>4, AllAgree DEF TablesAgree, BuilderAgrees, CheckAgrees
  <2>2. m[nr(a)] = Encode(p.how, x.val[p.attr])
    BY <1>1, <1>4, BuildIs
  <2>3. Holds(ops[k].set[p.attr], x.val[p.attr])
    BY <1>4 DEF Filled
  <2> QED BY <2>1, <2>2, <2>3, Passes
<1>5. ASSUME Breaks(k, m) PROVE EmptyName(k, x)
  <2>1. PICK a \in DOMAIN cb : nr(a) \in DOMAIN m /\ ~Valid(cb[a].type, m[nr(a)])
    BY <1>2, <1>5
  <2>5. ~Special(k, abi[k][nr(a)])
    BY <1>1, <1>3, <2>1
  <2>2. PICK p \in ops[k].build : nr(a) = Number(abi[k], p.nla)
    BY <2>1, <2>5, BuildIs
  <2>3. Named(abi[k], p.nla)
    BY AllAgree DEF TablesAgree, BuilderAgrees
  <2>4. p.nla = a /\ p.attr \in Sent(k, x)
    BY <1>1, <2>1, <2>2, <2>3, NumberIs, BuildIs
  <2> QED BY <1>4, <2>1, <2>4 DEF EmptyName, Sent
<1>6. ASSUME EmptyName(k, x) PROVE Breaks(k, m)
  <2>1. k = "objref"
    BY <1>6 DEF EmptyName
  <2>2. ops[k].cb = objref_cb /\ ops[k].build = objref_build
    BY <2>1 DEF ops, Ops
  <2>3. PICK a \in Names \cap x.flags : x.val[a] = <<>>
    BY <1>6 DEF EmptyName
  <2>4. a \in DOMAIN cb
    BY <2>2 DEF objref_cb, Check, ++, Names
  <2>5. Row(a, a, "str", "abi") \in ops[k].build
    BY <2>2, Rows DEF objref_build, Names
  <2>6. PICK p \in ops[k].build : p.nla = a /\ p.attr = a /\ p.how = "str"
    BY <2>5, RowIs
  <2>7. p.attr \in Sent(k, x)
    BY <2>6, <2>3 DEF Sent
  <2>8. nr(a) \in DOMAIN m
    BY <1>1, <2>4, <2>6, <2>7, BuildIs
  <2>9. ~Valid(cb[a].type, m[nr(a)])
    BY <1>4, <2>1, <2>3, <2>4, <2>6, <2>7
  <2> QED BY <1>2, <2>4, <2>8, <2>9
<1> QED BY <1>5, <1>6

-----------------------------------------------------------------------------

\* The data attributes that are set, by their places in the order.
DataGiven(k, x) ==
  {i \in 1..5 : DataOrder[i] \in x.flags /\ ops[k].set[DataOrder[i]] = "data"}
\* The last of them is empty.
LastEmpty(k, x) ==
  DataGiven(k, x) # {} /\ x.val[DataOrder[Max(DataGiven(k, x))]] = <<>>

\* The bits there can be.
Bits(k) == Fields(k) \cup (IF k = "dynset" THEN {"EXPR", "EXPRESSIONS"} ELSE {})

\* Some places among five have a last one.
LEMMA LastOfFive ==
  ASSUME NEW S, S \subseteq 1..5, S # {}
  PROVE  Max(S) \in S /\ \A i \in S : i <= Max(S)
<1>1. \E j \in S : \A i \in S : j >= i
  <2>1. CASE 5 \in S BY <2>1
  <2>2. CASE 5 \notin S /\ 4 \in S BY <2>2
  <2>3. CASE 5 \notin S /\ 4 \notin S /\ 3 \in S BY <2>3
  <2>4. CASE 5 \notin S /\ 4 \notin S /\ 3 \notin S /\ 2 \in S BY <2>4
  <2>5. CASE 5 \notin S /\ 4 \notin S /\ 3 \notin S /\ 2 \notin S
    <3>1. \A i \in S : i \in 1..5 /\ i # 5 /\ i # 4 /\ i # 3 /\ i # 2
      BY <2>5
    <3>2. \A i \in S : i = 1
      BY <3>1
    <3>3. PICK j \in S : TRUE
      OBVIOUS
    <3>4. j = 1 /\ j \in S
      BY <3>2
    <3>5. \A i \in S : j >= i
      BY <3>2, <3>4
    <3> QED BY <3>3, <3>5
  <2> QED BY <2>1, <2>2, <2>3, <2>4, <2>5
<1>2. Max(S) \in S /\ \A i \in S : Max(S) >= i
  BY <1>1 DEF Max
<1> QED BY <1>2

\* Only the last data attribute decides, and the last parsed is the last in
\* this order.
LEMMA DataRefusedIs ==
  ASSUME NEW k \in Kinds, k # "immediate", NEW x, x.flags \subseteq Bits(k)
  PROVE  DataRefused(k, Build(k, x)) <=> LastEmpty(k, x)
<1> DEFINE m == Build(k, x)
           data == {Number(abi[k], t.nla) : t \in {t \in Taken(k, m) : t.how = "data"}}
           nr(i) == Number(abi[k], DataOrder[i])
           given == DataGiven(k, x)
<1>1. DataRefused(k, m) <=> data # {} /\ m[Max(data)].is = <<>>
  BY DEF DataRefused
<1>2. BuilderAgrees(k) /\ DataInOrder(k) /\ SetterAgrees(k)
  BY AllAgree DEF TablesAgree
<1>3. ASSUME NEW i \in given
      PROVE  /\ nr(i) \in data /\ nr(i) \in DOMAIN abi[k] /\ abi[k][nr(i)] = DataOrder[i]
             /\ m[nr(i)].is = x.val[DataOrder[i]]
  <2>1. DataOrder[i] \in x.flags /\ ops[k].set[DataOrder[i]] = "data" /\ i \in 1..5
    BY DEF DataGiven
  <2>2. DataOrder[i] \in Fields(k)
    <3>1. DataOrder[i] \notin {"EXPR", "EXPRESSIONS"}
      BY <2>1 DEF DataOrder
    <3> QED BY <2>1, <3>1 DEF Bits
  <2>3. PICK p \in ops[k].build : p.attr = DataOrder[i]
    BY <1>2, <2>2 DEF SetterAgrees
  <2>4. p.how = "data" /\ p.nla = DataOrder[i]
    BY <1>2, <2>1, <2>3 DEF BuilderAgrees, Fits
  <2>5. DataOrder[i] \in Sent(k, x)
    BY <2>1, <2>3, <2>4 DEF Sent
  <2>6. PICK t \in ops[k].parse : t.nla = p.nla /\ t.attr = p.attr /\ Undoes(t.how, p.how)
    BY Pairs
  <2>7. t.how = "data" /\ t \in Taken(k, m)
    BY <2>3, <2>4, <2>5, <2>6, TakenIs DEF Undoes
  <2>8. nr(i) \in data
    BY <2>4, <2>6, <2>7
  <2>9. Named(abi[k], DataOrder[i])
    BY <1>2, <2>4 DEF BuilderAgrees
  <2>10. m[nr(i)] = Encode(p.how, x.val[DataOrder[i]])
    BY <2>3, <2>4, <2>5, BuildIs
  <2>11. m[nr(i)].is = x.val[DataOrder[i]]
    BY <2>4, <2>10 DEF Encode, Payload
  <2> QED BY <2>8, <2>9, <2>11, NumberIs
<1>4. ASSUME NEW n \in data PROVE \E i \in given : n = nr(i)
  <2>1. PICK t \in Taken(k, m) : t.how = "data" /\ n = Number(abi[k], t.nla)
    OBVIOUS
  <2>2. t \in ops[k].parse /\ t.attr \in Sent(k, x)
    BY TakenIs
  <2>3. PICK p \in ops[k].build : p.nla = t.nla /\ p.attr = t.attr /\ Undoes(t.how, p.how)
    BY <2>2, Pairs
  <2>4. p.how = "data"
    BY <2>1, <2>3 DEF Undoes
  <2>5. p.nla = p.attr /\ ops[k].set[p.attr] = "data" /\ p.attr \in Fields(k)
    BY <1>2, <2>4 DEF BuilderAgrees, Fits
  <2>6. PICK i \in 1..5 : DataOrder[i] = p.attr
    BY <1>2, <2>5 DEF DataInOrder, Named, DataOrder
  <2>7. i \in given
    BY <2>2, <2>3, <2>5, <2>6 DEF DataGiven, Sent
  <2> QED BY <2>1, <2>3, <2>5, <2>6, <2>7
<1>5. CASE given = {}
  BY <1>1, <1>4, <1>5 DEF LastEmpty
<1>6. CASE given # {}
  <2> DEFINE j == Max(given)
  <2>1. j \in given /\ given \subseteq 1..5 /\ \A i \in given : i <= j
    BY <1>6, LastOfFive DEF DataGiven
  <2>2. \A i \in given : i = j \/ (i < j /\ i \in 1..5 /\ j \in 1..5)
    BY <2>1
  <2> HIDE DEF j, data, given, m
  <2>3. \A i \in given : nr(i) <= nr(j) /\ nr(i) \in Nat /\ nr(j) \in Nat
    <3>1. \A i \in given : nr(i) \in Nat
      BY <1>2, <1>3 DEF DataInOrder
    <3>2. ASSUME NEW i \in given, i < j, i \in 1..5, j \in 1..5 PROVE nr(i) < nr(j)
      BY <1>2, <1>3, <2>1, <3>2 DEF DataInOrder, DataOrder
    <3>3. ASSUME NEW i \in given PROVE nr(i) <= nr(j)
      <4>1. CASE i = j
        BY <3>1, <4>1
      <4>2. CASE i # j
        <5>1. nr(i) < nr(j) BY <2>2, <3>2, <4>2
        <5> QED BY <2>1, <3>1, <5>1
      <4> QED BY <4>1, <4>2
    <3> QED BY <2>1, <3>1, <3>3
  <2>4. /\ nr(j) \in data /\ \A n \in data : nr(j) >= n
        /\ \A n \in data : n \in Nat
    BY <1>3, <1>4, <2>1, <2>3
  <2>5. Max(data) = nr(j)
    BY <2>4 DEF Max
  <2>6. m[nr(j)].is = x.val[DataOrder[j]]
    BY <1>3, <2>1
  <2> QED BY <1>1, <1>6, <2>4, <2>5, <2>6 DEF LastEmpty, j, given, m
<1> QED BY <1>5, <1>6

-----------------------------------------------------------------------------
(* Expressions                                                             *)

\* An expression has bits only of its own type's attributes, its fields hold
\* what they may, only a dynset has a list, and data has no verdict beside it.
Sound(k, x) ==
  /\ x = [flags |-> x.flags, val |-> x.val, list |-> x.list]
  /\ x.flags \subseteq Bits(k)
  /\ x.val \in [Fields(k) -> Seq(Nat)]
  /\ \A a \in Fields(k) : Holds(ops[k].set[a], x.val[a])
  /\ x.list \in Seq({"limit", "counter"}) /\ Len(x.list) <= MaxExprs
  /\ k # "dynset" => x.list = <<>>
  /\ k = "immediate" /\ "DATA" \in x.flags =>
       x.flags \cap {"VERDICT", "CHAIN", "CHAIN_ID"} = {}
  /\ k = "immediate" /\ "VERDICT" \in x.flags =>
       x.val["VERDICT"] \in {Accept, Stolen, Jump}

\* The fields of a type are those it can set, with a row for each.
LEMMA FieldIs ==
  ASSUME NEW k \in Kinds
  PROVE  /\ \A a \in Fields(k) :
              ops[k].set[a] \in {"u8", "u16", "u32", "u64", "name", "data", "info"}
         /\ \A p \in ops[k].build : p.attr \in Fields(k)
         /\ k # "immediate" => \A a \in Fields(k) : \E p \in ops[k].build : p.attr = a
BY AllAgree DEF TablesAgree, SetterAgrees, BuilderAgrees

\* A value is a sequence of bytes.
LEMMA HoldsSeq ==
  ASSUME NEW field, NEW v, Holds(field, v) PROVE v \in Seq(Nat)
<1>1. CASE field \in DOMAIN Width
  <2>1. Width[field] \in Nat BY <1>1 DEF Width
  <2> QED BY <1>1, <2>1, SeqDef DEF Holds
<1>2. CASE field \notin DOMAIN Width
  BY <1>2 DEF Holds
<1> QED BY <1>1, <1>2

\* A field that was never set has a value too.
LEMMA BlankHolds ==
  ASSUME NEW k \in Kinds, NEW a \in Fields(k)
  PROVE  Holds(ops[k].set[a], Blank(k, a))
<1>1. CASE ops[k].set[a] \in DOMAIN Width
  <2>1. Width[ops[k].set[a]] \in Nat BY <1>1 DEF Width
  <2> QED BY <1>1, <2>1 DEF Holds, Blank, Zeros
<1>2. CASE ops[k].set[a] \notin DOMAIN Width
  BY <1>2 DEF Holds, Blank
<1> QED BY <1>1, <1>2

\* Only what is set is sent.
LEMMA SentIn ==
  ASSUME NEW k \in Kinds, NEW x
  PROVE  Sent(k, x) \subseteq x.flags \cap Fields(k)
BY FieldIs DEF Sent

\* A sound expression can be sent.
LEMMA SoundFilled ==
  ASSUME NEW k \in Kinds, NEW x, Sound(k, x) PROVE Filled(k, x)
BY SentIn DEF Sound, Filled

\* A new expression is sound.
LEMMA NewSound ==
  ASSUME NEW k \in Kinds PROVE Sound(k, New(k))
<1>1. \A a \in Fields(k) : Holds(ops[k].set[a], Blank(k, a)) /\ Blank(k, a) \in Seq(Nat)
  BY BlankHolds, HoldsSeq
<1>2. <<>> \in Seq({"limit", "counter"}) /\ Len(<<>>) <= MaxExprs
  BY BoundsAssumption
<1> QED BY <1>1, <1>2 DEF Sound, New

\* What comes back is a value of the field, and comes back the same when it
\* is sent again.
LEMMA BackHolds ==
  ASSUME NEW k \in Kinds, NEW x, Sound(k, x), NEW follows \in {<<>>, << 9 >>},
         NEW a \in Sent(k, x)
  PROVE  Holds(ops[k].set[a], Back(k, x, a, follows))
<1>1. a \in Fields(k) /\ Holds(ops[k].set[a], x.val[a])
  BY SentIn DEF Sound
<1>2. CASE k = "objref" /\ a \in Names
  <2>1. ops[k].set[a] = "name"
    BY <1>2 DEF ops, Ops, objref_set, Held, Names, ++
  <2>2. "name" \notin DOMAIN Width
    BY DEF Width
  <2> DEFINE v == x.val[a]
  <2>3. v \in Seq(Nat) /\ \A i \in 1..Len(v) : v[i] # 0
    BY <1>1, <2>1, <2>2 DEF Holds
  <2>4. v \o follows \in Seq(Nat) /\ \A i \in 1..Len(v \o follows) : (v \o follows)[i] # 0
    <3>1. follows \in Seq(Nat) /\ \A i \in 1..Len(follows) : follows[i] # 0
      <4>1. CASE follows = <<>> BY <4>1
      <4>2. CASE follows = << 9 >> BY <4>2
      <4> QED BY <4>1, <4>2
    <3> QED BY <2>3, <3>1
  <2> HIDE DEF v
  <2> QED BY <2>1, <2>2, <2>3, <2>4 DEF Holds, Back, v
<1>3. CASE ~(k = "objref" /\ a \in Names)
  BY <1>1, <1>3 DEF Back
<1> QED BY <1>2, <1>3

\* What has all that was sent, as it came back, is the same when sent again.
LEMMA Again ==
  ASSUME NEW k \in Kinds, NEW x, Sound(k, x), NEW follows \in {<<>>, << 9 >>}, NEW r,
         \A p \in ops[k].build : p.attr \in r.flags <=> p.attr \in Sent(k, x),
         \A a \in Sent(k, x) : r.val[a] = Back(k, x, a, follows)
  PROVE  Sent(k, r) = Sent(k, x) /\ Read(k, r, <<>>) = Read(k, x, follows)
<1>1. ASSUME NEW p \in ops[k].build, p.how = "nonzero", p.attr \in Sent(k, x)
      PROVE  r.val[p.attr] # Zeros(4)
  <2>1. k = "osf"
    BY <1>1, AllAgree DEF TablesAgree, BuilderAgrees
  <2>2. r.val[p.attr] = x.val[p.attr]
    BY <1>1, <2>1 DEF Back
  <2>3. \A q \in ops[k].build : q.attr = p.attr => q = p
    BY Pairs
  <2> QED BY <1>1, <2>2, <2>3 DEF Sent
<1>2. Sent(k, r) = Sent(k, x)
  <2>1. ASSUME NEW a \in Sent(k, r) PROVE a \in Sent(k, x)
    BY <2>1 DEF Sent
  <2>2. ASSUME NEW a \in Sent(k, x) PROVE a \in Sent(k, r)
    <3>1. PICK p \in ops[k].build : p.attr = a
      BY DEF Sent
    <3> QED BY <1>1, <3>1 DEF Sent
  <2> QED BY <2>1, <2>2
<1>3. ASSUME NEW a \in Sent(k, x) PROVE Back(k, r, a, <<>>) = r.val[a]
  <2>1. Holds(ops[k].set[a], r.val[a])
    BY BackHolds
  <2>2. r.val[a] \in Seq(Nat)
    BY <2>1, HoldsSeq
  <2> QED BY <2>2 DEF Back
<1> QED BY <1>2, <1>3 DEF Read

\* What is read is sound, and comes back as it is.
LEMMA ReadSound ==
  ASSUME NEW k \in Kinds, NEW x, Sound(k, x), NEW follows \in {<<>>, << 9 >>}
  PROVE  /\ Sound(k, Read(k, x, follows))
         /\ Sent(k, Read(k, x, follows)) = Sent(k, x)
         /\ Read(k, Read(k, x, follows), <<>>) = Read(k, x, follows)
<1> DEFINE r == Read(k, x, follows)
<1>1. r.flags = Sent(k, x) /\ r.list = <<>>
      /\ r.val = [a \in Fields(k) |->
                    IF a \in Sent(k, x) THEN Back(k, x, a, follows) ELSE Blank(k, a)]
      /\ r = [flags |-> r.flags, val |-> r.val, list |-> r.list]
  BY DEF Read
<1> HIDE DEF r
<1>2. \A a \in Fields(k) : Holds(ops[k].set[a], r.val[a])
  BY <1>1, BackHolds, BlankHolds
<1>3. r.val \in [Fields(k) -> Seq(Nat)]
  BY <1>1, <1>2, HoldsSeq
<1>4. r.list \in Seq({"limit", "counter"}) /\ Len(r.list) <= MaxExprs
  BY <1>1, BoundsAssumption
<1>5. Sent(k, x) \subseteq x.flags /\ r.flags \subseteq Bits(k)
  BY <1>1, SentIn DEF Bits
<1>7. \A a \in Sent(k, x) : r.val[a] = Back(k, x, a, follows)
  BY <1>1, SentIn
<1>6. Sound(k, r)
  <2>1. k = "immediate" /\ "VERDICT" \in r.flags => r.val["VERDICT"] = x.val["VERDICT"]
    BY <1>1, <1>7 DEF Back
  <2> QED BY <1>1, <1>2, <1>3, <1>4, <1>5, <2>1 DEF Sound
<1>8. Sent(k, r) = Sent(k, x) /\ Read(k, r, <<>>) = Read(k, x, follows)
  BY <1>1, <1>7, Again
<1> QED BY <1>6, <1>8 DEF r

-----------------------------------------------------------------------------
(* What becomes of an expression.  Each kind of result says what the reader*)
(* has, and that it comes out of a second message as it is.                *)

\* Undefined, Lost, ListBit and what Refused says, of any expression.
Undef(k, x) ==
  \/ /\ k = "immediate" /\ "VERDICT" \in x.flags
     /\ x.val["VERDICT"] = Jump /\ "CHAIN" \notin x.flags
  \/ /\ k = "objref"
     /\ \E a \in Names \cap x.flags : Len(x.val[a]) % 4 = 0
Dropped(k, x) ==
  CASE k = "osf" /\ x.val["FLAGS"] = Zeros(4) -> {"FLAGS"}
    [] k = "immediate" -> {"CHAIN_ID"} \cup
         (IF "VERDICT" \in x.flags /\ x.val["VERDICT"] = Jump THEN {} ELSE {"CHAIN"})
    [] k = "dynset"    -> {"EXPR", "EXPRESSIONS"}
    [] OTHER           -> {}
ListBits(x) ==
  CASE Len(x.list) = 0 -> {}
    [] Len(x.list) = 1 -> {"EXPR"}
    [] OTHER           -> {"EXPRESSIONS"}
Unknown(k, x) ==
  \/ LastEmpty(k, x)
  \/ k = "immediate" /\ "VERDICT" \in x.flags /\ x.val["VERDICT"] = Stolen

\* What a result g of reading the message of x is.
Arrived(k, x, g) ==
  /\ g = [result |-> g.result, e |-> g.e]
  /\ g.result \in {"ok", "refused", "exit", "fault"}
  /\ Sound(k, g.e)
  /\ g.result = "exit" => EmptyName(k, x)
  /\ ~Undef(k, x) => (g.result = "refused" <=> Unknown(k, x))
  /\ g.result = "ok" /\ ~Undef(k, x) =>
       /\ g.e.flags = (x.flags \ Dropped(k, x)) \cup ListBits(x)
       /\ \A a \in g.e.flags \cap Fields(k) : g.e.val[a] = x.val[a]
       /\ g.e.list = x.list
  /\ g.result = "ok" => Parse(k, Build(k, g.e), <<>>) = {g}

\* All that is set is sent, but for a zero that is left out.
LEMMA SentIs ==
  ASSUME NEW k \in Kinds, k # "immediate", NEW x, Sound(k, x)
  PROVE  Sent(k, x) = (x.flags \cap Fields(k))
                        \ (IF k = "osf" /\ x.val["FLAGS"] = Zeros(4) THEN {"FLAGS"} ELSE {})
<1>1. \A p, q \in ops[k].build : p.attr = q.attr => p = q
  BY Pairs
<1>2. \A p \in ops[k].build : p.how = "nonzero" <=> k = "osf" /\ p.attr = "FLAGS"
  BY AllAgree DEF TablesAgree, BuilderAgrees
<1>3. \A a \in Fields(k) : \E p \in ops[k].build : p.attr = a
  BY FieldIs
<1>4. \A p \in ops[k].build : p.attr \in Fields(k)
  BY FieldIs
<1> QED BY <1>1, <1>2, <1>3, <1>4 DEF Sent

\* Where there is nothing to lose, a field comes back as it was.
LEMMA BackIs ==
  ASSUME NEW k \in Kinds, NEW x, ~Undef(k, x), NEW follows, NEW a \in Sent(k, x)
  PROVE  Back(k, x, a, follows) = x.val[a]
BY SentIn DEF Back, Undef

\* A type with nothing but a table.
LEMMA PlainParse ==
  ASSUME NEW k \in Kinds, k \notin {"immediate", "dynset"}, NEW x, Sound(k, x), NEW follows
  PROVE  Parse(k, Build(k, x), follows) =
           IF EmptyName(k, x) THEN {[result |-> "exit", e |-> New(k)]}
           ELSE {[result |-> IF LastEmpty(k, x) THEN "refused" ELSE "ok",
                  e |-> Read(k, x, follows)]}
<1>1. FromTable(k, Build(k, x), follows) = Read(k, x, follows)
  BY SoundFilled, FromTableIs
<1>2. Breaks(k, Build(k, x)) <=> EmptyName(k, x)
  BY SoundFilled, BreaksIs
<1>3. DataRefused(k, Build(k, x)) <=> LastEmpty(k, x)
  BY DataRefusedIs DEF Sound
<1> QED BY <1>1, <1>2, <1>3 DEF Parse

\* Where there is a list or an empty name, there is no data.
LEMMA NoDataWith ==
  ASSUME NEW k \in Kinds, k \in {"objref", "dynset"}, NEW x, Sound(k, x)
  PROVE  ~LastEmpty(k, x)
<1>1. \A a \in Fields(k) : ops[k].set[a] # "data"
  <2>1. CASE k = "objref"
    <3>1. ops[k].set = objref_set
      BY <2>1 DEF ops, Ops
    <3> QED BY <3>1 DEF objref_set, Held, ++, Fields
  <2>2. CASE k = "dynset"
    <3>1. ops[k].set = dynset_set
      BY <2>2 DEF ops, Ops
    <3> QED BY <3>1 DEF dynset_set, Held, ++, Fields
  <2> QED BY <2>1, <2>2
<1>2. \A i \in 1..5 : DataOrder[i] \notin {"EXPR", "EXPRESSIONS"}
  BY DEF DataOrder
<1> QED BY <1>1, <1>2 DEF LastEmpty, DataGiven, Sound, Bits

\* The message of a type with nothing but a table arrives.
LEMMA PlainArrives ==
  ASSUME NEW k \in Kinds, k \notin {"immediate", "dynset"}, NEW x, Sound(k, x),
         NEW follows \in {<<>>, << 9 >>}, NEW g \in Parse(k, Build(k, x), follows)
  PROVE  Arrived(k, x, g)
<1> DEFINE r == Read(k, x, follows)
<1>1. CASE EmptyName(k, x)
  <2>1. g = [result |-> "exit", e |-> New(k)]
    BY <1>1, PlainParse
  <2>2. Undef(k, x)
    <3>1. PICK a \in Names \cap x.flags : x.val[a] = <<>>
      BY <1>1 DEF EmptyName
    <3>2. Len(x.val[a]) = 0 /\ 0 % 4 = 0
      BY <3>1
    <3> QED BY <1>1, <3>2 DEF EmptyName, Undef
  <2> QED BY <1>1, <2>1, <2>2, NewSound DEF Arrived
<1>2. CASE ~EmptyName(k, x)
  <2>1. g = [result |-> IF LastEmpty(k, x) THEN "refused" ELSE "ok", e |-> r]
    BY <1>2, PlainParse
  <2>2. /\ Sound(k, r) /\ Sent(k, r) = Sent(k, x) /\ Read(k, r, <<>>) = r
        /\ r.flags = Sent(k, x) /\ r.list = <<>>
        /\ \A a \in Sent(k, x) : r.val[a] = Back(k, x, a, follows)
    <3>1. Sound(k, r) /\ Sent(k, r) = Sent(k, x) /\ Read(k, r, <<>>) = r
      BY ReadSound
    <3>2. r.flags = Sent(k, x) /\ r.list = <<>>
          /\ \A a \in Sent(k, x) : r.val[a] = Back(k, x, a, follows)
      BY SentIn DEF Read
    <3> QED BY <3>1, <3>2
  <2> HIDE DEF r
  <2>3. Sent(k, x) = x.flags \ Dropped(k, x) /\ ListBits(x) = {} /\ x.list = <<>>
    <3>1. x.flags \subseteq Fields(k) /\ x.list = <<>>
      BY DEF Sound, Bits
    <3>2. Dropped(k, x) = IF k = "osf" /\ x.val["FLAGS"] = Zeros(4) THEN {"FLAGS"} ELSE {}
      BY DEF Dropped
    <3>3. Sent(k, x) = x.flags \ Dropped(k, x)
      BY <3>1, <3>2, SentIs
    <3>4. ListBits(x) = {}
      BY <3>1 DEF ListBits
    <3> QED BY <3>1, <3>3, <3>4
  <2>4. Unknown(k, x) <=> LastEmpty(k, x)
    BY DEF Unknown
  <2>5. ~Undef(k, x) => \A a \in Sent(k, x) : r.val[a] = x.val[a]
    BY <2>2, BackIs
  <2>6. ASSUME ~LastEmpty(k, x) PROVE ~EmptyName(k, r) /\ ~LastEmpty(k, r)
    <3>1. ASSUME EmptyName(k, r) PROVE FALSE
      <4>1. PICK a \in Names \cap Sent(k, x) : r.val[a] = <<>>
        BY <3>1, <2>2 DEF EmptyName
      <4>2. k = "objref" /\ a \in Fields(k) /\ a \in x.flags
        BY <3>1, SentIn DEF EmptyName
      <4>3. x.val[a] \in Seq(Nat) /\ x.val[a] # <<>>
        BY <1>2, <4>1, <4>2 DEF EmptyName, Sound
      <4>4. follows \in Seq(Nat)
        <5>1. CASE follows = <<>> BY <5>1
        <5>2. CASE follows = << 9 >> BY <5>2
        <5> QED BY <5>1, <5>2
      <4>5. x.val[a] \o follows # <<>>
        BY <4>3, <4>4
      <4> QED BY <2>2, <4>1, <4>3, <4>5 DEF Back
    <3>2. CASE k = "objref"
      <4>1. ~LastEmpty(k, r) BY <3>2, <2>2, NoDataWith
      <4> QED BY <3>1, <4>1
    <3>3. CASE k # "objref"
      <4>2. \A a \in Sent(k, x) : r.val[a] = x.val[a]
        BY <2>2, <3>3 DEF Back
      <4>3. ASSUME NEW i \in 1..5, ops[k].set[DataOrder[i]] = "data"
            PROVE  DataOrder[i] \in x.flags <=> DataOrder[i] \in r.flags
        <5>1. DataOrder[i] # "FLAGS"
          BY DEF DataOrder
        <5>2. x.flags \subseteq Fields(k)
          BY DEF Sound, Bits
        <5> QED BY <5>1, <5>2, <2>2, SentIs
      <4>4. DataGiven(k, r) = DataGiven(k, x)
        BY <4>3 DEF DataGiven
      <4>5. \A i \in DataGiven(k, x) : r.val[DataOrder[i]] = x.val[DataOrder[i]]
        BY <4>2, <4>3, <2>2 DEF DataGiven
      <4>6. DataGiven(k, x) # {} => Max(DataGiven(k, x)) \in DataGiven(k, x)
        BY LastOfFive DEF DataGiven
      <4>7. ~LastEmpty(k, r)
        BY <2>6, <4>4, <4>5, <4>6 DEF LastEmpty
      <4> QED BY <3>1, <4>7
    <3> QED BY <3>1, <3>2, <3>3
  <2>7. ~LastEmpty(k, x) => Parse(k, Build(k, r), <<>>) = {g}
    BY <2>1, <2>2, <2>6, PlainParse
  <2> QED BY <2>1, <2>2, <2>3, <2>4, <2>5, <2>7 DEF Arrived
<1> QED BY <1>1, <1>2

-----------------------------------------------------------------------------
(* The list of a dynset                                                    *)
\* What the reader has of a dynset.
Listed(x, follows) ==
  [flags |-> Sent("dynset", x) \cup ListBits(x),
   val   |-> Read("dynset", x, follows).val,
   list  |-> x.list]

\* The list is sent under one number or the other by its length, and is read
\* from whichever is there.
LEMMA DynsetParse ==
  ASSUME NEW x, Sound("dynset", x), NEW follows
  PROVE  Parse("dynset", Build("dynset", x), follows)
           = {[result |-> "ok", e |-> Listed(x, follows)]}
<1> DEFINE k == "dynset"
           m == Build(k, x)
           one == Number(abi.dynset, "EXPR")
           many == Number(abi.dynset, "EXPRESSIONS")
           r == Read(k, x, follows)
<1>1. k \in Kinds
  BY DEF Kinds, ops
<1>2. FromTable(k, m, follows) = r
  BY <1>1, SoundFilled, FromTableIs
<1>3. ~Breaks(k, m)
  BY <1>1, SoundFilled, BreaksIs DEF EmptyName
<1>4. abi[k][one] = "EXPR" /\ abi[k][many] = "EXPRESSIONS" /\ one # many
  BY NumberIs DEF abi, Named
<1>5. /\ one \in DOMAIN m <=> one \in DOMAIN dynset_exprs(x)
      /\ many \in DOMAIN m <=> many \in DOMAIN dynset_exprs(x)
      /\ one \in DOMAIN dynset_exprs(x) => m[one] = dynset_exprs(x)[one]
      /\ many \in DOMAIN dynset_exprs(x) => m[many] = dynset_exprs(x)[many]
  <2>1. Special(k, abi[k][one]) /\ Special(k, abi[k][many])
    BY <1>4 DEF Special
  <2>2. More(k, x) = dynset_exprs(x)
    BY DEF More
  <2>3. \A n : Special(k, abi[k][n]) =>
          /\ n \in DOMAIN m <=> n \in DOMAIN More(k, x)
          /\ n \in DOMAIN More(k, x) => m[n] = More(k, x)[n]
    BY <1>1, BuildIs
  <2> HIDE DEF k, m, one, many
  <2> QED BY <2>1, <2>2, <2>3
<1>6. x.list \in Seq({"limit", "counter"}) /\ Len(x.list) \in Nat
  BY DEF Sound
<1>7. r = [flags |-> r.flags, val |-> r.val, list |-> <<>>] /\ r.flags = Sent(k, x)
  BY DEF Read
<1>8. Parse(k, m, follows) = {[result |-> "ok", e |-> dynset_read(r, m)]}
  BY <1>2, <1>3 DEF Parse
<1>9. dynset_read(r, m) = Listed(x, follows)
  <2> HIDE DEF m, one, many, r
  <2>1. CASE Len(x.list) = 0
    <3>1. one \notin DOMAIN m /\ many \notin DOMAIN m
      BY <1>5, <2>1 DEF dynset_exprs
    <3>2. dynset_read(r, m) = r
      BY <3>1 DEF dynset_read, one, many
    <3>3. x.list = <<>> /\ ListBits(x) = {}
      BY <1>6, <2>1 DEF ListBits
    <3> QED BY <1>7, <3>2, <3>3 DEF Listed, r
  <2>2. CASE Len(x.list) = 1
    <3>1. one \in DOMAIN m /\ m[one].is = x.list
      BY <1>5, <2>2 DEF dynset_exprs, Payload, one
    <3>2. dynset_read(r, m) = [r EXCEPT !.flags = @ \cup {"EXPR"}, !.list = x.list]
      BY <3>1 DEF dynset_read, one, many
    <3>3. ListBits(x) = {"EXPR"}
      BY <2>2 DEF ListBits
    <3> QED BY <1>7, <3>2, <3>3 DEF Listed, r
  <2>3. CASE Len(x.list) \notin {0, 1}
    <3>1. one \notin DOMAIN m /\ many \in DOMAIN m /\ m[many].is = x.list
      BY <1>4, <1>5, <2>3 DEF dynset_exprs, Payload, one, many
    <3>2. dynset_read(r, m) = [r EXCEPT !.flags = @ \cup {"EXPRESSIONS"}, !.list = x.list]
      BY <3>1 DEF dynset_read, one, many
    <3>3. ListBits(x) = {"EXPRESSIONS"}
      BY <2>3 DEF ListBits
    <3> QED BY <1>7, <3>2, <3>3 DEF Listed, r
  <2> QED BY <2>1, <2>2, <2>3
<1> QED BY <1>8, <1>9

\* The message of a dynset arrives.
LEMMA DynsetArrives ==
  ASSUME NEW x, Sound("dynset", x), NEW follows \in {<<>>, << 9 >>},
         NEW g \in Parse("dynset", Build("dynset", x), follows)
  PROVE  Arrived("dynset", x, g)
<1> DEFINE k == "dynset"
           r == Listed(x, follows)
           s == Read(k, x, follows)
<1>1. k \in Kinds
  BY DEF Kinds, ops
<1>2. g = [result |-> "ok", e |-> r]
  BY DynsetParse
<1>3. /\ r.flags = Sent(k, x) \cup ListBits(x) /\ r.val = s.val /\ r.list = x.list
      /\ r = [flags |-> r.flags, val |-> r.val, list |-> r.list]
  BY DEF Listed
<1>4. Sound(k, s) /\ Sent(k, s) = Sent(k, x) /\ Read(k, s, <<>>) = s
  BY <1>1, ReadSound
<1>5. ListBits(x) \subseteq {"EXPR", "EXPRESSIONS"} /\ ListBits(r) = ListBits(x)
  BY <1>3 DEF ListBits
<1>6. Sent(k, x) = x.flags \cap Fields(k) /\ Sent(k, x) = x.flags \ {"EXPR", "EXPRESSIONS"}
  <2>1. Sent(k, x) = x.flags \cap Fields(k)
    BY <1>1, SentIs
  <2>2. Fields(k) \cap {"EXPR", "EXPRESSIONS"} = {}
    BY DEF Fields, ops, Ops, dynset_set, Held, ++
  <2> QED BY <2>1, <2>2 DEF Sound, Bits
<1>7. \A a \in Sent(k, x) : s.val[a] = Back(k, x, a, follows) /\ Back(k, x, a, follows) = x.val[a]
  BY <1>1, SentIn DEF Read, Back
<1> HIDE DEF r, s, k
<1>8. Sound(k, r)
  <2>1. r.flags \subseteq Bits(k)
    BY <1>3, <1>5, <1>6 DEF Bits, k
  <2> QED BY <1>3, <1>4, <2>1 DEF Sound, k
<1>9. Sent(k, r) = Sent(k, x) /\ Read(k, r, <<>>) = s
  <2>1. \A p \in ops[k].build : p.attr \in r.flags <=> p.attr \in Sent(k, x)
    <3>1. \A p \in ops[k].build : p.attr \in Fields(k)
      BY <1>1, FieldIs
    <3>2. Fields(k) \cap {"EXPR", "EXPRESSIONS"} = {}
      BY DEF Fields, ops, Ops, dynset_set, Held, ++, k
    <3> QED BY <1>3, <1>5, <3>1, <3>2
  <2>2. \A a \in Sent(k, x) : r.val[a] = Back(k, x, a, follows)
    BY <1>3, <1>7
  <2> QED BY <1>1, <2>1, <2>2, Again DEF s, k
<1>10. Listed(r, <<>>) = r
  BY <1>3, <1>5, <1>9 DEF Listed, k
<1>11. Parse(k, Build(k, r), <<>>) = {g}
  BY <1>2, <1>8, <1>10, DynsetParse DEF k
<1>12. ~Unknown(k, x)
  BY <1>1, NoDataWith DEF Unknown, k
<1>13. r.flags = (x.flags \ Dropped(k, x)) \cup ListBits(x)
  BY <1>3, <1>6 DEF Dropped, k
<1>14. \A a \in r.flags \cap Fields(k) : r.val[a] = x.val[a]
  <2>1. Fields(k) \cap {"EXPR", "EXPRESSIONS"} = {}
    BY DEF Fields, ops, Ops, dynset_set, Held, ++, k
  <2> QED BY <1>3, <1>5, <1>7, <2>1
<1> QED
  BY <1>2, <1>3, <1>8, <1>11, <1>12, <1>13, <1>14 DEF Arrived, k

-----------------------------------------------------------------------------
(* The verdict or the data of an immediate                                 *)

\* The reader has register and value together, or one of them.
Joined(x, result, flags, vals) ==
  [result |-> result,
   e |-> [flags |-> Sent("immediate", x) \cup flags,
          val   |-> [a \in Fields("immediate") |->
                       IF a \in DOMAIN vals THEN vals[a]
                       ELSE IF a \in Sent("immediate", x) THEN x.val[a]
                       ELSE Blank("immediate", a)],
          list  |-> <<>>]]

\* The fields of an immediate, of which the table sends only the register.
LEMMA ImmediateFields ==
  /\ "immediate" \in Kinds
  /\ Fields("immediate") = {"DREG", "VERDICT", "CHAIN_ID", "DATA", "CHAIN"}
  /\ \A a \in {"DREG", "VERDICT", "CHAIN_ID"} : ops["immediate"].set[a] = "u32"
  /\ ops["immediate"].set["DATA"] = "data" /\ ops["immediate"].set["CHAIN"] = "name"
  /\ \A x : Sent("immediate", x) = x.flags \cap {"DREG"}
<1>1. "immediate" \in Kinds
  BY DEF Kinds, ops
<1>2. ops["immediate"].set = immediate_set /\ ops["immediate"].build = immediate_build
  BY DEF ops, Ops
<1>3. /\ Fields("immediate") = {"DREG", "VERDICT", "CHAIN_ID", "DATA", "CHAIN"}
      /\ \A a \in {"DREG", "VERDICT", "CHAIN_ID"} : ops["immediate"].set[a] = "u32"
      /\ ops["immediate"].set["DATA"] = "data" /\ ops["immediate"].set["CHAIN"] = "name"
  BY <1>2 DEF Fields, immediate_set, Held, ++
<1>4. \A p : p \in immediate_build <=> p = Row("DREG", "DREG", "be32", "abi")
  BY Rows DEF immediate_build
<1>5. \A x : Sent("immediate", x) = x.flags \cap {"DREG"}
  BY <1>2, <1>4, RowIs DEF Sent
<1> QED BY <1>1, <1>3, <1>5

\* Data goes before a verdict.
LEMMA ImmediateMessage ==
  ASSUME NEW x
  PROVE  LET n == Number(abi.immediate, "DATA") IN
           /\ n \in DOMAIN Build("immediate", x) <=> {"DATA", "VERDICT"} \cap x.flags # {}
           /\ "DATA" \in x.flags => Build("immediate", x)[n] = Payload("value", x.val["DATA"])
           /\ "DATA" \notin x.flags /\ "VERDICT" \in x.flags =>
                Build("immediate", x)[n] = Payload("verdict",
                  [a \in {"VERDICT"} \cup ({"CHAIN", "CHAIN_ID"} \cap x.flags) |-> x.val[a]])
<1> DEFINE n == Number(abi.immediate, "DATA")
           k == "immediate"
<1>1. Special(k, abi[k][n])
  BY NumberIs DEF abi, Named, Special
<1>2. More(k, x) = immediate_data(x)
  BY DEF More
<1>3. /\ n \in DOMAIN Build(k, x) <=> n \in DOMAIN immediate_data(x)
      /\ n \in DOMAIN immediate_data(x) => Build(k, x)[n] = immediate_data(x)[n]
  <2>1. \A i : Special(k, abi[k][i]) =>
          /\ i \in DOMAIN Build(k, x) <=> i \in DOMAIN More(k, x)
          /\ i \in DOMAIN More(k, x) => Build(k, x)[i] = More(k, x)[i]
    <3>1. k \in Kinds BY ImmediateFields
    <3> QED BY <3>1, BuildIs
  <2> HIDE DEF n, k
  <2> QED BY <1>1, <1>2, <2>1
<1> HIDE DEF n
<1>4. CASE "DATA" \in x.flags
  BY <1>3, <1>4 DEF immediate_data, n
<1>5. CASE "DATA" \notin x.flags /\ "VERDICT" \in x.flags
  BY <1>3, <1>5 DEF immediate_data, n
<1>6. CASE "DATA" \notin x.flags /\ "VERDICT" \notin x.flags
  BY <1>3, <1>6 DEF immediate_data, n
<1> QED BY <1>4, <1>5, <1>6 DEF n

\* Every result of reading an immediate, by what it was made of.
JumpTo(x, chain) ==
  Joined(x, "ok", {"VERDICT", "CHAIN"},
         [a \in {"VERDICT", "CHAIN"} |-> IF a = "CHAIN" THEN chain ELSE x.val["VERDICT"]])
ImmediateResults(x) ==
  IF "DATA" \in x.flags
  THEN {Joined(x, IF x.val["DATA"] = <<>> THEN "refused" ELSE "ok", {"DATA"},
               [a \in {"DATA"} |-> x.val["DATA"]])}
  ELSE IF "VERDICT" \notin x.flags
  THEN {Joined(x, "ok", {}, <<>>)}
  ELSE IF x.val["VERDICT"] = Accept
  THEN {Joined(x, "ok", {"VERDICT"}, [a \in {"VERDICT"} |-> x.val["VERDICT"]])}
  ELSE IF x.val["VERDICT"] # Jump
  THEN {Joined(x, "refused", {}, <<>>)}
  ELSE IF "CHAIN" \in x.flags
  THEN {JumpTo(x, x.val["CHAIN"])}
  ELSE {Joined(x, "refused", {}, <<>>), Joined(x, "fault", {}, <<>>), JumpTo(x, << 9 >>)}

\* These are all the results there are.
LEMMA ImmediateParse ==
  ASSUME NEW x, Sound("immediate", x), NEW follows
  PROVE  Parse("immediate", Build("immediate", x), follows) = ImmediateResults(x)
<1> DEFINE k == "immediate"
           m == Build(k, x)
           n == Number(abi.immediate, "DATA")
           r == Read(k, x, follows)
<1>1. Parse(k, m, follows) = immediate_read(r, m)
  <2>1. FromTable(k, m, follows) = r
    BY ImmediateFields, SoundFilled, FromTableIs
  <2>2. ~Breaks(k, m)
    BY ImmediateFields, SoundFilled, BreaksIs DEF EmptyName
  <2> QED BY <2>1, <2>2 DEF Parse
<1>2. /\ r = [flags |-> r.flags, val |-> r.val, list |-> <<>>] /\ r.flags = Sent(k, x)
      /\ r.val = [a \in Fields(k) |-> IF a \in Sent(k, x) THEN x.val[a] ELSE Blank(k, a)]
  <2>1. \A a : Back(k, x, a, follows) = x.val[a]
    BY DEF Back
  <2> QED BY <2>1 DEF Read
<1>3. /\ n \in DOMAIN m <=> {"DATA", "VERDICT"} \cap x.flags # {}
      /\ "DATA" \in x.flags => m[n] = Payload("value", x.val["DATA"])
      /\ "DATA" \notin x.flags /\ "VERDICT" \in x.flags =>
           m[n] = Payload("verdict",
             [a \in {"VERDICT"} \cup ({"CHAIN", "CHAIN_ID"} \cap x.flags) |-> x.val[a]])
  BY ImmediateMessage
<1> HIDE DEF m, r
<1>4. CASE "DATA" \in x.flags
  <2>1. immediate_read(r, m) =
          {[result |-> IF x.val["DATA"] = <<>> THEN "refused" ELSE "ok",
            e |-> With(r, "DATA", x.val["DATA"])]}
    BY <1>3, <1>4 DEF immediate_read, Payload
  <2>2. With(r, "DATA", x.val["DATA"])
          = [flags |-> r.flags \cup {"DATA"}, val |-> [r.val EXCEPT !["DATA"] = x.val["DATA"]],
             list |-> <<>>]
    <3>1. r.list = <<>> BY <1>2
    <3> QED BY <3>1 DEF With
  <2>3. [r.val EXCEPT !["DATA"] = x.val["DATA"]]
          = [a \in Fields(k) |-> IF a \in {"DATA"} THEN x.val["DATA"]
               ELSE IF a \in Sent(k, x) THEN x.val[a] ELSE Blank(k, a)]
    BY <1>2
  <2>4. \A res : [result |-> res, e |-> With(r, "DATA", x.val["DATA"])]
          = Joined(x, res, {"DATA"}, [a \in {"DATA"} |-> x.val["DATA"]])
    BY <1>2, <2>2, <2>3 DEF Joined
  <2>5. immediate_read(r, m)
          = {Joined(x, IF x.val["DATA"] = <<>> THEN "refused" ELSE "ok", {"DATA"},
                    [a \in {"DATA"} |-> x.val["DATA"]])}
    <3> DEFINE res == IF x.val["DATA"] = <<>> THEN "refused" ELSE "ok"
    <3>1. [result |-> res, e |-> With(r, "DATA", x.val["DATA"])]
            = Joined(x, res, {"DATA"}, [a \in {"DATA"} |-> x.val["DATA"]])
      <4> HIDE DEF res
      <4> QED BY <2>4
    <3> QED BY <2>1, <3>1
  <2> QED BY <1>1, <1>4, <2>5 DEF ImmediateResults, m
<1>5. CASE "DATA" \notin x.flags /\ "VERDICT" \in x.flags
  <2> DEFINE p == [a \in {"VERDICT"} \cup ({"CHAIN", "CHAIN_ID"} \cap x.flags) |-> x.val[a]]
             s == With(r, "VERDICT", p["VERDICT"])
             verdict(v) ==
               IF v.result # "ok" THEN [result |-> v.result, e |-> r]
               ELSE [result |-> "ok",
                     e |-> IF v.chain = <<>> THEN s ELSE With(s, "CHAIN", v.chain[1])]
  <2>1. immediate_read(r, m) = {verdict(v) : v \in parse_verdict(p)}
    <3>1. n \in DOMAIN m /\ m[n].in # "value" /\ m[n].is = p
      BY <1>3, <1>5 DEF Payload
    <3> HIDE DEF p
    <3> QED BY <3>1 DEF immediate_read
  <2>2. p["VERDICT"] = x.val["VERDICT"] /\ ("CHAIN" \in DOMAIN p <=> "CHAIN" \in x.flags)
        /\ ("CHAIN" \in x.flags => p["CHAIN"] = x.val["CHAIN"])
    OBVIOUS
  <2> HIDE DEF p
  <2>3. \A res : res # "ok" => verdict([result |-> res]) = Joined(x, res, {}, <<>>)
    BY <1>2 DEF Joined
  <2>9. /\ s = [flags |-> s.flags, val |-> s.val, list |-> <<>>]
        /\ s.flags = Sent(k, x) \cup {"VERDICT"}
        /\ s.val = [a \in Fields(k) |-> IF a = "VERDICT" THEN x.val["VERDICT"] ELSE r.val[a]]
    <3>1. s = [flags |-> r.flags \cup {"VERDICT"},
               val |-> [r.val EXCEPT !["VERDICT"] = x.val["VERDICT"]], list |-> <<>>]
      <4>1. r.list = <<>> BY <1>2
      <4> QED BY <2>2, <4>1 DEF With
    <3>2. DOMAIN r.val = Fields(k)
      BY <1>2
    <3> QED BY <1>2, <3>1, <3>2
  <2> HIDE DEF s
  <2>4. verdict([result |-> "ok", chain |-> <<>>])
          = Joined(x, "ok", {"VERDICT"}, [a \in {"VERDICT"} |-> x.val["VERDICT"]])
    <3>1. verdict([result |-> "ok", chain |-> <<>>]) = [result |-> "ok", e |-> s]
      OBVIOUS
    <3>2. s.val = [a \in Fields(k) |-> IF a \in {"VERDICT"} THEN x.val["VERDICT"]
                     ELSE IF a \in Sent(k, x) THEN x.val[a] ELSE Blank(k, a)]
      BY <1>2, <2>9
    <3> QED BY <2>9, <3>1, <3>2 DEF Joined
  <2>5. \A c : verdict([result |-> "ok", chain |-> <<c>>]) = JumpTo(x, c)
    <3>1. TAKE c
    <3>2. verdict([result |-> "ok", chain |-> <<c>>]) = [result |-> "ok", e |-> With(s, "CHAIN", c)]
      OBVIOUS
    <3>3. With(s, "CHAIN", c) =
            [flags |-> Sent(k, x) \cup {"VERDICT", "CHAIN"},
             val   |-> [a \in Fields(k) |-> IF a = "CHAIN" THEN c ELSE s.val[a]],
             list  |-> <<>>]
      <4>1. With(s, "CHAIN", c) =
              [flags |-> s.flags \cup {"CHAIN"}, val |-> [s.val EXCEPT !["CHAIN"] = c],
               list |-> <<>>]
        <5>1. s.list = <<>> BY <2>9
        <5> QED BY <5>1 DEF With
      <4>2. [s.val EXCEPT !["CHAIN"] = c]
              = [a \in Fields(k) |-> IF a = "CHAIN" THEN c ELSE s.val[a]]
        BY <2>9
      <4> QED BY <2>9, <4>1, <4>2
    <3>4. [a \in Fields(k) |-> IF a = "CHAIN" THEN c ELSE s.val[a]]
           = [a \in Fields(k) |->
                IF a \in {"VERDICT", "CHAIN"}
                THEN [b \in {"VERDICT", "CHAIN"} |->
                        IF b = "CHAIN" THEN c ELSE x.val["VERDICT"]][a]
                ELSE IF a \in Sent(k, x) THEN x.val[a] ELSE Blank(k, a)]
      BY <1>2, <2>9
    <3> QED BY <3>2, <3>3, <3>4 DEF Joined, JumpTo
  <2> HIDE DEF verdict
  <2>6. CASE x.val["VERDICT"] = Accept
    <3>2. Accept # Jump
      BY DEF Accept, Jump
    <3>1. parse_verdict(p) = {[result |-> "ok", chain |-> <<>>]}
      BY <2>2, <2>6, <3>2 DEF parse_verdict
    <3> QED BY <1>1, <1>5, <2>1, <2>4, <2>6, <3>1, <3>2 DEF ImmediateResults, m
  <2>7. CASE x.val["VERDICT"] = Jump
    <3>1. Accept # Jump BY DEF Accept, Jump
    <3>2. parse_verdict(p) = IF "CHAIN" \in x.flags
            THEN {[result |-> "ok", chain |-> <<x.val["CHAIN"]>>]}
            ELSE {[result |-> "refused"], [result |-> "fault"],
                  [result |-> "ok", chain |-> <<<< 9 >>>>]}
      BY <2>2, <2>7, <3>1 DEF parse_verdict
    <3> QED BY <1>1, <1>5, <2>1, <2>3, <2>5, <2>7, <3>1, <3>2 DEF ImmediateResults, m
  <2>8. CASE x.val["VERDICT"] \notin {Accept, Jump}
    <3>1. parse_verdict(p) = {[result |-> "refused"]}
      BY <2>2, <2>8 DEF parse_verdict
    <3> QED BY <1>1, <1>5, <2>1, <2>3, <2>8, <3>1 DEF ImmediateResults, m
  <2> QED BY <2>6, <2>7, <2>8
<1>6. CASE "DATA" \notin x.flags /\ "VERDICT" \notin x.flags
  <2>1. immediate_read(r, m) = {[result |-> "ok", e |-> r]}
    BY <1>3, <1>6 DEF immediate_read
  <2>2. [result |-> "ok", e |-> r] = Joined(x, "ok", {}, <<>>)
    BY <1>2 DEF Joined
  <2> QED BY <1>1, <1>6, <2>1, <2>2 DEF ImmediateResults, m
<1> QED BY <1>4, <1>5, <1>6

\* The three verdicts are different numbers.
LEMMA Verdicts ==
  /\ Accept \in [1..4 -> Nat] /\ Stolen \in [1..4 -> Nat] /\ Jump \in [1..4 -> Nat]
  /\ Accept # Jump /\ Accept # Stolen /\ Jump # Stolen
BY DEF Accept, Stolen, Jump

\* An immediate has one data attribute.
LEMMA ImmediateEmpty ==
  ASSUME NEW x, Sound("immediate", x)
  PROVE  LastEmpty("immediate", x) <=> "DATA" \in x.flags /\ x.val["DATA"] = <<>>
<1> DEFINE given == DataGiven("immediate", x)
<1>1. x.flags \subseteq {"DREG", "VERDICT", "CHAIN_ID", "DATA", "CHAIN"}
  BY ImmediateFields DEF Sound, Bits
<1>2. given = IF "DATA" \in x.flags THEN {5} ELSE {}
  <2>1. \A i \in 1..5 : i = 5 \/ DataOrder[i] \notin x.flags
    BY <1>1 DEF DataOrder
  <2>2. DataOrder[5] = "DATA" /\ ops["immediate"].set["DATA"] = "data"
    BY ImmediateFields DEF DataOrder
  <2> QED BY <2>1, <2>2 DEF DataGiven
<1>3. Max({5}) = 5
  BY DEF Max
<1>4. DataOrder[5] = "DATA"
  BY DEF DataOrder
<1> HIDE DEF given
<1> QED BY <1>2, <1>3, <1>4 DEF LastEmpty, given

\* What is joined to the register is there, and joined again gives the same.
LEMMA JoinedIs ==
  ASSUME NEW x, Sound("immediate", x), NEW result, NEW vals,
         DOMAIN vals \subseteq {"DATA", "VERDICT", "CHAIN"},
         \A a \in DOMAIN vals : Holds(ops["immediate"].set[a], vals[a]),
         "DATA" \in DOMAIN vals => DOMAIN vals = {"DATA"},
         "VERDICT" \in DOMAIN vals => vals["VERDICT"] \in {Accept, Stolen, Jump},
         NEW y, y = Joined(x, result, DOMAIN vals, vals).e
  PROVE  /\ Sound("immediate", y)
         /\ y.flags = (x.flags \cap {"DREG"}) \cup DOMAIN vals /\ y.list = <<>>
         /\ \A a \in DOMAIN vals : y.val[a] = vals[a]
         /\ "DREG" \in x.flags => y.val["DREG"] = x.val["DREG"]
         /\ \A res : Joined(y, res, DOMAIN vals, vals) = Joined(x, res, DOMAIN vals, vals)
<1> DEFINE k == "immediate"
<1>1. Sent(k, x) = x.flags \cap {"DREG"} /\ k \in Kinds
      /\ Fields(k) = {"DREG", "VERDICT", "CHAIN_ID", "DATA", "CHAIN"}
  BY ImmediateFields
<1>2. /\ y = [flags |-> y.flags, val |-> y.val, list |-> y.list]
      /\ y.flags = Sent(k, x) \cup DOMAIN vals /\ y.list = <<>>
      /\ y.val = [a \in Fields(k) |->
                    IF a \in DOMAIN vals THEN vals[a]
                    ELSE IF a \in Sent(k, x) THEN x.val[a] ELSE Blank(k, a)]
  BY DEF Joined
<1>3. Sent(k, y) = Sent(k, x)
  <2>1. Sent(k, y) = y.flags \cap {"DREG"}
    BY ImmediateFields
  <2> QED BY <1>1, <1>2, <2>1
<1>4. \A a \in Sent(k, x) : y.val[a] = x.val[a] /\ a \notin DOMAIN vals
  BY <1>1, <1>2
<1>5. \A a \in Fields(k) : Holds(ops[k].set[a], y.val[a])
  <2>1. \A a \in Fields(k) : Holds(ops[k].set[a], x.val[a]) /\ Holds(ops[k].set[a], Blank(k, a))
    BY <1>1, BlankHolds DEF Sound
  <2> QED BY <1>2, <2>1
<1>6. Sound(k, y)
  <2>1. y.val \in [Fields(k) -> Seq(Nat)]
    BY <1>2, <1>5, HoldsSeq
  <2>2. y.list \in Seq({"limit", "counter"}) /\ Len(y.list) <= MaxExprs
    <3>1. <<>> \in Seq({"limit", "counter"}) /\ Len(<<>>) = 0 /\ 0 <= MaxExprs
      BY BoundsAssumption
    <3> QED BY <1>2, <3>1
  <2>5. "VERDICT" \in y.flags => y.val["VERDICT"] \in {Accept, Stolen, Jump}
    BY <1>1, <1>2
  <2>3. y.flags \subseteq Bits(k)
    BY <1>1, <1>2 DEF Bits
  <2>4. "DATA" \in y.flags => y.flags \cap {"VERDICT", "CHAIN", "CHAIN_ID"} = {}
    BY <1>1, <1>2
  <2> QED BY <1>2, <1>5, <2>1, <2>2, <2>3, <2>4, <2>5 DEF Sound
<1>7. ASSUME NEW res
      PROVE  Joined(y, res, DOMAIN vals, vals) = Joined(x, res, DOMAIN vals, vals)
  BY <1>3, <1>4 DEF Joined
<1> QED BY <1>1, <1>2, <1>4, <1>6, <1>7

\* What is not read as ok is the register alone.
LEMMA JoinedNothing ==
  ASSUME NEW x, Sound("immediate", x), NEW result, NEW g, g = Joined(x, result, {}, <<>>)
  PROVE  /\ g = [result |-> result, e |-> g.e] /\ Sound("immediate", g.e)
         /\ g.e.flags = x.flags \cap {"DREG"} /\ g.e.list = <<>>
         /\ \A a \in g.e.flags : g.e.val[a] = x.val[a]
         /\ \A res : Joined(g.e, res, {}, <<>>) = Joined(x, res, {}, <<>>)
<1>1. g = [result |-> result, e |-> g.e] /\ g.e = Joined(x, result, {}, <<>>).e
  BY DEF Joined
<1>2. DOMAIN <<>> = {}
  OBVIOUS
<1> QED BY <1>1, <1>2, JoinedIs

\* The message of an immediate arrives.
LEMMA ImmediateArrives ==
  ASSUME NEW x, Sound("immediate", x), NEW follows \in {<<>>, << 9 >>},
         NEW g \in Parse("immediate", Build("immediate", x), follows)
  PROVE  Arrived("immediate", x, g)
<1> DEFINE k == "immediate"
<1>1. g \in ImmediateResults(x)
  BY ImmediateParse
<1>2. /\ x.flags \subseteq {"DREG", "VERDICT", "CHAIN_ID", "DATA", "CHAIN"}
      /\ "DATA" \in x.flags => x.flags \cap {"VERDICT", "CHAIN", "CHAIN_ID"} = {}
      /\ "VERDICT" \in x.flags => x.val["VERDICT"] \in {Accept, Stolen, Jump}
      /\ x.list = <<>>
  BY ImmediateFields DEF Sound, Bits
<1>11. ListBits(x) = {}
  BY <1>2 DEF ListBits
<1>3. \A y : Sound(k, y) => Parse(k, Build(k, y), <<>>) = ImmediateResults(y)
  BY ImmediateParse
<1>4. /\ Unknown(k, x) <=> \/ "DATA" \in x.flags /\ x.val["DATA"] = <<>>
                           \/ "VERDICT" \in x.flags /\ x.val["VERDICT"] = Stolen
      /\ Undef(k, x) <=> /\ "VERDICT" \in x.flags
                         /\ x.val["VERDICT"] = Jump /\ "CHAIN" \notin x.flags
      /\ Dropped(k, x) = {"CHAIN_ID"} \cup
           (IF "VERDICT" \in x.flags /\ x.val["VERDICT"] = Jump THEN {} ELSE {"CHAIN"})
  BY ImmediateEmpty DEF Unknown, Undef, Dropped
<1>5. \A a \in {"DATA", "VERDICT", "CHAIN"} : Holds(ops[k].set[a], x.val[a])
  BY ImmediateFields DEF Sound
<1>6. CASE "DATA" \in x.flags
  <2> DEFINE vals == [a \in {"DATA"} |-> x.val["DATA"]]
             res == IF x.val["DATA"] = <<>> THEN "refused" ELSE "ok"
             y == g.e
  <2>1. g = Joined(x, res, DOMAIN vals, vals)
    BY <1>1, <1>6 DEF ImmediateResults
  <2>2. g = [result |-> res, e |-> y] /\ y = Joined(x, res, DOMAIN vals, vals).e
    BY <2>1 DEF Joined
  <2>3. DOMAIN vals = {"DATA"} /\ vals["DATA"] = x.val["DATA"]
    OBVIOUS
  <2> HIDE DEF vals, y
  <2>4. /\ Sound(k, y)
        /\ y.flags = (x.flags \cap {"DREG"}) \cup {"DATA"} /\ y.list = <<>>
        /\ y.val["DATA"] = x.val["DATA"]
        /\ "DREG" \in x.flags => y.val["DREG"] = x.val["DREG"]
        /\ \A r : Joined(y, r, DOMAIN vals, vals) = Joined(x, r, DOMAIN vals, vals)
    BY <1>2, <1>5, <2>2, <2>3, JoinedIs
  <2>5. res = "ok" => Parse(k, Build(k, y), <<>>) = {g}
    <3>1. ImmediateResults(y) = {Joined(y, res, DOMAIN vals, vals)}
      BY <2>3, <2>4 DEF ImmediateResults, vals
    <3> QED BY <1>3, <2>1, <2>4, <3>1
  <2>6. y.flags = x.flags \ Dropped(k, x)
    BY <1>2, <1>4, <1>6, <2>4
  <2>7. res = "refused" <=> Unknown(k, x)
    BY <1>2, <1>4, <1>6
  <2>8. \A a \in y.flags : y.val[a] = x.val[a]
    BY <2>4
  <2> HIDE DEF k
  <2>9. res \in {"ok", "refused"} OBVIOUS
  <2> HIDE DEF res
  <2> QED BY <1>2, <1>11, <2>2, <2>4, <2>5, <2>6, <2>7, <2>8, <2>9 DEF Arrived, y, k
<1>7. CASE "DATA" \notin x.flags /\ "VERDICT" \notin x.flags
  <2>1. g = Joined(x, "ok", {}, <<>>)
    BY <1>1, <1>7 DEF ImmediateResults
  <2>2. /\ g = [result |-> "ok", e |-> g.e] /\ Sound(k, g.e)
        /\ g.e.flags = x.flags \cap {"DREG"} /\ g.e.list = <<>>
        /\ \A a \in g.e.flags : g.e.val[a] = x.val[a]
        /\ Joined(g.e, "ok", {}, <<>>) = g
    BY <2>1, JoinedNothing
  <2>3. Parse(k, Build(k, g.e), <<>>) = {g}
    BY <1>3, <2>2 DEF ImmediateResults
  <2>4. ~Unknown(k, x) /\ g.e.flags = x.flags \ Dropped(k, x)
    BY <1>2, <1>4, <1>7, <2>2
  <2> HIDE DEF k
  <2> QED BY <1>2, <1>11, <2>2, <2>3, <2>4 DEF Arrived, k
<1>8. CASE "DATA" \notin x.flags /\ "VERDICT" \in x.flags /\ x.val["VERDICT"] = Accept
  <2> DEFINE vals == [a \in {"VERDICT"} |-> x.val["VERDICT"]]
             y == g.e
  <2>1. g = Joined(x, "ok", DOMAIN vals, vals)
    BY <1>1, <1>8 DEF ImmediateResults
  <2>2. g = [result |-> "ok", e |-> y] /\ y = Joined(x, "ok", DOMAIN vals, vals).e
    BY <2>1 DEF Joined
  <2>3. DOMAIN vals = {"VERDICT"} /\ vals["VERDICT"] = x.val["VERDICT"]
    OBVIOUS
  <2> HIDE DEF vals, y
  <2>4. /\ Sound(k, y)
        /\ y.flags = (x.flags \cap {"DREG"}) \cup {"VERDICT"} /\ y.list = <<>>
        /\ y.val["VERDICT"] = x.val["VERDICT"]
        /\ "DREG" \in x.flags => y.val["DREG"] = x.val["DREG"]
        /\ \A r : Joined(y, r, DOMAIN vals, vals) = Joined(x, r, DOMAIN vals, vals)
    <3>1. "VERDICT" \in DOMAIN vals => vals["VERDICT"] \in {Accept, Stolen, Jump}
      BY <1>2, <1>8, <2>3
    <3>2. \A a \in DOMAIN vals : Holds(ops[k].set[a], vals[a])
      BY <1>5, <2>3
    <3> QED BY <2>2, <2>3, <3>1, <3>2, JoinedIs
  <2>5. Parse(k, Build(k, y), <<>>) = {g}
    <3>1. ImmediateResults(y) = {Joined(y, "ok", DOMAIN vals, vals)}
      BY <1>8, <2>3, <2>4 DEF ImmediateResults, vals
    <3> QED BY <1>3, <2>1, <2>4, <3>1
  <2>6. y.flags = x.flags \ Dropped(k, x) /\ ~Unknown(k, x)
    BY <1>2, <1>4, <1>8, <2>4, Verdicts
  <2>7. \A a \in y.flags : y.val[a] = x.val[a]
    BY <2>4
  <2> HIDE DEF k
  <2> QED BY <1>2, <1>11, <2>2, <2>4, <2>5, <2>6, <2>7 DEF Arrived, y, k
<1>9. CASE "DATA" \notin x.flags /\ "VERDICT" \in x.flags /\ x.val["VERDICT"] = Jump
  <2>1. ASSUME NEW c, Holds("name", c), g = JumpTo(x, c),
               "CHAIN" \in x.flags => c = x.val["CHAIN"]
        PROVE  Arrived(k, x, g)
    <3> DEFINE vals == [a \in {"VERDICT", "CHAIN"} |-> IF a = "CHAIN" THEN c ELSE x.val["VERDICT"]]
               y == g.e
    <3>1. g = Joined(x, "ok", DOMAIN vals, vals)
      BY <2>1 DEF JumpTo
    <3>2. g = [result |-> "ok", e |-> y] /\ y = Joined(x, "ok", DOMAIN vals, vals).e
      BY <3>1 DEF Joined
    <3>3. /\ DOMAIN vals = {"VERDICT", "CHAIN"}
          /\ vals["VERDICT"] = x.val["VERDICT"] /\ vals["CHAIN"] = c
      OBVIOUS
    <3> HIDE DEF vals, y
    <3>4. /\ Sound(k, y)
          /\ y.flags = (x.flags \cap {"DREG"}) \cup {"VERDICT", "CHAIN"} /\ y.list = <<>>
          /\ y.val["VERDICT"] = x.val["VERDICT"] /\ y.val["CHAIN"] = c
          /\ "DREG" \in x.flags => y.val["DREG"] = x.val["DREG"]
          /\ \A r : Joined(y, r, DOMAIN vals, vals) = Joined(x, r, DOMAIN vals, vals)
      <4>1. \A a \in DOMAIN vals : Holds(ops[k].set[a], vals[a])
        BY <1>5, <2>1, <3>3, ImmediateFields
      <4>2. vals["VERDICT"] \in {Accept, Stolen, Jump}
        BY <1>9, <3>3
      <4> QED BY <3>2, <3>3, <4>1, <4>2, JoinedIs
    <3>5. Parse(k, Build(k, y), <<>>) = {g}
      <4>1. JumpTo(y, y.val["CHAIN"]) = Joined(y, "ok", DOMAIN vals, vals)
        BY <3>3, <3>4 DEF JumpTo, vals
      <4>2. ImmediateResults(y) = {JumpTo(y, y.val["CHAIN"])}
        BY <1>9, <3>4, Verdicts DEF ImmediateResults
      <4> QED BY <1>3, <3>1, <3>4, <4>1, <4>2
    <3>6. ~Unknown(k, x) /\ (~Undef(k, x) => y.flags = x.flags \ Dropped(k, x))
      BY <1>2, <1>4, <1>9, <3>4, Verdicts
    <3>7. ~Undef(k, x) => \A a \in y.flags : y.val[a] = x.val[a]
      BY <1>4, <1>9, <2>1, <3>4
    <3> HIDE DEF k
    <3> QED BY <1>2, <1>11, <3>2, <3>4, <3>5, <3>6, <3>7 DEF Arrived, y, k
  <2>2. CASE "CHAIN" \in x.flags
    <3>1. g = JumpTo(x, x.val["CHAIN"])
      BY <1>1, <1>9, <2>2, Verdicts DEF ImmediateResults
    <3>2. Holds("name", x.val["CHAIN"])
      BY <1>5, ImmediateFields
    <3> QED BY <2>1, <3>1, <3>2
  <2>3. CASE "CHAIN" \notin x.flags
    <3>1. g \in {Joined(x, "refused", {}, <<>>), Joined(x, "fault", {}, <<>>), JumpTo(x, << 9 >>)}
      BY <1>1, <1>9, <2>3, Verdicts DEF ImmediateResults
    <3>2. Undef(k, x)
      BY <1>4, <1>9, <2>3
    <3>3. CASE g = JumpTo(x, << 9 >>)
      <4>1. Holds("name", << 9 >>)
        BY DEF Holds, Width
      <4> QED BY <2>1, <2>3, <3>3, <4>1
    <3>4. ASSUME NEW res \in {"refused", "fault"}, g = Joined(x, res, {}, <<>>)
          PROVE  Arrived(k, x, g)
      <4>1. g = [result |-> res, e |-> g.e] /\ Sound(k, g.e)
        BY <3>4, JoinedNothing
      <4> HIDE DEF k
      <4> QED BY <3>2, <4>1 DEF Arrived
    <3> QED BY <3>1, <3>3, <3>4
  <2> QED BY <2>2, <2>3
<1>10. CASE "DATA" \notin x.flags /\ "VERDICT" \in x.flags /\ x.val["VERDICT"] \notin {Accept, Jump}
  <2>1. g = Joined(x, "refused", {}, <<>>)
    BY <1>1, <1>10 DEF ImmediateResults
  <2>2. g = [result |-> "refused", e |-> g.e] /\ Sound(k, g.e)
    BY <2>1, JoinedNothing
  <2>3. Unknown(k, x)
    BY <1>2, <1>4, <1>10
  <2> QED BY <2>2, <2>3 DEF Arrived
<1> QED BY <1>6, <1>7, <1>8, <1>9, <1>10

-----------------------------------------------------------------------------
(* The specification                                                       *)

\* Whatever its type, the message of an expression arrives.
LEMMA Arrives ==
  ASSUME NEW k \in Kinds, NEW x, Sound(k, x), NEW follows \in {<<>>, << 9 >>},
         NEW g \in Parse(k, Build(k, x), follows)
  PROVE  Arrived(k, x, g)
BY PlainArrives, DynsetArrives, ImmediateArrives

\* What the reader has while it has nothing.
Nothing(k) == [result |-> "none", e |-> New(k)]
\* Either nothing is sent, or the message is that of the expression and the
\* reader has nothing or a result of reading it.
Sending ==
  \/ msg = None /\ got = Nothing(kind)
  \/ /\ msg = [in |-> "message", attrs |-> Build(kind, e)]
     /\ \/ got = Nothing(kind)
        \/ \E follows \in {<<>>, << 9 >>} : got \in Parse(kind, Build(kind, e), follows)
\* The inductive invariant.
IInv == kind \in Kinds /\ Sound(kind, e) /\ Sending

\* What the program sets a field to is a value of the field.
LEMMA ValuesHold ==
  ASSUME NEW k \in Kinds, NEW a \in Fields(k), NEW v \in Values(k, a)
  PROVE  /\ Holds(ops[k].set[a], v)
         /\ a = "VERDICT" => v \in {Accept, Stolen, Jump}
<1> DEFINE field == ops[k].set[a]
<1>1. field \in {"u8", "u16", "u32", "u64", "name", "data", "info"}
  BY FieldIs
<1>2. CASE a = "VERDICT"
  <2>1. k = "immediate"
    BY <1>2, AllAgree DEF TablesAgree, SetterAgrees
  <2>2. field = "u32"
    BY <1>2, <2>1, ImmediateFields
  <2>3. v \in {Accept, Stolen, Jump}
    BY <1>2, <2>2 DEF Values
  <2>4. v \in [1..4 -> Nat]
    BY <2>3, Verdicts
  <2>5. "u32" \in DOMAIN Width /\ Width["u32"] = 4
    BY DEF Width
  <2>6. Holds("u32", v)
    BY <2>4, <2>5 DEF Holds
  <2> QED BY <2>2, <2>3, <2>6
<1>3. CASE a # "VERDICT" /\ field = "name"
  <2>1. v \in {<<>>, <<7, 7, 7>>, <<7, 7, 7, 7>>}
    BY <1>3 DEF Values
  <2>2. v \in Seq(Nat) /\ \A i \in 1..Len(v) : v[i] # 0
    <3>1. CASE v = <<>> BY <3>1
    <3>2. CASE v = <<7, 7, 7>> BY <3>2
    <3>3. CASE v = <<7, 7, 7, 7>> BY <3>3
    <3> QED BY <2>1, <3>1, <3>2, <3>3
  <2> QED BY <1>3, <2>2 DEF Holds, Width
<1>4. CASE a # "VERDICT" /\ field \in {"data", "info"}
  <2>1. v \in {<<>>, <<1, 2, 3, 4>>}
    BY <1>4 DEF Values
  <2>2. v \in Seq(Nat)
    <3>1. CASE v = <<>> BY <3>1
    <3>2. CASE v = <<1, 2, 3, 4>> BY <3>2
    <3> QED BY <2>1, <3>1, <3>2
  <2> QED BY <1>4, <2>2 DEF Holds, Width
<1>5. CASE a # "VERDICT" /\ field \in {"u8", "u16", "u32", "u64"}
  <2>1. v \in {Zeros(Width[field]), [i \in 1..Width[field] |-> i]}
    BY <1>5 DEF Values
  <2>2. field \in DOMAIN Width /\ Width[field] \in Nat
    BY <1>5 DEF Width
  <2>3. v \in [1..Width[field] -> Nat]
    BY <2>1, <2>2 DEF Zeros
  <2> QED BY <1>5, <2>2, <2>3 DEF Holds
<1> QED BY <1>1, <1>2, <1>3, <1>4, <1>5

\* Setting a field leaves an expression sound, if no data is joined by a
\* verdict.
LEMMA SetSound ==
  ASSUME NEW k \in Kinds, NEW x, Sound(k, x), NEW a \in Fields(k), NEW v \in Values(k, a),
         a = "DATA" => x.flags \cap {"VERDICT", "CHAIN", "CHAIN_ID"} = {},
         a \in {"VERDICT", "CHAIN", "CHAIN_ID"} => "DATA" \notin x.flags
  PROVE  Sound(k, With(x, a, v))
<1> DEFINE y == With(x, a, v)
<1>1. /\ y = [flags |-> y.flags, val |-> y.val, list |-> y.list]
      /\ y.flags = x.flags \cup {a} /\ y.val = [x.val EXCEPT ![a] = v] /\ y.list = x.list
  BY DEF With
<1> HIDE DEF y
<1>2. Holds(ops[k].set[a], v) /\ v \in Seq(Nat)
  BY ValuesHold, HoldsSeq
<1>3. y.val \in [Fields(k) -> Seq(Nat)] /\ \A b \in Fields(k) : Holds(ops[k].set[b], y.val[b])
  BY <1>1, <1>2 DEF Sound
<1>4. y.flags \subseteq Bits(k)
  BY <1>1 DEF Sound, Bits
<1>5. k = "immediate" /\ "VERDICT" \in y.flags => y.val["VERDICT"] \in {Accept, Stolen, Jump}
  <2>1. CASE a = "VERDICT"
    <3>1. v \in {Accept, Stolen, Jump}
      BY <2>1, ValuesHold
    <3> QED BY <1>1, <2>1, <3>1 DEF Sound
  <2>2. CASE a # "VERDICT"
    BY <1>1, <2>2 DEF Sound
  <2> QED BY <2>1, <2>2
<1>6. k = "immediate" /\ "DATA" \in y.flags =>
        y.flags \cap {"VERDICT", "CHAIN", "CHAIN_ID"} = {}
  BY <1>1 DEF Sound
<1>7. y.list \in Seq({"limit", "counter"}) /\ Len(y.list) <= MaxExprs
      /\ (k # "dynset" => y.list = <<>>)
  BY <1>1 DEF Sound
<1>8. Sound(k, y)
  BY <1>1, <1>3, <1>4, <1>5, <1>6, <1>7 DEF Sound
<1> QED BY <1>8 DEF y

\* And so does adding to the list of a dynset.
LEMMA ListSound ==
  ASSUME NEW x, Sound("dynset", x), NEW flags, flags \subseteq {"EXPR"},
         NEW list \in Seq({"limit", "counter"}), Len(list) <= MaxExprs,
         NEW y, y = [flags |-> x.flags \cup flags, val |-> x.val, list |-> list]
  PROVE  Sound("dynset", y)
<1>1. y.flags = x.flags \cup flags /\ y.val = x.val /\ y.list = list
      /\ y = [flags |-> y.flags, val |-> y.val, list |-> y.list]
  OBVIOUS
<1>2. y.flags \subseteq Bits("dynset")
  BY <1>1 DEF Sound, Bits
<1> QED BY <1>1, <1>2 DEF Sound

\* There is a new expression and no message.
LEMMA Initially == Init => IInv
<1> SUFFICES ASSUME Init PROVE IInv
  OBVIOUS
<1> QED BY NewSound DEF Init, IInv, Sending, Nothing

\* Every call of the program and every step of the message keep the invariant.
LEMMA Steps == IInv /\ [Next]_vars => IInv'
<1> SUFFICES ASSUME IInv, [Next]_vars PROVE IInv'
  OBVIOUS
<1>1. kind \in Kinds /\ Sound(kind, e) /\ Sending
  BY DEF IInv
<1>2. msg = None => got = Nothing(kind)
  BY <1>1 DEF Sending, None
<1>3. ASSUME NEW a \in Fields(kind), NEW v \in Values(kind, a), set(a, v) PROVE IInv'
  <2>1. /\ msg = None /\ UNCHANGED <<kind, msg, got>> /\ e' = With(e, a, v)
        /\ a = "DATA" => e.flags \cap {"VERDICT", "CHAIN", "CHAIN_ID"} = {}
        /\ a \in {"VERDICT", "CHAIN", "CHAIN_ID"} => "DATA" \notin e.flags
    BY <1>3 DEF set
  <2>2. Sound(kind, With(e, a, v))
    BY <1>1, <2>1, SetSound
  <2> QED BY <1>1, <1>2, <2>1, <2>2 DEF IInv, Sending, Nothing
<1>4. ASSUME NEW x \in {"limit", "counter"}, set_expr(x) \/ add_expr(x) PROVE IInv'
  <2>1. msg = None /\ kind = "dynset" /\ UNCHANGED <<kind, msg, got>>
    BY <1>4 DEF set_expr, add_expr
  <2>2. e = [flags |-> e.flags, val |-> e.val, list |-> e.list]
        /\ e.list \in Seq({"limit", "counter"})
    BY <1>1 DEF Sound
  <2>3. CASE set_expr(x)
    <3>1. e' = [flags |-> e.flags \cup {"EXPR"}, val |-> e.val, list |-> <<x>>]
      BY <2>2, <2>3 DEF set_expr
    <3>2. <<x>> \in Seq({"limit", "counter"}) /\ Len(<<x>>) <= MaxExprs
      BY BoundsAssumption
    <3>3. Sound("dynset", e')
      BY <1>1, <2>1, <3>1, <3>2, ListSound
    <3> QED BY <1>1, <1>2, <2>1, <3>3 DEF IInv, Sending, Nothing
  <2>4. CASE add_expr(x)
    <3>1. e' = [flags |-> e.flags \cup {}, val |-> e.val, list |-> Append(e.list, x)]
      BY <2>2, <2>4 DEF add_expr
    <3>2. Append(e.list, x) \in Seq({"limit", "counter"}) /\ Len(Append(e.list, x)) <= MaxExprs
      BY <2>2, <2>4, BoundsAssumption DEF add_expr
    <3>3. Sound("dynset", e')
      BY <1>1, <2>1, <3>1, <3>2, ListSound
    <3> QED BY <1>1, <1>2, <2>1, <3>3 DEF IInv, Sending, Nothing
  <2> QED BY <1>4, <2>3, <2>4
<1>5. CASE build
  BY <1>1, <1>2, <1>5 DEF build, IInv, Sending, Nothing
<1>6. CASE parse
  BY <1>1, <1>6 DEF parse, IInv, Sending, Nothing
<1>7. CASE discard
  BY <1>1, <1>7 DEF discard, IInv, Sending, Nothing
<1>8. CASE forward
  <2>1. got.result = "ok" /\ e' = got.e /\ msg' = None /\ got' = Nothing(kind) /\ kind' = kind
    BY <1>8 DEF forward, Nothing
  <2>2. \E follows \in {<<>>, << 9 >>} : got \in Parse(kind, Build(kind, e), follows)
    BY <1>1, <2>1 DEF Sending, Nothing
  <2>3. Sound(kind, got.e)
    BY <1>1, <2>2, Arrives DEF Arrived
  <2> QED BY <1>1, <2>1, <2>3 DEF IInv, Sending, Nothing
<1>9. CASE UNCHANGED vars
  BY <1>1, <1>9 DEF vars, IInv, Sending, Nothing
<1> QED BY <1>3, <1>4, <1>5, <1>6, <1>7, <1>8, <1>9 DEF Next

\* So it always holds.
LEMMA Always == Spec => []IInv
BY Initially, Steps, PTL DEF Spec

\* Once there is a result, it is one that has arrived.
LEMMA HasArrived ==
  ASSUME IInv, got.result # "none" PROVE Arrived(kind, e, got)
<1>1. \E follows \in {<<>>, << 9 >>} : got \in Parse(kind, Build(kind, e), follows)
  BY DEF IInv, Sending, Nothing
<1> QED BY <1>1, Arrives DEF IInv

\* What the reader has is sound.
LEMMA GotSound ==
  ASSUME IInv
  PROVE  Sound(kind, got.e) /\ got.result \in {"none", "ok", "refused", "exit", "fault"}
<1>1. CASE got.result = "none"
  <2>1. got = Nothing(kind)
    <3>1. CASE got = Nothing(kind) BY <3>1
    <3>2. CASE \E follows \in {<<>>, << 9 >>} : got \in Parse(kind, Build(kind, e), follows)
      <4>1. Arrived(kind, e, got)
        BY <3>2, Arrives DEF IInv
      <4> QED BY <1>1, <4>1 DEF Arrived
    <3> QED BY <3>1, <3>2 DEF IInv, Sending
  <2> QED BY <2>1, NewSound DEF IInv, Nothing
<1>2. CASE got.result # "none"
  BY <1>2, HasArrived DEF Arrived
<1> QED BY <1>1, <1>2

\* A sound expression has the shape TypeOK asks for.
LEMMA TypesHold == IInv => TypeOK
<1> SUFFICES ASSUME IInv PROVE TypeOK
  OBVIOUS
<1>1. kind \in Kinds /\ Sound(kind, e) /\ Sound(kind, got.e)
  BY GotSound DEF IInv
<1>2. Bits(kind) \subseteq ToSet(api[kind])
  <2>1. ASSUME NEW a \in Fields(kind) PROVE a \in ToSet(api[kind])
    <3>1. Named(api[kind], a)
      BY <1>1, AllAgree DEF TablesAgree, SetterAgrees
    <3> QED BY <3>1 DEF Named, ToSet
  <2>2. ASSUME kind = "dynset" PROVE {"EXPR", "EXPRESSIONS"} \subseteq ToSet(api[kind])
    <3>1. api[kind][7] = "EXPR" /\ api[kind][8] = "EXPRESSIONS" /\ {7, 8} \subseteq DOMAIN api[kind]
      BY <2>2 DEF api
    <3> QED BY <3>1 DEF ToSet
  <2> QED BY <2>1, <2>2 DEF Bits
<1>3. ASSUME NEW x, Sound(kind, x) PROVE Expression(x)
  <2>1. \A a \in Fields(kind) : ops[kind].set[a] \in DOMAIN Width =>
          DOMAIN x.val[a] = 1..Width[ops[kind].set[a]]
    BY <1>3 DEF Sound, Holds
  <2> QED BY <1>2, <1>3, <2>1 DEF Sound, Expression
<1>4. msg = None \/ DOMAIN msg.attrs \subseteq DOMAIN abi[kind]
  <2>1. DOMAIN Build(kind, e) \subseteq DOMAIN abi[kind]
    BY <1>1, BuildIs
  <2> QED BY <2>1 DEF IInv, Sending
<1> QED BY <1>1, <1>3, <1>4, GotSound DEF TypeOK

\* The parts of the properties are those of Arrived.
LEMMA PartsAre ==
  /\ Undefined <=> Undef(kind, e)
  /\ Lost = Dropped(kind, e) /\ ListBit = ListBits(e)
  /\ LastDataEmpty <=> LastEmpty(kind, e)
<1>1. Undefined <=> Undef(kind, e)
  BY DEF Undefined, Undef, Names
<1>2. Lost = Dropped(kind, e) /\ ListBit = ListBits(e)
  BY DEF Lost, Dropped, ListBit, ListBits
<1>3. LastDataEmpty <=> LastEmpty(kind, e)
  BY DEF LastDataEmpty, LastEmpty, DataGiven, DataOrder
<1> QED BY <1>1, <1>2, <1>3

\* No message this library builds makes a reader with the same library exit, but for an
\* object reference with an empty name.
THEOREM NeverExits == Spec => []NoExit
<1>1. IInv => NoExit
  <2> SUFFICES ASSUME IInv, got.result = "exit"
               PROVE  /\ kind = "objref"
                      /\ \E a \in {"IMM_NAME", "SET_NAME"} \cap e.flags : e.val[a] = <<>>
    BY DEF NoExit
  <2>1. EmptyName(kind, e)
    BY HasArrived DEF Arrived
  <2> QED BY <2>1 DEF EmptyName, Names
<1> QED BY <1>1, Always, PTL

\* The reader has the bits and the values that the program set, nothing less
\* and nothing more.
THEOREM ArrivesExactly == Spec => []Exact
<1>1. IInv => SameBits
  <2> SUFFICES ASSUME IInv, got.result = "ok", ~Undefined
               PROVE  /\ got.e.flags = (e.flags \ Lost) \cup ListBit
                      /\ \A a \in got.e.flags \cap Fields(kind) : got.e.val[a] = e.val[a]
                      /\ got.e.list = e.list
    BY DEF SameBits
  <2> QED BY HasArrived, PartsAre DEF Arrived
<1>2. IInv => Exact
  BY <1>1, TypesHold DEF Exact
<1> QED BY <1>2, Always, PTL

\* A message is refused for a verdict the parser does not know and for a last
\* data value that is empty, and for nothing else.
THEOREM RefusedFor == Spec => []Refused
<1>1. IInv => Refused
  <2> SUFFICES ASSUME IInv, got.result # "none", ~Undefined
               PROVE  (got.result = "refused") =
                        (\/ LastDataEmpty
                         \/ /\ kind = "immediate" /\ "VERDICT" \in e.flags
                            /\ e.val["VERDICT"] = Stolen)
    BY DEF Refused
  <2> QED BY HasArrived, PartsAre DEF Arrived, Unknown
<1> QED BY <1>1, Always, PTL

\* What has been through a message once goes through unchanged ever after.
THEOREM SettlesAtOnce == Spec => []Settled
<1>1. IInv => Settled
  <2> SUFFICES ASSUME IInv, got.result = "ok"
               PROVE  Parse(kind, Build(kind, got.e), <<>>) = {got}
    BY DEF Settled
  <2> QED BY HasArrived DEF Arrived
<1> QED BY <1>1, Always, PTL
=============================================================================

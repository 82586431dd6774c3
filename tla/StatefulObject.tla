--------------------------- MODULE StatefulObject ---------------------------
(***************************************************************************)
(* A stateful object: the program chooses its type and sets attributes, in *)
(* any order, builds the message, and a reader with the same library parses*)
(* it into a new object.  ObjTables says what each type does.              *)
(*                                                                         *)
(* mem is the union of the fields of all types, byte by byte, and the bits *)
(* of flags from NFTNL_OBJ_BASE on mean an attribute of whatever type is   *)
(* chosen now.  Nothing ties a bit to the type it was set under: it may    *)
(* come before the type, and stay when the type changes.                   *)
(*                                                                         *)
(* A value is the sequence of its bytes in memory, least significant first.*)
(* NFT_SECMARK_CTX_MAXLEN (256) is cut down to what mem has room for.      *)
(***************************************************************************)
EXTENDS ObjTables, SequencesExt, FiniteSets

CONSTANT Programs  \* what a program does at most: the types it chooses from,
                   \* the attributes of all types and the number of bits it sets
ProgramsAssumption ==
  \A p \in Programs :
    /\ p.kinds \subseteq DOMAIN obj_ops /\ p.heads \subseteq DOMAIN obj_set
    /\ p.bits \in Nat \ {0}

VARIABLES
  program,   \* the program, one of Programs
  obj,       \* the object of the program
  said,      \* what the program may count on: attributes of one type, set and
             \* not written over since (no part of the library)
  msg,       \* the message, None, or Crash
  got        \* what the reader has: a result, and the new object

vars == <<program, obj, said, msg, got>>

None  == [in |-> "nothing"]
Crash == [in |-> "crash"]
NoOps == "none"
Types == DOMAIN obj_ops

Width == [u8 |-> 1, u16 |-> 2, u32 |-> 4, u64 |-> 8, in6 |-> 16, array |-> 44,
          U8 |-> 1, U16 |-> 2, U32 |-> 4, U64 |-> 8,
          be16 |-> 2, be32 |-> 4, be64 |-> 8]
MemSize == 68
Zeros(n) == [i \in 1..n |-> 0]
Resize(v, n) == [i \in 1..n |-> IF i <= Len(v) THEN v[i] ELSE 0]

Fields(k)    == DOMAIN obj_ops[k].set
Offset(k, a) == obj_ops[k].set[a][1]
Field(k, a)  == obj_ops[k].set[a][2]
Bit(k, a)    == (CHOOSE n \in DOMAIN api[k] : api[k][n] = a) - 1
                  + IF k = "obj" THEN 0 ELSE NFTNL_OBJ_BASE
Common         == DOMAIN obj_set
TYPE         == Bit("obj", "TYPE")
Bits         == NFTNL_OBJ_BASE .. NFTNL_OBJ_BASE + 15

\* The union of the options of a tunnel (obj.h): attributes that share memory.
Alternative(k, a, b) ==
  k = "tunnel" /\ {a, b} \in {{"VXLAN_GBP", "ERSPAN_VERSION"},
                             {"ERSPAN_V1_INDEX", "ERSPAN_V2_HWID"},
                             {"ERSPAN_V1_INDEX", "ERSPAN_V2_DIR"}}

New == [flags |-> {}, ops |-> NoOps, mem |-> Zeros(MemSize),
        head |-> [a \in Common |-> <<>>]]

\* Bytes that differ from attribute to attribute and from front to back.
Values(k, a) ==
  CASE Field(k, a) = "chars" -> {<<>>, <<7, 7, 7>>, <<7, 7, 7, 7>>}
    [] a = "L4PROTO" -> IF k = "ct_timeout" THEN {<<6>>, <<17>>} ELSE {<<6>>}
    [] Field(k, a) = "array" -> {[i \in 1..44 |-> i]}
    [] OTHER -> {[i \in 1..Width[Field(k, a)] |->
                    15 * (Bit(k, a) - NFTNL_OBJ_BASE + 1) + i]}
CommonValues(a) ==
  CASE obj_set[a] = "name" -> {<<>>, <<7, 7, 7>>}
    [] obj_set[a] = "blob" -> {<<1, 2, 3>>}
    [] OTHER               -> {[i \in 1..Width[obj_set[a]] |-> i]}

\* The bytes v at an offset of memory, and the value of an attribute there.
Write(mem, at, v) ==
  [j \in DOMAIN mem |-> IF j - at \in DOMAIN v THEN v[j - at] ELSE mem[j]]
Text(bytes) ==
  LET ends == {i \in DOMAIN bytes : bytes[i] = 0}
  IN  IF ends = {} THEN bytes ELSE SubSeq(bytes, 1, Min(ends) - 1)
Read(mem, k, a) ==
  LET behind == SubSeq(mem, Offset(k, a) + 1, Len(mem))
  IN  IF Field(k, a) = "chars" THEN Text(behind)
      ELSE SubSeq(behind, 1, Width[Field(k, a)])
\* snprintf adds the NUL.
Store(mem, k, a, v) ==
  Write(mem, Offset(k, a), IF Field(k, a) = "chars" THEN Append(v, 0) ELSE v)

Nothing == [type |-> NoOps, attrs |-> {}]

Init ==
  /\ program \in Programs
  /\ obj = New
  /\ said = Nothing
  /\ msg = None
  /\ got = [result |-> "none", obj |-> New, knows |-> {}]

-----------------------------------------------------------------------------
(* The program *)

Room(n) == n \in obj.flags \/ Cardinality(obj.flags) < program.bits

\* nftnl_obj_set_data for the attributes of all types.
set_head(a, v) ==
  /\ msg = None /\ Room(Bit("obj", a))
  /\ a \in Common /\ v \in CommonValues(a)
  /\ obj' = [obj EXCEPT !.flags = @ \cup {Bit("obj", a)}, !.head[a] = v]
  /\ UNCHANGED <<program, said, msg, got>>

\* NFTNL_OBJ_TYPE.  A type the library does not know (NoOps) takes away the
\* old one, and returns before the bit.
set_type(k) ==
  /\ msg = None /\ Room(TYPE)
  /\ obj' = IF k = NoOps THEN [obj EXCEPT !.ops = NoOps]
            ELSE [obj EXCEPT !.ops = k, !.flags = @ \cup {TYPE}]
  /\ UNCHANGED <<program, said, msg, got>>

\* The other attributes.  Without a type the bit is set and the value lost.
set_untyped(n) ==
  /\ msg = None /\ Room(n)
  /\ obj.ops = NoOps
  /\ obj' = [obj EXCEPT !.flags = @ \cup {n}]
  /\ UNCHANGED <<program, said, msg, got>>

set(a, v) ==
  LET k    == obj.ops
      left == IF said.type # k THEN {}
              ELSE {b \in said.attrs : ~Alternative(k, a, b)}
  IN  /\ msg = None
      /\ k # NoOps
      /\ a \in Fields(k) /\ v \in Values(k, a)
      /\ Room(Bit(k, a))
      /\ obj' = [obj EXCEPT !.flags = @ \cup {Bit(k, a)},
                            !.mem = Store(@, k, a, v)]
      /\ said' = [type |-> k, attrs |-> left \cup {a}]
      /\ UNCHANGED <<program, msg, got>>

-----------------------------------------------------------------------------
(* The builder *)

Payload(in, is) == [in |-> in, is |-> is]

Encode(how, v, states) ==
  CASE how = "u8"     -> Payload("bytes", Resize(v, 1))
    [] how = "strz"   -> Payload("bytes", Append(v, 0))
    [] how = "states" -> Payload("states", SubSeq(v, 1, 4 * states))
    [] how \in {"be16", "be32", "be64"} ->
         Payload("bytes", Reverse(Resize(v, Width[how])))
    [] OTHER          -> Payload("bytes", v)             \* raw, str

Data  == At("obj", "DATA")
Gives(x, p) == Bit(x.ops, p.attr) \in x.flags
                 /\ \E g \in p.with : \A b \in g : Bit(x.ops, b) \in x.flags
\* Of two nests with the number OPTS a reader keeps the last: with erspan,
\* GBP goes unread.
Shadowed(x, p) ==
  /\ p.attr = "VXLAN_GBP"
  /\ \E q \in tunnel_build : q.attr = "ERSPAN_VERSION" /\ Gives(x, q)

States(x) == IF x.ops # "ct_timeout" THEN 0
             ELSE timeout_protocol(Read(x.mem, x.ops, "L4PROTO")[1])

BuildData(x) ==
  LET sent == {p \in obj_ops[x.ops].build : Gives(x, p) /\ ~Shadowed(x, p)}
  IN  [at \in {Data \o p.at : p \in sent} |->
         LET p == CHOOSE p \in sent : Data \o p.at = at
         IN  Encode(p.how, Read(x.mem, x.ops, p.attr), States(x))]

BuildHead(x) ==
  LET sent == {p \in obj_build : Bit("obj", p.attr) \in x.flags}
  IN  [at \in {p.at : p \in sent} |->
         LET p == CHOOSE p \in sent : p.at = at
         IN  Encode(p.how, x.head[p.attr], 0)]

Build(x) ==
  LET head == BuildHead(x)
      type == IF TYPE \in x.flags THEN {At("obj", "TYPE")} ELSE {}
      data == IF x.ops = NoOps THEN <<>> ELSE BuildData(x)
      nest == IF x.ops = NoOps THEN {} ELSE {Data}
  IN  [at \in DOMAIN head \cup type \cup nest \cup DOMAIN data |->
         CASE at \in DOMAIN head -> head[at]
           [] at \in type        -> Payload("type", x.ops)
           [] at \in nest        -> Payload("nest", <<>>)
           [] OTHER              -> data[at]]

\* Where the builder reads the number of a type that is not there.
Dangles(x) == TYPE \in x.flags /\ x.ops = NoOps

build ==
  /\ msg = None
  /\ msg' = IF Dangles(obj) THEN Crash
            ELSE [in |-> "message", attrs |-> Build(obj)]
  /\ UNCHANGED <<program, obj, said, got>>

\* Another process begins.
restart ==
  /\ msg = Crash
  /\ obj' = New /\ said' = Nothing /\ msg' = None
  /\ UNCHANGED <<program, got>>

-----------------------------------------------------------------------------
(* The reader *)

\* mnl_attr_validate, and the bound on a helper's name.  Four bytes pass for
\* a nest.
Valid(type, p) ==
  CASE type \in DOMAIN Width -> p.in = "bytes" /\ Len(p.is) = Width[type]
    [] type = "STRING"       -> p.is # <<>>
    [] type = "STRING16"     -> p.is # <<>> /\ Len(p.is) < 16
    [] OTHER                 -> TRUE                     \* NESTED

Breaks(m, ops) ==
  \/ \E c \in obj_cb : c.at \in DOMAIN m /\ ~Valid(c.type, m[c.at])
  \/ /\ ops # NoOps
     /\ \E c \in obj_ops[ops].cb :
          Data \o c.at \in DOMAIN m /\ ~Valid(c.type, m[Data \o c.at])

\* A string ends at its NUL, in the padding, or in what follows.
ReadString(bytes, follows) ==
  IF Text(bytes) = bytes /\ Len(bytes) % 4 = 0 THEN bytes \o follows
  ELSE Text(bytes)

Decode(how, p, width, states, follows) ==
  CASE how = "str"    -> ReadString(p.is, follows)
    [] how = "u8"     -> Resize(Resize(p.is, 1), width)
    [] how = "states" -> Resize(SubSeq(p.is, 1, 4 * states), width)
    [] how \in {"be16", "be32", "be64"} ->
         Resize(Reverse(Resize(p.is, Width[how])), width)
    [] OTHER          -> p.is                            \* raw

Within(m, nest) == \E at \in DOMAIN m : IsPrefix(nest, at)

\* The attributes that a parser takes from a message.  Bytes where it expects
\* a nest are the header of an attribute and nothing behind it; with the
\* values here it is too long or too short.
Taken(k, m) == {t \in obj_ops[k].parse : /\ Data \o t.at \in DOMAIN m
                                        /\ ~Within(m, Data \o t.without)}

\* What one of them makes of the memory of x.
Fill(x, m, follows, mem, a) ==
  LET k == x.ops
      t == CHOOSE t \in Taken(k, m) : t.attr = a
      w == IF Field(k, a) = "chars" THEN 0 ELSE Width[Field(k, a)]
  IN  IF \E u \in Taken(k, m) : u.attr = a
      THEN Store(mem, k, a, Decode(t.how, m[Data \o t.at], w,
                                   States([x EXCEPT !.mem = mem]), follows))
      ELSE mem
Filled(x, m, follows) ==
  FoldLeft(LAMBDA mem, a : Fill(x, m, follows, mem, a), x.mem, api[x.ops])

ParseData(x, m, follows) ==
  [x EXCEPT !.flags = @ \cup {Bit(x.ops, t.attr) : t \in Taken(x.ops, m)},
            !.mem = Filled(x, m, follows)]

\* nftnl_obj_ops_lookup in the library of the reader, which knows some types.
Lookup(m, knows) ==
  LET type == At("obj", "TYPE")
  IN  IF type \in DOMAIN m /\ m[type].is \in knows THEN m[type].is ELSE NoOps

\* The attributes of all types.  The family comes with the header of the
\* message (its value is left out).
ParseHead(m, ops, follows) ==
  LET taken == {t \in obj_parse : t.at \in DOMAIN m}
      given == {t.attr : t \in taken}
      val(a) == LET t == CHOOSE t \in taken : t.attr = a
                    w == IF obj_set[a] \in DOMAIN Width
                         THEN Width[obj_set[a]] ELSE 0
                IN  Decode(t.how, m[t.at], w, 0, follows)
  IN  [New EXCEPT !.flags = {Bit("obj", a) : a \in given \cup {"FAMILY"}},
                  !.ops = ops,
                  !.head = [a \in Common |-> IF a \in given THEN val(a)
                                             ELSE @[a]]]

Parse(m, knows, follows) ==
  LET ops  == Lookup(m, knows)
      head == ParseHead(m, ops, follows)
      known == [head EXCEPT !.flags = @ \cup {TYPE}]
  IN  IF Breaks(m, ops) THEN [result |-> "exit", obj |-> New, knows |-> knows]
      ELSE [result |-> "ok", knows |-> knows,
            obj |-> IF ops = NoOps THEN head
                    ELSE ParseData(known, m, follows)]

\* The reader's library is as old as the program's, or older.
parse ==
  /\ msg \notin {None, Crash} /\ got.result = "none"
  /\ \E follows \in {<<>>, <<9>>}, knows \in {Types, {}} :
       got' = Parse(msg.attrs, knows, follows)
  /\ UNCHANGED <<program, obj, said, msg>>

\* The reader lets go of what it has, and the program goes on.
discard ==
  /\ got.result # "none"
  /\ msg' = None /\ got' = [result |-> "none", obj |-> New, knows |-> {}]
  /\ UNCHANGED <<program, obj, said>>

Next ==
  \/ \E a \in program.heads : \E v \in CommonValues(a) : set_head(a, v)
  \/ \E k \in program.kinds \cup {NoOps} : set_type(k)
  \/ \E n \in Bits : set_untyped(n)
  \/ \E k \in program.kinds \cap {obj.ops} : \E a \in Fields(k) :
       \E v \in Values(k, a) : set(a, v)
  \/ build
  \/ restart
  \/ parse
  \/ discard

Spec == Init /\ [][Next]_vars

-----------------------------------------------------------------------------
(* Properties *)

\* The shape of objects and messages.
Object(x) ==
  /\ x.flags \subseteq 0..6 \cup Bits
  /\ x.ops \in Types \cup {NoOps}
  /\ DOMAIN x.mem = 1..MemSize
  /\ \A a \in Common : obj_set[a] \in DOMAIN Width =>
       Len(x.head[a]) \in {0, Width[obj_set[a]]}
TypeOK ==
  /\ Object(obj) /\ Object(got.obj)
  /\ got.result \in {"none", "ok", "exit"}
  /\ said.type # NoOps => said.attrs \subseteq Fields(said.type)

\* What the program set under the type the object has now reads back as set,
\* whatever else was set before or after, under this type or another, as long
\* as it is not an alternative of the same union of options (GBP and the
\* version of erspan; index and hardware identifier): the fields of a type do
\* not run into each other, and its attributes stay marked.
Stored ==
  obj.ops = said.type /\ obj.ops # NoOps =>
    \A a \in said.attrs :
      /\ Bit(obj.ops, a) \in obj.flags
      /\ Read(obj.mem, obj.ops, a) \in Values(obj.ops, a)

\* An object that was read can be sent on: it is never marked as having a type
\* that is not there, whatever types the message and the library know.  (An
\* object the program makes can: see set_type and Dangles.)
NoFault == got.result = "ok" => ~Dangles(got.obj)

\* No message this library builds makes a reader with the same library exit
\* (abi_breakage, utils.c:327), but for a name of a helper or context of a
\* secmark that the program set empty, or never set under the type the object
\* now has: bytes left by another type, which may be none or too many.
NoExit ==
  got.result = "exit" =>
    LET text == api[obj.ops][1] IN
      /\ obj.ops \in {"ct_helper", "secmark"} /\ NFTNL_OBJ_BASE \in obj.flags
      /\ \/ Read(obj.mem, obj.ops, text) = <<>>
         \/ ~(said.type = obj.ops /\ text \in said.attrs)

Given(x) == IF x.ops = NoOps THEN {}
            ELSE {a \in Fields(x.ops) : Bit(x.ops, a) \in x.flags}

\* What of a tunnel does not arrive: the flags but for one byte, GBP, one
\* family of addresses if both are given, a label without an address, the
\* options of erspan if they are not complete.
Lost(x) ==
  LET g == Given(x)
      v4 == {"IPV4_SRC", "IPV4_DST"}
      v6 == {"IPV6_SRC", "IPV6_DST"}
      gbp == "VXLAN_GBP" \in g
      erspan == \E s \in Erspan : s \subseteq g
  IN  IF x.ops # "tunnel" THEN {}
      ELSE {"VXLAN_GBP"}
           \cup (IF g \cap v4 # {} THEN v6 \cup {"IPV6_FLOWLABEL"} ELSE {})
           \cup (IF g \cap v6 = {} THEN {"IPV6_FLOWLABEL"} ELSE {})
           \cup (IF erspan THEN {} ELSE UNION Erspan)

\* A context or name with a multiple of four characters, sent without its NUL.
Unended(x) == /\ x.ops \in {"ct_helper", "secmark"} /\ NFTNL_OBJ_BASE \in x.flags
              /\ Len(Read(x.mem, x.ops, api[x.ops][1])) % 4 = 0

\* A timeout has as many states as the protocol that the reader knows of; the
\* rest of the array is not sent, or not read.  The flags of a tunnel are read from one byte of four.
Arrives(x, a) ==
  LET v == Read(x.mem, x.ops, a) IN
    CASE x.ops = "ct_timeout" /\ a = "ARRAY" ->
           IF Bit(x.ops, "L4PROTO") \in x.flags
           THEN Resize(SubSeq(v, 1, 4 * States(x)), 44) ELSE Zeros(44)
      [] x.ops = "tunnel" /\ a = "FLAGS" -> Resize(<<v[4]>>, 4)
      [] OTHER -> v

\* The reader has the type and the attributes of the program's object, with
\* the same values, and no others: of all nine types, in whatever order they
\* were set, but for what is named above.  A reader that does not know the
\* type has nothing of it.
Exact ==
  got.result = "ok" =>
    /\ got.obj.ops = IF obj.ops \in got.knows THEN obj.ops ELSE NoOps
    /\ got.obj.flags \cap Bits =
         IF got.obj.ops = NoOps THEN {}
         ELSE {Bit(obj.ops, a) : a \in Given(obj) \ Lost(obj)}
    /\ ~Unended(obj) =>
         \A a \in Given(got.obj) :
           Read(got.obj.mem, obj.ops, a) = Arrives(obj, a)

\* The attributes of all types arrive, too, but for the number of references,
\* which only the kernel sends; the family comes with every message.
HeadExact ==
  got.result = "ok" =>
    LET given(x) == {a \in Common : Bit("obj", a) \in x.flags}
        sent     == given(obj) \ {"USE", "FAMILY"}
    IN
      /\ given(got.obj) = sent \cup {"FAMILY"}
      /\ \A a \in sent : got.obj.head[a] = obj.head[a]

\* The callbacks insist on four bytes for the flags of a tunnel (tunnel.c:154)
\* and the parser takes them as what they are.
FlagsAreU32 ==
  got.result = "ok" /\ obj.ops = "tunnel" /\ "FLAGS" \in Given(got.obj) =>
    Read(got.obj.mem, "tunnel", "FLAGS") = Read(obj.mem, "tunnel", "FLAGS")
=============================================================================

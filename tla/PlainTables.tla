----------------------------- MODULE PlainTables -----------------------------
(***************************************************************************)
(* Tables, chains, rules, sets, set elements and flowtables: what each does*)
(* with its attributes.  These types keep every attribute in a field of its*)
(* own, and name the attributes of messages (places) as their own; what may*)
(* be wrong is which attribute needs or excludes another, which of them is *)
(* stored, sent and read, and with what width.                             *)
(*                                                                         *)
(* X_set     what becomes of an attribute that is set                      *)
(* X_build   which attribute the builder puts where, how, and when         *)
(* X_cb      the type the attribute callbacks insist on, by place          *)
(* X_parse   which place each attribute is taken from, and how; X_rest what*)
(*           is taken behind the list of expressions                       *)
(*                                                                         *)
(* FAMILY is not in messages but in their header.  What is data of an      *)
(* element is left to ElemData, and the lengths of the fields of a set to  *)
(* SetDesc.                                                                *)
(***************************************************************************)
EXTENDS Sequences, Naturals

(* A place in a message: by itself, or in a nest.                          *)
Top(a)      == <<a>>
In(nest, a) == <<nest, a>>

(* Attribute attr goes to place at if all of with are set and none of      *)
(* without.                                                                *)
PutIf(attr, at, how, with, without) ==
  {[attr |-> attr, at |-> at, how |-> how, with |-> with, without |-> without]}
Put(attr, how)        == PutIf(attr, Top(attr), how, {}, {})
PutAll(attrs, how)    == UNION {Put(a, how) : a \in attrs}
Take(at, attr, how)   == {[at |-> at, attr |-> attr, how |-> how]}
TakeAll(attrs, how)   == UNION {Take(Top(a), a, how) : a \in attrs}
CheckAll(attrs, type) == {[at |-> Top(a), type |-> type] : a \in attrs}
CheckIn(nest, attrs, type) == {[at |-> In(nest, a), type |-> type] : a \in attrs}

-----------------------------------------------------------------------------
table_set == {"NAME", "HANDLE", "FLAGS", "USE", "USERDATA", "OWNER"}
\* USE and OWNER come from the kernel only.
table_build == PutAll({"NAME"}, "strz") \cup PutAll({"HANDLE"}, "be64")
  \cup PutAll({"FLAGS"}, "be32") \cup PutAll({"USERDATA"}, "raw")
table_cb == CheckAll({"NAME"}, "STRING") \cup CheckAll({"HANDLE"}, "U64")
  \cup CheckAll({"FLAGS", "USE", "OWNER"}, "U32")
table_parse == TakeAll({"NAME"}, "str") \cup TakeAll({"HANDLE"}, "be64")
  \cup TakeAll({"FLAGS", "USE", "OWNER"}, "be32") \cup TakeAll({"USERDATA"}, "raw")

-----------------------------------------------------------------------------
chain_set == {"NAME", "TABLE", "HOOKNUM", "PRIO", "POLICY", "USE", "BYTES",
  "PACKETS", "HANDLE", "TYPE", "DEV", "DEVICES", "FLAGS", "ID", "USERDATA"}

\* Mutant: the devices are sent whether there is a device or not.
chain_hook_both ==
  LET hook == {"HOOKNUM", "PRIO"} IN
    PutIf("HOOKNUM", In("HOOK", "HOOKNUM"), "be32", hook, {})
    \cup PutIf("PRIO", In("HOOK", "PRIORITY"), "be32", hook, {})
    \cup PutIf("DEV", In("HOOK", "DEV"), "strz", hook, {})
    \cup PutIf("DEVICES", In("HOOK", "DEVS"), "devs", hook, {})
chain_hook ==
  LET hook == {"HOOKNUM", "PRIO"} IN
    PutIf("HOOKNUM", In("HOOK", "HOOKNUM"), "be32", hook, {})
    \cup PutIf("PRIO", In("HOOK", "PRIORITY"), "be32", hook, {})
    \cup PutIf("DEV", In("HOOK", "DEV"), "strz", hook, {})
    \cup PutIf("DEVICES", In("HOOK", "DEVS"), "devs", hook, {"DEV"})
chain_build ==
  PutAll({"TABLE", "NAME", "TYPE"}, "strz")
  \cup PutAll({"POLICY", "USE", "FLAGS", "ID"}, "be32")
  \cup PutAll({"HANDLE"}, "be64") \cup PutAll({"USERDATA"}, "raw")
  \cup chain_hook
  \cup UNION {PutIf(a, In("COUNTERS", a), "be64", {"PACKETS", "BYTES"}, {}) :
                a \in {"PACKETS", "BYTES"}}

chain_cb == CheckAll({"NAME", "TABLE", "TYPE"}, "STRING")
  \cup CheckAll({"POLICY", "USE", "FLAGS", "ID"}, "U32")
  \cup CheckAll({"HANDLE"}, "U64")
chain_counters_cb == CheckIn("COUNTERS", {"PACKETS", "BYTES"}, "U64")
chain_hook_cb == CheckIn("HOOK", {"HOOKNUM", "PRIORITY"}, "U32")
  \cup CheckIn("HOOK", {"DEV"}, "STRING")

chain_parse_counters ==
  UNION {Take(In("COUNTERS", a), a, "be64") : a \in {"PACKETS", "BYTES"}}
chain_parse_hook == Take(In("HOOK", "HOOKNUM"), "HOOKNUM", "be32")
  \cup Take(In("HOOK", "PRIORITY"), "PRIO", "be32")
  \cup Take(In("HOOK", "DEV"), "DEV", "str")
  \cup Take(In("HOOK", "DEVS"), "DEVICES", "devs")
chain_parse == TakeAll({"NAME", "TABLE", "TYPE"}, "str") \cup chain_parse_hook
  \cup TakeAll({"POLICY", "USE", "FLAGS", "ID"}, "be32") \cup chain_parse_counters
  \cup TakeAll({"HANDLE"}, "be64") \cup TakeAll({"USERDATA"}, "raw")

-----------------------------------------------------------------------------
rule_set == {"TABLE", "CHAIN", "HANDLE", "COMPAT_PROTO", "COMPAT_FLAGS",
  "POSITION", "USERDATA", "ID", "POSITION_ID"}
rule_build ==
  LET compat == {"COMPAT_PROTO", "COMPAT_FLAGS"} IN
    PutAll({"TABLE", "CHAIN"}, "strz") \cup PutAll({"HANDLE", "POSITION"}, "be64")
    \cup PutAll({"USERDATA"}, "raw") \cup PutAll({"ID", "POSITION_ID"}, "be32")
    \cup UNION {PutIf(a, In("COMPAT", a), "be32", compat, {}) : a \in compat}
rule_cb == CheckAll({"TABLE", "CHAIN"}, "STRING")
  \cup CheckAll({"HANDLE", "POSITION"}, "U64")
  \cup CheckAll({"ID", "POSITION_ID"}, "U32")
  \cup CheckIn("COMPAT", {"COMPAT_PROTO", "COMPAT_FLAGS"}, "U32")
rule_parse_compat ==
  UNION {Take(In("COMPAT", a), a, "be32") : a \in {"COMPAT_PROTO", "COMPAT_FLAGS"}}
rule_parse == TakeAll({"TABLE", "CHAIN"}, "str") \cup TakeAll({"HANDLE"}, "be64")
rule_rest == rule_parse_compat \cup TakeAll({"POSITION"}, "be64")
  \cup TakeAll({"USERDATA"}, "raw") \cup TakeAll({"ID", "POSITION_ID"}, "be32")

-----------------------------------------------------------------------------
\* EXPR puts an expression on the list, and EXPRESSIONS only sets the bit.
set_set == {"TABLE", "NAME", "HANDLE", "FLAGS", "KEY_TYPE", "KEY_LEN",
  "DATA_TYPE", "DATA_LEN", "OBJ_TYPE", "ID", "POLICY", "DESC_SIZE", "TIMEOUT",
  "GC_INTERVAL", "USERDATA"}
set_u32s == {"FLAGS", "KEY_TYPE", "KEY_LEN", "DATA_TYPE", "DATA_LEN", "ID",
  "POLICY", "GC_INTERVAL"}
set_build == PutAll({"TABLE", "NAME"}, "strz")
  \cup PutAll({"HANDLE", "TIMEOUT"}, "be64")
  \cup PutAll(set_u32s \cup {"OBJ_TYPE"}, "be32") \cup PutAll({"USERDATA"}, "raw")
  \cup PutIf("DESC_SIZE", In("DESC", "SIZE"), "be32", {}, {})
set_cb == CheckAll({"TABLE", "NAME"}, "STRING")
  \cup CheckAll({"HANDLE", "TIMEOUT"}, "U64") \cup CheckAll(set_u32s, "U32")
  \cup CheckIn("DESC", {"SIZE"}, "U32")
set_parse == TakeAll({"TABLE", "NAME"}, "str")
  \cup TakeAll({"HANDLE", "TIMEOUT"}, "be64")
  \cup TakeAll(set_u32s \cup {"OBJ_TYPE"}, "be32") \cup TakeAll({"USERDATA"}, "raw")
  \cup Take(In("DESC", "SIZE"), "DESC_SIZE", "be32")

-----------------------------------------------------------------------------
\* The set that a list of elements is of.
elem_list_build == PutIf("NAME", Top("SET"), "strz", {}, {})
  \cup PutIf("ID", Top("SET_ID"), "be32", {}, {}) \cup PutAll({"TABLE"}, "strz")
elem_list_cb == CheckAll({"TABLE", "SET"}, "STRING")
elem_list_parse == TakeAll({"TABLE"}, "str") \cup Take(Top("SET"), "NAME", "str")
  \cup Take(Top("SET_ID"), "ID", "be32")

set_elem_set == {"FLAGS", "KEY", "KEY_END", "TIMEOUT", "EXPIRATION", "USERDATA",
  "OBJREF"}
set_elem_build == PutAll({"FLAGS"}, "be32")
  \cup PutAll({"TIMEOUT", "EXPIRATION"}, "be64")
  \cup PutIf("KEY", In("KEY", "VALUE"), "raw", {}, {})
  \cup PutIf("KEY_END", In("KEY_END", "VALUE"), "raw", {}, {})
  \cup PutAll({"USERDATA"}, "raw") \cup PutAll({"OBJREF"}, "strz")
set_elem_cb == CheckAll({"FLAGS"}, "U32")
  \cup CheckAll({"TIMEOUT", "EXPIRATION"}, "U64")
set_elem_parse == TakeAll({"FLAGS"}, "be32")
  \cup TakeAll({"TIMEOUT", "EXPIRATION"}, "be64")
  \cup Take(In("KEY", "VALUE"), "KEY", "raw")
  \cup Take(In("KEY_END", "VALUE"), "KEY_END", "raw")
set_elem_rest == TakeAll({"USERDATA"}, "raw") \cup TakeAll({"OBJREF"}, "str")

-----------------------------------------------------------------------------
flowtable_set == {"NAME", "TABLE", "HOOKNUM", "PRIO", "DEVICES", "SIZE", "FLAGS",
  "HANDLE"}
flowtable_build == PutAll({"TABLE", "NAME"}, "strz")
  \cup PutIf("HOOKNUM", In("HOOK", "NUM"), "be32", {}, {})
  \cup PutIf("PRIO", In("HOOK", "PRIORITY"), "be32", {}, {})
  \cup PutIf("DEVICES", In("HOOK", "DEVS"), "devs", {}, {})
  \cup PutAll({"FLAGS", "USE"}, "be32") \cup PutAll({"HANDLE"}, "be64")
flowtable_cb == CheckAll({"NAME", "TABLE"}, "STRING")
  \cup CheckAll({"FLAGS", "USE"}, "U32") \cup CheckAll({"HANDLE"}, "U64")
flowtable_hook_cb == CheckIn("HOOK", {"NUM", "PRIORITY"}, "U32")
  \cup CheckIn("HOOK", {"DEVS"}, "NESTED")
flowtable_parse_hook == Take(In("HOOK", "NUM"), "HOOKNUM", "be32")
  \cup Take(In("HOOK", "PRIORITY"), "PRIO", "be32")
  \cup Take(In("HOOK", "DEVS"), "DEVICES", "devs")
flowtable_parse == TakeAll({"NAME", "TABLE"}, "str") \cup flowtable_parse_hook
  \cup TakeAll({"FLAGS", "USE"}, "be32") \cup TakeAll({"HANDLE"}, "be64")

-----------------------------------------------------------------------------
(* All of them.  bits: attributes that can be set and are not stored.      *)
(* keeps: attributes whose bit stays when they are unset.                  *)
Kind(store, bits, keeps, build, cb, parse, rest) ==
  [store |-> store, bits |-> bits, keeps |-> keeps, build |-> build, cb |-> cb,
   parse |-> parse, rest |-> rest]
kinds ==
  [table     |-> Kind(table_set, {}, {}, table_build, table_cb, table_parse, {}),
   chain     |-> Kind(chain_set, {}, {"USERDATA"}, chain_build,
                      chain_cb \cup chain_counters_cb \cup chain_hook_cb,
                      chain_parse, {}),
   rule      |-> Kind(rule_set, {}, {}, rule_build, rule_cb, rule_parse, rule_rest),
   set       |-> Kind(set_set, {"EXPRESSIONS"}, {}, set_build, set_cb, set_parse,
                      {}),
   elem_list |-> Kind(set_set, {}, {}, elem_list_build, elem_list_cb,
                      elem_list_parse, {}),
   set_elem  |-> Kind(set_elem_set, {"EXPRESSIONS"}, {}, set_elem_build,
                      set_elem_cb, set_elem_parse, set_elem_rest),
   flowtable |-> Kind(flowtable_set, {"USE"}, {"SIZE"}, flowtable_build,
                      flowtable_cb \cup flowtable_hook_cb, flowtable_parse, {})]
=============================================================================

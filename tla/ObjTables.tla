------------------------------ MODULE ObjTables ------------------------------
(***************************************************************************)
(* The nine types of stateful objects and what each does with its          *)
(* attributes.  An object is one struct for all types: the fields of each  *)
(* begin at the same address (a union), and the attributes of each are     *)
(* numbered from the same bit of flags.  So the layout matters here, unlike*)
(* in ExprTables, and messages nest up to three deep.                      *)
(*                                                                         *)
(* X_set     offset and width of the field that each attribute is kept in  *)
(* X_cb      the type the attribute callbacks insist on, by place          *)
(* X_build   which attribute the builder puts where, and how               *)
(* X_parse   which place the parser takes an attribute from, and how       *)
(***************************************************************************)
EXTENDS Sequences, Naturals

(* A place in a message: the numbers of the nests and of the attribute.    *)
(* The name number n of an enumeration has the number n.                   *)
tunnel_enums ==
  [tunnel |-> <<"ID", "IP", "IP6", "FLAGS", "TOS", "TTL", "SPORT", "DPORT",
     "OPTS">>,
   ip |-> <<"SRC", "DST">>,
   ip6 |-> <<"SRC", "DST", "FLOWLABEL">>,
   opts |-> <<"VXLAN", "ERSPAN", "GENEVE">>,
   vxlan |-> <<"GBP">>,
   erspan |-> <<"VERSION", "V1_INDEX", "V2_HWID", "V2_DIR">>]

enums ==
  [counter |-> <<"BYTES", "PACKETS", "PAD">>,
   quota |-> <<"BYTES", "FLAGS", "PAD", "CONSUMED">>,
   ct_helper |-> <<"NAME", "L3PROTO", "L4PROTO">>,
   limit |-> <<"RATE", "UNIT", "BURST", "TYPE", "FLAGS", "PAD">>,
   ct_timeout |-> <<"L3PROTO", "L4PROTO", "DATA">>,
   secmark |-> <<"CTX">>,
   ct_expect |-> <<"L3PROTO", "L4PROTO", "DPORT", "TIMEOUT", "SIZE">>,
   synproxy |-> <<"MSS", "WSCALE", "FLAGS">>,
   obj |-> <<"TABLE", "NAME", "TYPE", "DATA", "USE", "HANDLE", "PAD",
     "USERDATA">>]

At(enum, name) ==
  IF enum \in DOMAIN enums
  THEN <<CHOOSE n \in DOMAIN enums[enum] : enums[enum][n] = name>>
  ELSE <<CHOOSE n \in DOMAIN tunnel_enums[enum] : tunnel_enums[enum][n] = name>>

\* The attributes of all types (obj), from bit 0 on, and those of each, from
\* bit NFTNL_OBJ_BASE on.
NFTNL_OBJ_BASE == 16
api ==
  [obj |-> <<"TABLE", "NAME", "TYPE", "FAMILY", "USE", "HANDLE", "USERDATA">>,
   counter |-> <<"PKTS", "BYTES">>,
   quota |-> <<"BYTES", "CONSUMED", "FLAGS">>,
   ct_helper |-> <<"NAME", "L3PROTO", "L4PROTO">>,
   limit |-> <<"RATE", "UNIT", "BURST", "TYPE", "FLAGS">>,
   tunnel |-> <<"ID", "IPV4_SRC", "IPV4_DST", "IPV6_SRC", "IPV6_DST",
     "IPV6_FLOWLABEL", "SPORT", "DPORT", "FLAGS", "TOS", "TTL", "VXLAN_GBP",
     "ERSPAN_VERSION", "ERSPAN_V1_INDEX", "ERSPAN_V2_HWID",
     "ERSPAN_V2_DIR">>,
   ct_timeout |-> <<"L3PROTO", "L4PROTO", "ARRAY">>,
   secmark |-> <<"CTX">>,
   ct_expect |-> <<"L3PROTO", "L4PROTO", "DPORT", "TIMEOUT", "SIZE">>,
   synproxy |-> <<"MSS", "WSCALE", "FLAGS">>]

(* Attribute attr goes to place at, if one of the sets in with is set too. *)
PutIf(attr, at, how, with) ==
  {[attr |-> attr, at |-> at, how |-> how, with |-> with]}
Put(attr, at, how)  == PutIf(attr, at, how, {{}})

(* Place at goes into attr, unless the message has the nest without.       *)
Take(at, attr, how)  ==
  {[attr |-> attr, at |-> at, how |-> how, without |-> <<0>>]}
TakeIf(at, attr, how, without) ==
  {[attr |-> attr, at |-> at, how |-> how, without |-> without]}

Check(at, type) == {[at |-> at, type |-> type]}

(* A table for a type with no nests, whose names agree.                    *)
PutAll(k, names, how)   == UNION {Put(n, At(k, n), how) : n \in names}
TakeAll(k, names, how)  == UNION {Take(At(k, n), n, how) : n \in names}
CheckAll(k, names, type) == UNION {Check(At(k, n), type) : n \in names}

-----------------------------------------------------------------------------
(* What all types have in common.  TYPE and DATA are left to StatefulObject.*)
obj_set ==
  [a \in {"TABLE", "NAME", "FAMILY", "USE", "HANDLE", "USERDATA"} |->
     CASE a \in {"TABLE", "NAME"} -> "name"
       [] a \in {"FAMILY", "USE"} -> "u32"
       [] a = "HANDLE"            -> "u64"
       [] a = "USERDATA"          -> "blob"]
obj_cb == CheckAll("obj", {"TABLE", "NAME"}, "STRING")
  \cup CheckAll("obj", {"HANDLE"}, "U64") \cup CheckAll("obj", {"USE"}, "U32")
obj_build == PutAll("obj", {"TABLE", "NAME"}, "strz")
  \cup PutAll("obj", {"HANDLE"}, "be64") \cup PutAll("obj", {"USERDATA"}, "raw")
obj_parse == TakeAll("obj", {"TABLE", "NAME"}, "str")
  \cup TakeAll("obj", {"USE"}, "be32") \cup TakeAll("obj", {"HANDLE"}, "be64")
  \cup TakeAll("obj", {"USERDATA"}, "raw")

-----------------------------------------------------------------------------
counter_set == [PKTS |-> <<0, "u64">>, BYTES |-> <<8, "u64">>]
counter_cb  == CheckAll("counter", {"BYTES", "PACKETS"}, "U64")
counter_build == Put("BYTES", At("counter", "BYTES"), "be64")
  \cup Put("PKTS", At("counter", "PACKETS"), "be64")

counter_parse == Take(At("counter", "BYTES"), "BYTES", "be64")
  \cup Take(At("counter", "PACKETS"), "PKTS", "be64")

quota_set == [BYTES |-> <<0, "u64">>, CONSUMED |-> <<8, "u64">>,
              FLAGS |-> <<16, "u32">>]
quota_cb == CheckAll("quota", {"BYTES", "CONSUMED"}, "U64")
  \cup CheckAll("quota", {"FLAGS"}, "U32")
quota_build == PutAll("quota", {"BYTES", "CONSUMED"}, "be64")
  \cup PutAll("quota", {"FLAGS"}, "be32")
quota_parse == TakeAll("quota", {"BYTES", "CONSUMED"}, "be64")
  \cup TakeAll("quota", {"FLAGS"}, "be32")

ct_helper_set == [L3PROTO |-> <<0, "u16">>, L4PROTO |-> <<2, "u8">>,
                  NAME |-> <<3, "chars">>]
ct_helper_cb == CheckAll("ct_helper", {"NAME"}, "STRING16")
  \cup CheckAll("ct_helper", {"L3PROTO"}, "U16")
  \cup CheckAll("ct_helper", {"L4PROTO"}, "U8")
ct_helper_build == PutAll("ct_helper", {"NAME"}, "str")
  \cup PutAll("ct_helper", {"L3PROTO"}, "be16")
  \cup PutAll("ct_helper", {"L4PROTO"}, "u8")
ct_helper_parse == TakeAll("ct_helper", {"NAME"}, "str")
  \cup TakeAll("ct_helper", {"L3PROTO"}, "be16")
  \cup TakeAll("ct_helper", {"L4PROTO"}, "u8")

\* Mutant: the burst is kept over the end of the unit.
limit_set_overlap ==
  [RATE |-> <<0, "u64">>, UNIT |-> <<8, "u64">>, BURST |-> <<12, "u32">>,
   TYPE |-> <<20, "u32">>, FLAGS |-> <<24, "u32">>]
limit_set ==
  [RATE |-> <<0, "u64">>, UNIT |-> <<8, "u64">>, BURST |-> <<16, "u32">>,
   TYPE |-> <<20, "u32">>, FLAGS |-> <<24, "u32">>]
limit_cb == CheckAll("limit", {"RATE", "UNIT"}, "U64")
  \cup CheckAll("limit", {"BURST", "TYPE", "FLAGS"}, "U32")
limit_build == PutAll("limit", {"RATE", "UNIT"}, "be64")
  \cup PutAll("limit", {"BURST", "TYPE", "FLAGS"}, "be32")
limit_parse == TakeAll("limit", {"RATE", "UNIT"}, "be64")
  \cup TakeAll("limit", {"BURST", "TYPE", "FLAGS"}, "be32")

\* The array has one timeout per state of the protocol (TimeoutStates).
ct_timeout_set == [L3PROTO |-> <<0, "u16">>, L4PROTO |-> <<2, "u8">>,
                   ARRAY |-> <<4, "array">>]
ct_timeout_cb == CheckAll("ct_timeout", {"L3PROTO"}, "U16")
  \cup CheckAll("ct_timeout", {"L4PROTO"}, "U8")
ct_timeout_build == PutAll("ct_timeout", {"L3PROTO"}, "be16")
  \cup PutAll("ct_timeout", {"L4PROTO"}, "u8")
  \cup Put("ARRAY", At("ct_timeout", "DATA"), "states")
ct_timeout_parse == TakeAll("ct_timeout", {"L3PROTO"}, "be16")
  \cup TakeAll("ct_timeout", {"L4PROTO"}, "u8")
  \cup Take(At("ct_timeout", "DATA"), "ARRAY", "states")
timeout_protocol(l4proto) == CASE l4proto = 6  -> 11      \* IPPROTO_TCP
                               [] l4proto = 17 -> 2       \* IPPROTO_UDP
                               [] OTHER        -> 0

secmark_set   == [CTX |-> <<0, "chars">>]
secmark_cb    == CheckAll("secmark", {"CTX"}, "STRING")
secmark_build == PutAll("secmark", {"CTX"}, "str")
secmark_parse == TakeAll("secmark", {"CTX"}, "str")

\* The timeout, alone of all integers, is sent in host order.
ct_expect_set ==
  [L3PROTO |-> <<0, "u16">>, DPORT |-> <<2, "u16">>, L4PROTO |-> <<4, "u8">>,
   SIZE |-> <<5, "u8">>, TIMEOUT |-> <<8, "u32">>]
ct_expect_cb == CheckAll("ct_expect", {"L3PROTO", "DPORT"}, "U16")
  \cup CheckAll("ct_expect", {"L4PROTO", "SIZE"}, "U8")
  \cup CheckAll("ct_expect", {"TIMEOUT"}, "U32")
\* Mutant: the size is sent with two bytes.
ct_expect_build_wide == PutAll("ct_expect", {"L3PROTO", "DPORT"}, "be16")
  \cup PutAll("ct_expect", {"L4PROTO"}, "u8")
  \cup PutAll("ct_expect", {"SIZE"}, "be16")
  \cup PutAll("ct_expect", {"TIMEOUT"}, "raw")
ct_expect_build == PutAll("ct_expect", {"L3PROTO", "DPORT"}, "be16")
  \cup PutAll("ct_expect", {"L4PROTO", "SIZE"}, "u8")
  \cup PutAll("ct_expect", {"TIMEOUT"}, "raw")
ct_expect_parse == TakeAll("ct_expect", {"L3PROTO", "DPORT"}, "be16")
  \cup TakeAll("ct_expect", {"L4PROTO", "SIZE"}, "u8")
  \cup TakeAll("ct_expect", {"TIMEOUT"}, "raw")

synproxy_set == [MSS |-> <<0, "u16">>, WSCALE |-> <<2, "u8">>,
                 FLAGS |-> <<4, "u32">>]
synproxy_cb == CheckAll("synproxy", {"MSS"}, "U16")
  \cup CheckAll("synproxy", {"WSCALE"}, "U8")
  \cup CheckAll("synproxy", {"FLAGS"}, "U32")
synproxy_build == PutAll("synproxy", {"MSS"}, "be16")
  \cup PutAll("synproxy", {"WSCALE"}, "u8")
  \cup PutAll("synproxy", {"FLAGS"}, "be32")
synproxy_parse == TakeAll("synproxy", {"MSS"}, "be16")
  \cup TakeAll("synproxy", {"WSCALE"}, "u8")
  \cup TakeAll("synproxy", {"FLAGS"}, "be32")

-----------------------------------------------------------------------------
(* The tunnel: a union of options within the union, and nests.             *)
tunnel_set ==
  [ID |-> <<0, "u32">>, IPV4_SRC |-> <<4, "u32">>, IPV4_DST |-> <<8, "u32">>,
   IPV6_SRC |-> <<12, "in6">>, IPV6_DST |-> <<28, "in6">>,
   SPORT |-> <<44, "u16">>, DPORT |-> <<46, "u16">>,
   IPV6_FLOWLABEL |-> <<48, "u32">>, FLAGS |-> <<52, "u32">>,
   TOS |-> <<56, "u8">>, TTL |-> <<57, "u8">>, VXLAN_GBP |-> <<60, "u32">>,
   ERSPAN_VERSION |-> <<60, "u32">>, ERSPAN_V1_INDEX |-> <<64, "u32">>,
   ERSPAN_V2_HWID |-> <<64, "u8">>, ERSPAN_V2_DIR |-> <<65, "u8">>]

InIp(name)     == At("tunnel", "IP") \o At("ip", name)
InIp6(name)    == At("tunnel", "IP6") \o At("ip6", name)
InVxlan(name)  == At("tunnel", "OPTS") \o At("opts", "VXLAN")
                    \o At("vxlan", name)
InErspan(name) == At("tunnel", "OPTS") \o At("opts", "ERSPAN")
                    \o At("erspan", name)

tunnel_cb == CheckAll("tunnel", {"ID", "FLAGS"}, "U32")
  \cup CheckAll("tunnel", {"SPORT", "DPORT"}, "U16")
  \cup CheckAll("tunnel", {"TOS", "TTL"}, "U8")
tunnel_ip_cb  == Check(InIp("SRC"), "U32") \cup Check(InIp("DST"), "U32")
tunnel_ip6_cb == Check(InIp6("FLOWLABEL"), "U32")
tunnel_opts_cb ==
  Check(At("tunnel", "OPTS") \o At("opts", "VXLAN"), "NESTED")
    \cup Check(At("tunnel", "OPTS") \o At("opts", "ERSPAN"), "NESTED")
tunnel_vxlan_cb  == Check(InVxlan("GBP"), "U32")
tunnel_erspan_cb == Check(InErspan("VERSION"), "U32")
  \cup Check(InErspan("V1_INDEX"), "U32")
  \cup Check(InErspan("V2_HWID"), "U8") \cup Check(InErspan("V2_DIR"), "U8")

\* The label goes along with an IPv6 address; the options of erspan if there
\* is a version and all of one kind.  GBP goes into the nest of the options
\* directly: its number there is that of the nest VXLAN.
WithAddress == {{"IPV6_SRC"}, {"IPV6_DST"}}
Erspan      == {{"ERSPAN_VERSION", "ERSPAN_V1_INDEX"},
                {"ERSPAN_VERSION", "ERSPAN_V2_HWID", "ERSPAN_V2_DIR"}}
tunnel_build ==
  PutAll("tunnel", {"ID", "FLAGS"}, "be32")
  \cup Put("IPV4_SRC", InIp("SRC"), "raw")
  \cup Put("IPV4_DST", InIp("DST"), "raw")
  \cup Put("IPV6_SRC", InIp6("SRC"), "raw")
  \cup Put("IPV6_DST", InIp6("DST"), "raw")
  \cup PutIf("IPV6_FLOWLABEL", InIp6("FLOWLABEL"), "be32", WithAddress)
  \cup PutAll("tunnel", {"SPORT", "DPORT"}, "be16")
  \cup PutAll("tunnel", {"TOS", "TTL"}, "u8")
  \cup Put("VXLAN_GBP", At("tunnel", "OPTS") \o At("vxlan", "GBP"), "be32")
  \cup PutIf("ERSPAN_VERSION", InErspan("VERSION"), "be32", Erspan)
  \cup PutIf("ERSPAN_V1_INDEX", InErspan("V1_INDEX"), "be32", Erspan)
  \cup PutIf("ERSPAN_V2_HWID", InErspan("V2_HWID"), "u8", Erspan)
  \cup PutIf("ERSPAN_V2_DIR", InErspan("V2_DIR"), "u8", Erspan)

tunnel_parse == TakeAll("tunnel", {"ID"}, "be32")
  \cup TakeAll("tunnel", {"SPORT", "DPORT"}, "be16")
  \cup TakeAll("tunnel", {"TOS", "TTL", "FLAGS"}, "u8")
tunnel_parse_ip ==
  Take(InIp("SRC"), "IPV4_SRC", "raw") \cup Take(InIp("DST"), "IPV4_DST", "raw")
\* Mutant: the addresses of both families are taken.
tunnel_parse_ip6_both ==
  Take(InIp6("SRC"), "IPV6_SRC", "raw") \cup Take(InIp6("DST"), "IPV6_DST", "raw")
    \cup Take(InIp6("FLOWLABEL"), "IPV6_FLOWLABEL", "be32")
tunnel_parse_ip6 ==
  LET TakeIp6(at, attr, how) == TakeIf(at, attr, how, At("tunnel", "IP"))
  IN  TakeIp6(InIp6("SRC"), "IPV6_SRC", "raw")
        \cup TakeIp6(InIp6("DST"), "IPV6_DST", "raw")
        \cup TakeIp6(InIp6("FLOWLABEL"), "IPV6_FLOWLABEL", "be32")
tunnel_parse_vxlan == Take(InVxlan("GBP"), "VXLAN_GBP", "be32")
tunnel_parse_erspan ==
  LET TakeErspan(name, attr, how) ==
        TakeIf(InErspan(name), attr, how, At("tunnel", "OPTS") \o At("opts", "VXLAN"))
  IN  TakeErspan("VERSION", "ERSPAN_VERSION", "be32")
        \cup TakeErspan("V1_INDEX", "ERSPAN_V1_INDEX", "be32")
        \cup TakeErspan("V2_HWID", "ERSPAN_V2_HWID", "u8")
        \cup TakeErspan("V2_DIR", "ERSPAN_V2_DIR", "u8")

-----------------------------------------------------------------------------
Ops(set, cb, build, parse) ==
  [set |-> set, cb |-> cb, build |-> build, parse |-> parse]

obj_ops ==
  [counter |-> Ops(counter_set, counter_cb, counter_build, counter_parse),
   quota |-> Ops(quota_set, quota_cb, quota_build, quota_parse),
   ct_helper |->
     Ops(ct_helper_set, ct_helper_cb, ct_helper_build, ct_helper_parse),
   limit |-> Ops(limit_set, limit_cb, limit_build, limit_parse),
   tunnel |->
     Ops(tunnel_set,
         tunnel_cb \cup tunnel_ip_cb \cup tunnel_ip6_cb \cup tunnel_opts_cb
           \cup tunnel_vxlan_cb \cup tunnel_erspan_cb,
         tunnel_build,
         tunnel_parse \cup tunnel_parse_ip \cup tunnel_parse_ip6
           \cup tunnel_parse_vxlan \cup tunnel_parse_erspan),
   ct_timeout |->
     Ops(ct_timeout_set, ct_timeout_cb, ct_timeout_build, ct_timeout_parse),
   secmark |-> Ops(secmark_set, secmark_cb, secmark_build, secmark_parse),
   ct_expect |->
     Ops(ct_expect_set, ct_expect_cb, ct_expect_build, ct_expect_parse),
   synproxy |->
     Ops(synproxy_set, synproxy_cb, synproxy_build, synproxy_parse)]
=============================================================================

----------------------------- MODULE ExprTables -----------------------------
(***************************************************************************)
(* What each type of expression does with its attributes.  The library     *)
(* spells it out in four functions per type, over two numberings: that of  *)
(* the program (NFTNL_EXPR_X_A, the bits of flags) and that of the kernel  *)
(* (NFTA_X_A, the attributes of a message), whose orders differ.  Nothing  *)
(* but care keeps the four in step, and this module records each by itself.*)
(*                                                                         *)
(* X_set     the attributes the setter takes, and the field each is kept in*)
(* X_cb      the type the attribute callback insists on: another length    *)
(*           ends the process (abi_breakage)                               *)
(* X_build   what the builder puts into a message if the bit is set        *)
(* X_parse   what the parser takes from a message, and the bit it sets     *)
(*                                                                         *)
(* The verdict of immediate and the expressions of dynset are left to      *)
(* ExprWire.  notrack has no attribute and none of the functions.          *)
(***************************************************************************)

\* Both functions; the first where they meet.
f ++ g == [a \in DOMAIN f \cup DOMAIN g |-> IF a \in DOMAIN f THEN f[a] ELSE g[a]]

(* A field: an integer of some width, a string, a data register, the       *)
(* block of a match or target.                                             *)
Held(as, field) == [a \in as |-> field]

(* The type of an attribute; osf and synproxy go by the program's numbers. *)
Check(as, type)    == [a \in as |-> [type |-> type, by |-> "abi"]]
CheckApi(as, type) == [a \in as |-> [type |-> type, by |-> "api"]]

(* Field attr goes into attribute nla.  How: u8, be16, be32, be64 as an    *)
(* integer in network order; nonzero as be32, but only if it is not 0;     *)
(* strz and str as a string with and without its NUL; data in a nest.      *)
Put(as, how) ==
  {[attr |-> a, nla |-> a, how |-> how, by |-> "abi"] : a \in as}
PutApi(as, how) ==
  {[attr |-> a, nla |-> a, how |-> how, by |-> "api"] : a \in as}
PutAs(attr, nla, how) ==
  {[attr |-> attr, nla |-> nla, how |-> how, by |-> "abi"]}

(* Attribute nla goes into field attr and sets its bit, by the program's   *)
(* number of it or (TakeAbi) by the kernel's.                              *)
Take(as, how) ==
  {[attr |-> a, nla |-> a, how |-> how, by |-> "api"] : a \in as}
TakeAbi(as, how) ==
  {[attr |-> a, nla |-> a, how |-> how, by |-> "abi"] : a \in as}
TakeAs(nla, attr, how) ==
  {[attr |-> attr, nla |-> nla, how |-> how, by |-> "api"]}

-----------------------------------------------------------------------------
(* The two numberings: the n-th name has the number n.                     *)
api ==
  [bitwise |-> <<"SREG", "DREG", "LEN", "MASK", "XOR", "OP", "DATA">>,
   byteorder |-> <<"DREG", "SREG", "OP", "LEN", "SIZE">>,
   cmp |-> <<"SREG", "OP", "DATA">>,
   connlimit |-> <<"COUNT", "FLAGS">>,
   counter |-> <<"PACKETS", "BYTES">>,
   ct |-> <<"DREG", "KEY", "DIR", "SREG">>,
   dup |-> <<"SREG_ADDR", "SREG_DEV">>,
   dynset |-> <<"SREG_KEY", "SREG_DATA", "OP", "TIMEOUT", "SET_NAME",
     "SET_ID", "EXPR", "EXPRESSIONS", "FLAGS">>,
   exthdr |-> <<"DREG", "TYPE", "OFFSET", "LEN", "FLAGS", "OP", "SREG">>,
   fib |-> <<"DREG", "RESULT", "FLAGS">>,
   flow |-> <<"TABLE_NAME">>,
   fullcone |-> <<"FLAGS", "REG_PROTO_MIN", "REG_PROTO_MAX">>,
   fwd |-> <<"SREG_DEV", "SREG_ADDR", "NFPROTO">>,
   hash |-> <<"SREG", "DREG", "LEN", "MODULUS", "SEED", "OFFSET", "TYPE",
     "SET_NAME", "SET_ID">>,
   immediate |-> <<"DREG", "DATA", "VERDICT", "CHAIN", "CHAIN_ID">>,
   last |-> <<"MSECS", "SET">>,
   limit |-> <<"RATE", "UNIT", "BURST", "TYPE", "FLAGS">>,
   log |-> <<"PREFIX", "GROUP", "SNAPLEN", "QTHRESHOLD", "LEVEL", "FLAGS">>,
   lookup |-> <<"SREG", "DREG", "SET", "SET_ID", "FLAGS">>,
   masq |-> <<"FLAGS", "REG_PROTO_MIN", "REG_PROTO_MAX">>,
   match |-> <<"NAME", "REV", "INFO">>,
   meta |-> <<"KEY", "DREG", "SREG">>,
   nat |-> <<"TYPE", "FAMILY", "REG_ADDR_MIN", "REG_ADDR_MAX",
     "REG_PROTO_MIN", "REG_PROTO_MAX", "FLAGS">>,
   numgen |-> <<"DREG", "MODULUS", "TYPE", "OFFSET", "SET_NAME", "SET_ID">>,
   objref |-> <<"IMM_TYPE", "IMM_NAME", "SET_SREG", "SET_NAME", "SET_ID">>,
   osf |-> <<"DREG", "TTL", "FLAGS">>,
   payload |-> <<"DREG", "BASE", "OFFSET", "LEN", "SREG", "CSUM_TYPE",
     "CSUM_OFFSET", "FLAGS">>,
   queue |-> <<"NUM", "TOTAL", "FLAGS", "SREG_QNUM">>,
   quota |-> <<"BYTES", "FLAGS", "CONSUMED">>,
   range |-> <<"SREG", "OP", "FROM_DATA", "TO_DATA">>,
   redir |-> <<"REG_PROTO_MIN", "REG_PROTO_MAX", "FLAGS">>,
   reject |-> <<"TYPE", "CODE">>,
   rt |-> <<"KEY", "DREG">>,
   socket |-> <<"KEY", "DREG", "LEVEL">>,
   synproxy |-> <<"MSS", "WSCALE", "FLAGS">>,
   target |-> <<"NAME", "REV", "INFO">>,
   tproxy |-> <<"FAMILY", "REG_ADDR", "REG_PORT">>,
   tunnel |-> <<"KEY", "DREG">>,
   xfrm |-> <<"DREG", "SREG", "KEY", "DIR", "SPNUM">>]

abi ==
  [bitwise |-> <<"SREG", "DREG", "LEN", "MASK", "XOR", "OP", "DATA">>,
   byteorder |-> <<"SREG", "DREG", "OP", "LEN", "SIZE">>,
   cmp |-> <<"SREG", "OP", "DATA">>,
   connlimit |-> <<"COUNT", "FLAGS">>,
   counter |-> <<"BYTES", "PACKETS", "PAD">>,
   ct |-> <<"DREG", "KEY", "DIRECTION", "SREG">>,
   dup |-> <<"SREG_ADDR", "SREG_DEV">>,
   dynset |-> <<"SET_NAME", "SET_ID", "OP", "SREG_KEY", "SREG_DATA",
     "TIMEOUT", "EXPR", "PAD", "FLAGS", "EXPRESSIONS">>,
   exthdr |-> <<"DREG", "TYPE", "OFFSET", "LEN", "FLAGS", "OP", "SREG">>,
   fib |-> <<"DREG", "RESULT", "FLAGS">>,
   flow |-> <<"TABLE_NAME">>,
   fullcone |-> <<"FLAGS", "REG_PROTO_MIN", "REG_PROTO_MAX">>,
   fwd |-> <<"SREG_DEV", "SREG_ADDR", "NFPROTO">>,
   hash |-> <<"SREG", "DREG", "LEN", "MODULUS", "SEED", "OFFSET", "TYPE",
     "SET_NAME", "SET_ID">>,
   immediate |-> <<"DREG", "DATA">>,
   last |-> <<"SET", "MSECS", "PAD">>,
   limit |-> <<"RATE", "UNIT", "BURST", "TYPE", "FLAGS", "PAD">>,
   log |-> <<"GROUP", "PREFIX", "SNAPLEN", "QTHRESHOLD", "LEVEL", "FLAGS">>,
   lookup |-> <<"SET", "SREG", "DREG", "SET_ID", "FLAGS">>,
   masq |-> <<"FLAGS", "REG_PROTO_MIN", "REG_PROTO_MAX">>,
   match |-> <<"NAME", "REV", "INFO", "PROTOCOL", "FLAGS">>,
   meta |-> <<"DREG", "KEY", "SREG">>,
   nat |-> <<"TYPE", "FAMILY", "REG_ADDR_MIN", "REG_ADDR_MAX",
     "REG_PROTO_MIN", "REG_PROTO_MAX", "FLAGS">>,
   numgen |-> <<"DREG", "MODULUS", "TYPE", "OFFSET", "SET_NAME", "SET_ID">>,
   objref |-> <<"IMM_TYPE", "IMM_NAME", "SET_SREG", "SET_NAME", "SET_ID">>,
   osf |-> <<"DREG", "TTL", "FLAGS">>,
   payload |-> <<"DREG", "BASE", "OFFSET", "LEN", "SREG", "CSUM_TYPE",
     "CSUM_OFFSET", "CSUM_FLAGS">>,
   queue |-> <<"NUM", "TOTAL", "FLAGS", "SREG_QNUM">>,
   quota |-> <<"BYTES", "FLAGS", "PAD", "CONSUMED">>,
   range |-> <<"SREG", "OP", "FROM_DATA", "TO_DATA">>,
   redir |-> <<"REG_PROTO_MIN", "REG_PROTO_MAX", "FLAGS">>,
   reject |-> <<"TYPE", "ICMP_CODE">>,
   rt |-> <<"DREG", "KEY">>,
   socket |-> <<"KEY", "DREG", "LEVEL">>,
   synproxy |-> <<"MSS", "WSCALE", "FLAGS">>,
   target |-> <<"NAME", "REV", "INFO", "PROTOCOL", "FLAGS">>,
   tproxy |-> <<"FAMILY", "REG_ADDR", "REG_PORT">>,
   tunnel |-> <<"KEY", "DREG", "MODE">>,
   xfrm |-> <<"DREG", "KEY", "DIR", "SPNUM">>]

-----------------------------------------------------------------------------
bitwise_set == Held({"SREG", "DREG", "OP", "LEN"}, "u32")
  ++ Held({"MASK", "XOR", "DATA"}, "data")
bitwise_cb == Check({"SREG", "DREG", "OP", "LEN"}, "U32")
  ++ Check({"MASK", "XOR", "DATA"}, "BINARY")
bitwise_build == Put({"SREG", "DREG", "OP", "LEN"}, "be32")
  \cup Put({"MASK", "XOR", "DATA"}, "data")
bitwise_parse == Take({"SREG", "DREG", "OP", "LEN"}, "be32")
  \cup TakeAbi({"MASK", "XOR"}, "data") \cup Take({"DATA"}, "data")

byteorder_set == Held({"SREG", "DREG", "OP", "LEN", "SIZE"}, "u32")
byteorder_cb == Check({"SREG", "DREG", "OP", "LEN", "SIZE"}, "U32")
byteorder_build == Put({"SREG", "DREG", "OP", "LEN", "SIZE"}, "be32")
byteorder_parse == Take({"SREG", "DREG", "OP", "LEN", "SIZE"}, "be32")

cmp_set == Held({"SREG", "OP"}, "u32") ++ Held({"DATA"}, "data")
cmp_cb == Check({"SREG", "OP"}, "U32") ++ Check({"DATA"}, "BINARY")
cmp_build == Put({"SREG", "OP"}, "be32") \cup Put({"DATA"}, "data")
cmp_parse == TakeAbi({"SREG", "OP"}, "be32") \cup TakeAbi({"DATA"}, "data")

connlimit_set == Held({"COUNT", "FLAGS"}, "u32")
connlimit_cb == Check({"COUNT", "FLAGS"}, "U32")
connlimit_build == Put({"COUNT", "FLAGS"}, "be32")
connlimit_parse == Take({"COUNT", "FLAGS"}, "be32")

counter_set == Held({"BYTES", "PACKETS"}, "u64")
counter_cb == Check({"BYTES", "PACKETS"}, "U64")
counter_build == Put({"BYTES", "PACKETS"}, "be64")
counter_parse == Take({"BYTES", "PACKETS"}, "be64")

ct_set == Held({"KEY", "DREG", "SREG"}, "u32") ++ Held({"DIR"}, "u8")
ct_cb == Check({"KEY", "DREG", "SREG"}, "U32") ++ Check({"DIRECTION"}, "U8")
ct_build == Put({"KEY", "DREG", "SREG"}, "be32")
  \cup PutAs("DIR", "DIRECTION", "u8")
ct_parse == Take({"KEY", "DREG", "SREG"}, "be32")
  \cup TakeAs("DIRECTION", "DIR", "u8")

dup_set == Held({"SREG_ADDR", "SREG_DEV"}, "u32")
dup_cb == Check({"SREG_ADDR", "SREG_DEV"}, "U32")
dup_build == Put({"SREG_ADDR", "SREG_DEV"}, "be32")
dup_parse == Take({"SREG_ADDR", "SREG_DEV"}, "be32")

dynset_set == Held({"SREG_KEY", "SREG_DATA", "OP", "SET_ID", "FLAGS"}, "u32")
  ++ Held({"TIMEOUT"}, "u64") ++ Held({"SET_NAME"}, "name")
dynset_cb == Check({"SREG_KEY", "SREG_DATA", "SET_ID", "OP", "FLAGS"}, "U32")
  ++ Check({"TIMEOUT"}, "U64") ++ Check({"SET_NAME"}, "STRING")
  ++ Check({"EXPR"}, "NESTED")
dynset_build == Put({"SREG_KEY", "SREG_DATA", "OP", "SET_ID", "FLAGS"}, "be32")
  \cup Put({"TIMEOUT"}, "be64") \cup Put({"SET_NAME"}, "strz")
dynset_parse ==
  Take({"SREG_KEY", "SREG_DATA", "OP", "SET_ID", "FLAGS"}, "be32")
  \cup Take({"TIMEOUT"}, "be64") \cup Take({"SET_NAME"}, "name")

exthdr_set == Held({"DREG", "OFFSET", "LEN", "OP", "FLAGS", "SREG"}, "u32")
  ++ Held({"TYPE"}, "u8")
exthdr_cb == Check({"TYPE"}, "U8")
  ++ Check({"DREG", "SREG", "OFFSET", "LEN", "OP", "FLAGS"}, "U32")
exthdr_build == Put({"DREG", "SREG", "OFFSET", "LEN", "OP", "FLAGS"}, "be32")
  \cup Put({"TYPE"}, "u8")
exthdr_parse == Take({"DREG", "SREG", "OFFSET", "LEN", "OP", "FLAGS"}, "be32")
  \cup Take({"TYPE"}, "u8")

fib_set == Held({"RESULT", "DREG", "FLAGS"}, "u32")
fib_cb == Check({"RESULT", "DREG", "FLAGS"}, "U32")
fib_build == Put({"FLAGS", "RESULT", "DREG"}, "be32")
fib_parse == Take({"RESULT", "DREG", "FLAGS"}, "be32")

flow_set == Held({"TABLE_NAME"}, "name")
flow_cb == Check({"TABLE_NAME"}, "STRING")
flow_build == Put({"TABLE_NAME"}, "strz")
flow_parse == Take({"TABLE_NAME"}, "name")

fullcone_set == Held({"FLAGS", "REG_PROTO_MIN", "REG_PROTO_MAX"}, "u32")
fullcone_cb == Check({"REG_PROTO_MIN", "REG_PROTO_MAX", "FLAGS"}, "U32")
fullcone_build == Put({"FLAGS", "REG_PROTO_MIN", "REG_PROTO_MAX"}, "be32")
fullcone_parse == Take({"FLAGS", "REG_PROTO_MIN", "REG_PROTO_MAX"}, "be32")

fwd_set == Held({"SREG_DEV", "SREG_ADDR", "NFPROTO"}, "u32")
fwd_cb == Check({"SREG_DEV", "SREG_ADDR", "NFPROTO"}, "U32")
fwd_build == Put({"SREG_DEV", "SREG_ADDR", "NFPROTO"}, "be32")
fwd_parse == Take({"SREG_DEV", "SREG_ADDR", "NFPROTO"}, "be32")

hash_set ==
  Held({"SREG", "DREG", "LEN", "MODULUS", "SEED", "OFFSET", "TYPE"}, "u32")
hash_cb ==
  Check({"SREG", "DREG", "LEN", "MODULUS", "SEED", "OFFSET", "TYPE"}, "U32")
hash_build ==
  Put({"SREG", "DREG", "LEN", "MODULUS", "SEED", "OFFSET", "TYPE"}, "be32")
hash_parse ==
  Take({"SREG", "DREG", "LEN", "MODULUS", "SEED", "OFFSET", "TYPE"}, "be32")

immediate_set == Held({"DREG", "VERDICT", "CHAIN_ID"}, "u32")
  ++ Held({"DATA"}, "data") ++ Held({"CHAIN"}, "name")
immediate_cb == Check({"DREG"}, "U32") ++ Check({"DATA"}, "BINARY")
immediate_build == Put({"DREG"}, "be32")
immediate_parse == Take({"DREG"}, "be32")

last_set == Held({"MSECS"}, "u64") ++ Held({"SET"}, "u32")
last_cb == Check({"MSECS"}, "U64") ++ Check({"SET"}, "U32")
last_build == Put({"MSECS"}, "be64") \cup Put({"SET"}, "be32")
last_parse == Take({"MSECS"}, "be64") \cup Take({"SET"}, "be32")

limit_set == Held({"RATE", "UNIT"}, "u64")
  ++ Held({"BURST", "TYPE", "FLAGS"}, "u32")
limit_cb == Check({"RATE", "UNIT"}, "U64")
  ++ Check({"BURST", "TYPE", "FLAGS"}, "U32")
limit_build == Put({"RATE", "UNIT"}, "be64")
  \cup Put({"BURST", "TYPE", "FLAGS"}, "be32")
limit_parse == Take({"RATE", "UNIT"}, "be64")
  \cup Take({"BURST", "TYPE", "FLAGS"}, "be32")

log_set == Held({"PREFIX"}, "name") ++ Held({"GROUP", "QTHRESHOLD"}, "u16")
  ++ Held({"SNAPLEN", "LEVEL", "FLAGS"}, "u32")
log_cb == Check({"PREFIX"}, "STRING") ++ Check({"GROUP", "QTHRESHOLD"}, "U16")
  ++ Check({"SNAPLEN", "LEVEL", "FLAGS"}, "U32")
log_build == Put({"PREFIX"}, "strz") \cup Put({"GROUP", "QTHRESHOLD"}, "be16")
  \cup Put({"SNAPLEN", "LEVEL", "FLAGS"}, "be32")
log_parse == Take({"PREFIX"}, "name")
  \cup Take({"GROUP", "QTHRESHOLD"}, "be16")
  \cup Take({"SNAPLEN", "LEVEL", "FLAGS"}, "be32")

lookup_set == Held({"SREG", "DREG", "SET_ID", "FLAGS"}, "u32")
  ++ Held({"SET"}, "name")
lookup_cb == Check({"SREG", "DREG", "SET_ID", "FLAGS"}, "U32")
  ++ Check({"SET"}, "STRING")
lookup_build == Put({"SREG", "DREG", "SET_ID", "FLAGS"}, "be32")
  \cup Put({"SET"}, "strz")
lookup_parse == Take({"SREG", "DREG", "SET_ID", "FLAGS"}, "be32")
  \cup Take({"SET"}, "name")

masq_set == Held({"FLAGS", "REG_PROTO_MIN", "REG_PROTO_MAX"}, "u32")
masq_cb == Check({"REG_PROTO_MIN", "REG_PROTO_MAX", "FLAGS"}, "U32")
masq_build == Put({"FLAGS", "REG_PROTO_MIN", "REG_PROTO_MAX"}, "be32")
masq_parse == Take({"FLAGS", "REG_PROTO_MIN", "REG_PROTO_MAX"}, "be32")

match_set == Held({"NAME"}, "name") ++ Held({"REV"}, "u32")
  ++ Held({"INFO"}, "info")
match_cb == Check({"NAME"}, "NUL_STRING") ++ Check({"REV"}, "U32")
  ++ Check({"INFO"}, "BINARY")
match_build == Put({"NAME"}, "strz") \cup Put({"REV"}, "be32")
  \cup Put({"INFO"}, "info")
match_parse == Take({"NAME"}, "name") \cup Take({"REV"}, "be32")
  \cup Take({"INFO"}, "info")

meta_set == Held({"KEY", "DREG", "SREG"}, "u32")
meta_cb == Check({"KEY", "DREG", "SREG"}, "U32")
meta_build == Put({"KEY", "DREG", "SREG"}, "be32")
\* Mutant: the bits are numbered as the attributes of the message are.
meta_parse_abi == TakeAbi({"KEY", "DREG", "SREG"}, "be32")
meta_parse == Take({"KEY", "DREG", "SREG"}, "be32")

nat_set ==
  Held({"TYPE", "FAMILY", "REG_ADDR_MIN", "REG_ADDR_MAX", "REG_PROTO_MIN",
      "REG_PROTO_MAX", "FLAGS"}, "u32")
nat_cb ==
  Check({"TYPE", "FAMILY", "REG_ADDR_MIN", "REG_ADDR_MAX", "REG_PROTO_MIN",
      "REG_PROTO_MAX", "FLAGS"}, "U32")
nat_build ==
  Put({"TYPE", "FAMILY", "REG_ADDR_MIN", "REG_ADDR_MAX", "REG_PROTO_MIN",
      "REG_PROTO_MAX", "FLAGS"}, "be32")
nat_parse ==
  Take({"TYPE", "FAMILY", "REG_ADDR_MIN", "REG_ADDR_MAX", "REG_PROTO_MIN",
      "REG_PROTO_MAX", "FLAGS"}, "be32")

numgen_set == Held({"DREG", "MODULUS", "TYPE", "OFFSET"}, "u32")
numgen_cb == Check({"DREG", "MODULUS", "TYPE", "OFFSET"}, "U32")
numgen_build == Put({"DREG", "MODULUS", "TYPE", "OFFSET"}, "be32")
numgen_parse == Take({"DREG", "MODULUS", "TYPE", "OFFSET"}, "be32")

objref_set == Held({"IMM_TYPE", "SET_SREG", "SET_ID"}, "u32")
  ++ Held({"IMM_NAME", "SET_NAME"}, "name")
objref_cb == Check({"IMM_TYPE", "SET_SREG", "SET_ID"}, "U32")
  ++ Check({"IMM_NAME", "SET_NAME"}, "STRING")
objref_build == Put({"IMM_TYPE", "SET_SREG", "SET_ID"}, "be32")
  \cup Put({"IMM_NAME", "SET_NAME"}, "str")
objref_parse == Take({"IMM_TYPE", "SET_SREG", "SET_ID"}, "be32")
  \cup Take({"IMM_NAME", "SET_NAME"}, "name")

osf_set == Held({"DREG", "FLAGS"}, "u32") ++ Held({"TTL"}, "u8")
osf_cb == CheckApi({"DREG", "FLAGS"}, "U32") ++ CheckApi({"TTL"}, "U8")
osf_build == PutApi({"FLAGS"}, "nonzero") \cup PutApi({"DREG"}, "be32")
  \cup PutApi({"TTL"}, "u8")
osf_parse == Take({"DREG", "FLAGS"}, "be32") \cup Take({"TTL"}, "u8")

payload_set ==
  Held({"SREG", "DREG", "BASE", "OFFSET", "LEN", "CSUM_TYPE", "CSUM_OFFSET",
      "FLAGS"}, "u32")
payload_cb ==
  Check({"SREG", "DREG", "BASE", "OFFSET", "LEN", "CSUM_TYPE", "CSUM_OFFSET",
      "CSUM_FLAGS"}, "U32")
payload_build ==
  Put({"SREG", "DREG", "BASE", "OFFSET", "LEN", "CSUM_TYPE", "CSUM_OFFSET"},
      "be32")
  \cup PutAs("FLAGS", "CSUM_FLAGS", "be32")
payload_parse ==
  Take({"SREG", "DREG", "BASE", "OFFSET", "LEN", "CSUM_TYPE", "CSUM_OFFSET"},
      "be32")
  \cup TakeAs("CSUM_FLAGS", "FLAGS", "be32")

queue_set == Held({"NUM", "TOTAL", "FLAGS"}, "u16")
  ++ Held({"SREG_QNUM"}, "u32")
queue_cb == Check({"NUM", "TOTAL", "FLAGS"}, "U16")
  ++ Check({"SREG_QNUM"}, "U32")
\* Mutant: a queue number is sent as wide as a register.
queue_build_u32 == Put({"NUM", "TOTAL", "FLAGS"}, "be32")
  \cup Put({"SREG_QNUM"}, "be32")
queue_build == Put({"NUM", "TOTAL", "FLAGS"}, "be16")
  \cup Put({"SREG_QNUM"}, "be32")
queue_parse == Take({"NUM", "TOTAL", "FLAGS"}, "be16")
  \cup Take({"SREG_QNUM"}, "be32")

quota_set == Held({"BYTES", "CONSUMED"}, "u64") ++ Held({"FLAGS"}, "u32")
quota_cb == Check({"BYTES", "CONSUMED"}, "U64") ++ Check({"FLAGS"}, "U32")
quota_build == Put({"BYTES", "CONSUMED"}, "be64") \cup Put({"FLAGS"}, "be32")
quota_parse == Take({"BYTES", "CONSUMED"}, "be64") \cup Take({"FLAGS"}, "be32")

range_set == Held({"SREG", "OP"}, "u32")
  ++ Held({"FROM_DATA", "TO_DATA"}, "data")
range_cb == Check({"SREG", "OP"}, "U32")
  ++ Check({"FROM_DATA", "TO_DATA"}, "BINARY")
range_build == Put({"SREG", "OP"}, "be32")
  \cup Put({"FROM_DATA", "TO_DATA"}, "data")
range_parse == TakeAbi({"SREG", "OP"}, "be32")
  \cup TakeAbi({"FROM_DATA", "TO_DATA"}, "data")

redir_set == Held({"REG_PROTO_MIN", "REG_PROTO_MAX", "FLAGS"}, "u32")
redir_cb == Check({"REG_PROTO_MIN", "REG_PROTO_MAX", "FLAGS"}, "U32")
redir_build == Put({"REG_PROTO_MIN", "REG_PROTO_MAX", "FLAGS"}, "be32")
redir_parse == Take({"REG_PROTO_MIN", "REG_PROTO_MAX", "FLAGS"}, "be32")

reject_set == Held({"TYPE"}, "u32") ++ Held({"CODE"}, "u8")
reject_cb == Check({"TYPE"}, "U32") ++ Check({"ICMP_CODE"}, "U8")
reject_build == Put({"TYPE"}, "be32") \cup PutAs("CODE", "ICMP_CODE", "u8")
reject_parse == Take({"TYPE"}, "be32") \cup TakeAs("ICMP_CODE", "CODE", "u8")

rt_set == Held({"KEY", "DREG"}, "u32")
rt_cb == Check({"KEY", "DREG"}, "U32")
rt_build == Put({"KEY", "DREG"}, "be32")
rt_parse == Take({"KEY", "DREG"}, "be32")

socket_set == Held({"KEY", "DREG", "LEVEL"}, "u32")
socket_cb == Check({"KEY", "DREG", "LEVEL"}, "U32")
socket_build == Put({"KEY", "DREG", "LEVEL"}, "be32")
socket_parse == Take({"KEY", "DREG", "LEVEL"}, "be32")

synproxy_set == Held({"MSS"}, "u16") ++ Held({"WSCALE"}, "u8")
  ++ Held({"FLAGS"}, "u32")
synproxy_cb == CheckApi({"MSS"}, "U16") ++ CheckApi({"WSCALE"}, "U8")
  ++ CheckApi({"FLAGS"}, "U32")
synproxy_build == PutApi({"MSS"}, "be16") \cup PutApi({"WSCALE"}, "u8")
  \cup PutApi({"FLAGS"}, "be32")
synproxy_parse == Take({"MSS"}, "be16") \cup Take({"WSCALE"}, "u8")
  \cup Take({"FLAGS"}, "be32")

target_set == Held({"NAME"}, "name") ++ Held({"REV"}, "u32")
  ++ Held({"INFO"}, "info")
target_cb == Check({"NAME"}, "NUL_STRING") ++ Check({"REV"}, "U32")
  ++ Check({"INFO"}, "BINARY")
target_build == Put({"NAME"}, "strz") \cup Put({"REV"}, "be32")
  \cup Put({"INFO"}, "info")
target_parse == Take({"NAME"}, "name") \cup Take({"REV"}, "be32")
  \cup Take({"INFO"}, "info")

tproxy_set == Held({"FAMILY", "REG_ADDR", "REG_PORT"}, "u32")
tproxy_cb == Check({"FAMILY", "REG_ADDR", "REG_PORT"}, "U32")
tproxy_build == Put({"FAMILY", "REG_ADDR", "REG_PORT"}, "be32")
tproxy_parse == Take({"FAMILY", "REG_ADDR", "REG_PORT"}, "be32")

tunnel_set == Held({"KEY", "DREG"}, "u32")
tunnel_cb == Check({"KEY", "DREG"}, "U32")
tunnel_build == Put({"KEY", "DREG"}, "be32")
tunnel_parse == Take({"KEY", "DREG"}, "be32")

xfrm_set == Held({"KEY", "SPNUM", "DREG"}, "u32") ++ Held({"DIR"}, "u8")
xfrm_cb == Check({"DREG", "KEY", "SPNUM"}, "U32") ++ Check({"DIR"}, "U8")
xfrm_build == Put({"KEY", "SPNUM", "DREG"}, "be32") \cup Put({"DIR"}, "u8")
xfrm_parse == Take({"KEY", "SPNUM", "DREG"}, "be32") \cup Take({"DIR"}, "u8")

-----------------------------------------------------------------------------
Ops(set, cb, build, parse) ==
  [set |-> set, cb |-> cb, build |-> build, parse |-> parse]

ops ==
  [bitwise |-> Ops(bitwise_set, bitwise_cb, bitwise_build, bitwise_parse),
   byteorder |-> Ops(byteorder_set, byteorder_cb,
                     byteorder_build, byteorder_parse),
   cmp |-> Ops(cmp_set, cmp_cb, cmp_build, cmp_parse),
   connlimit |-> Ops(connlimit_set, connlimit_cb,
                     connlimit_build, connlimit_parse),
   counter |-> Ops(counter_set, counter_cb, counter_build, counter_parse),
   ct |-> Ops(ct_set, ct_cb, ct_build, ct_parse),
   dup |-> Ops(dup_set, dup_cb, dup_build, dup_parse),
   dynset |-> Ops(dynset_set, dynset_cb, dynset_build, dynset_parse),
   exthdr |-> Ops(exthdr_set, exthdr_cb, exthdr_build, exthdr_parse),
   fib |-> Ops(fib_set, fib_cb, fib_build, fib_parse),
   flow |-> Ops(flow_set, flow_cb, flow_build, flow_parse),
   fullcone |-> Ops(fullcone_set, fullcone_cb, fullcone_build, fullcone_parse),
   fwd |-> Ops(fwd_set, fwd_cb, fwd_build, fwd_parse),
   hash |-> Ops(hash_set, hash_cb, hash_build, hash_parse),
   immediate |-> Ops(immediate_set, immediate_cb,
                     immediate_build, immediate_parse),
   last |-> Ops(last_set, last_cb, last_build, last_parse),
   limit |-> Ops(limit_set, limit_cb, limit_build, limit_parse),
   log |-> Ops(log_set, log_cb, log_build, log_parse),
   lookup |-> Ops(lookup_set, lookup_cb, lookup_build, lookup_parse),
   masq |-> Ops(masq_set, masq_cb, masq_build, masq_parse),
   match |-> Ops(match_set, match_cb, match_build, match_parse),
   meta |-> Ops(meta_set, meta_cb, meta_build, meta_parse),
   nat |-> Ops(nat_set, nat_cb, nat_build, nat_parse),
   numgen |-> Ops(numgen_set, numgen_cb, numgen_build, numgen_parse),
   objref |-> Ops(objref_set, objref_cb, objref_build, objref_parse),
   osf |-> Ops(osf_set, osf_cb, osf_build, osf_parse),
   payload |-> Ops(payload_set, payload_cb, payload_build, payload_parse),
   queue |-> Ops(queue_set, queue_cb, queue_build, queue_parse),
   quota |-> Ops(quota_set, quota_cb, quota_build, quota_parse),
   range |-> Ops(range_set, range_cb, range_build, range_parse),
   redir |-> Ops(redir_set, redir_cb, redir_build, redir_parse),
   reject |-> Ops(reject_set, reject_cb, reject_build, reject_parse),
   rt |-> Ops(rt_set, rt_cb, rt_build, rt_parse),
   socket |-> Ops(socket_set, socket_cb, socket_build, socket_parse),
   synproxy |-> Ops(synproxy_set, synproxy_cb, synproxy_build, synproxy_parse),
   target |-> Ops(target_set, target_cb, target_build, target_parse),
   tproxy |-> Ops(tproxy_set, tproxy_cb, tproxy_build, tproxy_parse),
   tunnel |-> Ops(tunnel_set, tunnel_cb, tunnel_build, tunnel_parse),
   xfrm |-> Ops(xfrm_set, xfrm_cb, xfrm_build, xfrm_parse)]
=============================================================================

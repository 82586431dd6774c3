------------------------------ MODULE MCObjects ------------------------------
(* Two attributes of every stateful type, set before or after the type, and  *)
(* every change of the type, in two groups that share two types; three of the*)
(* type with nests and exclusive options; three of those of all types.  Of   *)
(* the others, five attributes and two expressions are enough for every      *)
(* condition of a builder (a hook with devices has four, and one more that   *)
(* has nothing to do with them); two messages, for every pair of what a      *)
(* field held before and what it is given (of sets, which have the most      *)
(* attributes and none that depends on another, one for each message).       *)
EXTENDS Objects

Program(kinds, heads, bits) == [kinds |-> kinds, heads |-> heads, bits |-> bits]
MCPrograms ==
  {Program({"ct_helper", "secmark", "ct_timeout", "ct_expect", "counter"}, {}, 3),
   Program({"counter", "quota", "limit", "ct_expect", "synproxy"}, {}, 3),
   Program({"tunnel"}, {}, 4),
   Program({"counter"}, {"TABLE", "NAME", "USE", "FAMILY", "HANDLE", "USERDATA"}, 3)}

Bound(kinds, bits, exprs, reads) ==
  [kinds |-> kinds, bits |-> bits, exprs |-> exprs, reads |-> reads]
NotSets  == {"table", "chain", "rule", "set_elem", "flowtable"}
AllKinds == NotSets \cup {"set", "elem_list"}
MCBounds == {Bound(AllKinds, 5, 2, 1), Bound(AllKinds, 1, 2, 2), Bound(NotSets, 2, 1, 2)}
=============================================================================

------------------------------- MODULE MCParts -------------------------------
(* SetDesc: two fields at most, of lengths below the number of fields and as *)
(* large as it (4 and 16 bytes, with 16 fields), set up to four times, once  *)
(* more than there are bytes of padding.  ElemData: values of none, two words*)
(* and three (three reach the address), with a first word that is a verdict  *)
(* or not.  Trace: two names before the verdict and a header behind it, three*)
(* messages.  Ruleset: two lists of chains, so that one can take the place of*)
(* the other, and one each of tables and rules; texts shorter than, as long  *)
(* as and longer than the buffer that objects are printed through.           *)
(* Udata: bytes of three bits, so that a length byte says up to seven.       *)
EXTENDS Parts

MCListKind == [l \in Lists |-> CASE l = "tables" -> "TABLELIST"
                                 [] l = "rules"  -> "RULELIST"
                                 [] OTHER        -> "CHAINLIST"]
MCTextLength == [a |-> 1, b |-> 2, c |-> 3]

\* Raw contents: a single value; a nest with a value in it; an attribute too
\* long for the smaller buffer.
MCValues == {<<>>, <<5>>, <<1, 0>>, <<2, 1, 7>>}
MCRaw    == {<<1, 2, 3, 4>>, <<2, 3, 1, 1, 6>>, <<1, 5, 4, 3, 2, 1, 0>>}
=============================================================================

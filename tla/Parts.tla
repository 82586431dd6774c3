-------------------------------- MODULE Parts --------------------------------
(***************************************************************************)
(* Five parts of the library that share nothing, side by side: a behaviour *)
(* is one of SetDesc, ElemData, Trace, Ruleset or Udata, and the variables *)
(* of the others are Idle.  Where two parts have a variable of one name it *)
(* is here one variable, used by the part that runs.  A constant that two  *)
(* parts have for different things has two names here.                     *)
(***************************************************************************)
EXTENDS Integers

CONSTANTS
  N, FieldLengths, MaxTimes, MaxParses,                    \* of SetDesc
  Chains, Codes, Stored, Lengths, Addresses, MaxElems,     \* of ElemData
  Given, MaxReads,                                         \* of Trace
  Lists, ListKind, Objects, TextLength, BUFSIZ, MaxSize, MaxObjects,  \* of Ruleset
  Byte, Sizes, Values, Raw, LeafType, NestType, MaxEnd, Careful       \* of Udata

VARIABLES
  part,                    \* the module that runs
  mine, theirs,            \* of SetDesc and ElemData
  told, times,             \* of SetDesc
  msg, torn, fields, lost, sent,  \* of ElemData
  heap, result, fault,     \* of ElemData and Trace
  t, reads, said,          \* of Trace
  rs, list, again, out,    \* of Ruleset
  size, bytes, nests, items  \* of Udata

Desc  == INSTANCE SetDesc WITH Lengths <- FieldLengths, MaxReads <- MaxParses
Elem  == INSTANCE ElemData WITH Values <- Stored
Event == INSTANCE Trace WITH Attrs <- Given
Rules == INSTANCE Ruleset
Data  == INSTANCE Udata

ASSUME PartsAssumption ==
  /\ Desc!DescAssumption /\ Elem!BoundAssumption /\ Event!TraceAssumption
  /\ Rules!RulesetAssumption /\ Data!UdataAssumption

Idle == "idle"

pair   == <<mine, theirs>>
desc   == <<told, times>>
elem   == <<msg, torn, fields, lost, sent>>
blocks == <<heap, result, fault>>
event  == <<t, reads, said>>
rules  == <<rs, list, again, out>>
data   == <<size, bytes, nests, items>>

NoPair   == mine = Idle /\ theirs = Idle
NoDesc   == told = Idle /\ times = Idle
NoElem   == msg = Idle /\ torn = Idle /\ fields = Idle /\ lost = Idle /\ sent = Idle
NoBlocks == heap = Idle /\ result = Idle /\ fault = Idle
NoEvent  == t = Idle /\ reads = Idle /\ said = Idle
NoRules  == rs = Idle /\ list = Idle /\ again = Idle /\ out = Idle
NoData   == size = Idle /\ bytes = Idle /\ nests = Idle /\ items = Idle

Init ==
  \/ /\ part = "set_desc" /\ Desc!Init
     /\ NoElem /\ NoBlocks /\ NoEvent /\ NoRules /\ NoData
  \/ /\ part = "elem_data" /\ Elem!Init
     /\ NoDesc /\ NoEvent /\ NoRules /\ NoData
  \/ /\ part = "trace" /\ Event!Init
     /\ NoPair /\ NoDesc /\ NoElem /\ NoRules /\ NoData
  \/ /\ part = "ruleset" /\ Rules!Init
     /\ NoPair /\ NoDesc /\ NoElem /\ NoBlocks /\ NoEvent /\ NoData
  \/ /\ part = "udata" /\ Data!Init
     /\ NoPair /\ NoDesc /\ NoElem /\ NoBlocks /\ NoEvent /\ NoRules

Next ==
  \/ /\ part = "set_desc" /\ Desc!Next
     /\ UNCHANGED <<part, elem, blocks, event, rules, data>>
  \/ /\ part = "elem_data" /\ Elem!Next
     /\ UNCHANGED <<part, desc, event, rules, data>>
  \/ /\ part = "trace" /\ Event!Next
     /\ UNCHANGED <<part, pair, desc, elem, rules, data>>
  \/ /\ part = "ruleset" /\ Rules!Next
     /\ UNCHANGED <<part, pair, desc, elem, blocks, event, data>>
  \/ /\ part = "udata" /\ Data!Next
     /\ UNCHANGED <<part, pair, desc, elem, blocks, event, rules>>

Spec == Init /\ [][Next]_<<part, pair, desc, elem, blocks, event, rules, data>>

-----------------------------------------------------------------------------
\* The fields of a concatenation that are set once arrive, all of them and no
\* others; set again they come first, with others behind (set.c:192-195,
\* 382-447, 555-640).
DescExact ==
  part = "set_desc" => Desc!TypeOK /\ Desc!OnceExact /\ Desc!AgainStarts

\* The union of value, verdict and chain of an element is as good as a field
\* for each until one is stored over another; what is sent arrives by the rules
\* of the builder, and is refused only where one of these is broken
\* (set_elem.c:113-182, 330-348, 523-541, expr/data_reg.c:100-228).
UnionExact ==
  part = "elem_data" =>
    Elem!TypeOK /\ Elem!LikeFields /\ Elem!Arrives /\ Elem!Refused

\* A trace has what the last message has, or what comes before the name there
\* was no memory for, and the target of a jump with the verdict it belongs to
\* (trace.c:282-420).
TraceExact ==
  part = "trace" => Event!TypeOK /\ Event!Exact /\ Event!TargetIsOfVerdict

\* The text of a ruleset is the same in a file and in a buffer, cut where the
\* buffer ends, and its length is returned, but for the newlines between lists
\* when there is no buffer at all (ruleset.c:427-487, 659-707, utils.h:54-60).
TextExact ==
  part = "ruleset" => Rules!TypeOK /\ Rules!SnprintfExact /\ Rules!FprintfExact

\* A reader of user data finds the tree of attributes that was put
\* (udata.c:71-169).
RoundTrip == part = "udata" => Data!TypeOK /\ Data!RoundTrip

\* Memory: nothing that was freed, was never allocated or lies behind its array
\* is used, nothing is marked that is not there, and nothing is lost, but on the
\* ways that are named: a list handed over twice, a value stored over an
\* address, a description set again for each byte of padding, a trace read into
\* again (ruleset.c:104-153, set_elem.c:83-182, set.c:194, trace.c:57-82, 305).
Owned ==
  CASE part = "ruleset"   -> Rules!Owned
    [] part = "elem_data" -> Elem!NoFault /\ Elem!NoLeak
    [] part = "set_desc"  -> Desc!NoFault
    [] part = "trace"     -> Event!NoFault /\ Event!MarkedIsThere /\ Event!LeaksOnly
    [] part = "udata"     -> TRUE
=============================================================================

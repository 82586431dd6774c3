----------------------------- MODULE PartsProofs -----------------------------
(***************************************************************************)
(* Theorems about the four parts that keep memory or counts: rulesets, the *)
(* data of set elements, descriptions of concatenations, and traces.  For  *)
(* each part: an invariant, a lemma that the part begins with it, one for  *)
(* each kind of step, and one that says which properties follow from it.   *)
(* At the end the parts are put together as Parts does.  Nothing is assumed*)
(* but PartsAssumption, which is what the parts assume of their constants. *)
(***************************************************************************)
EXTENDS Parts, ListLemmas

-----------------------------------------------------------------------------
(* Rulesets *)

Bits       == Rules!Range(Rules!Kinds)
ListStates == [by : {"nobody", "program", "ruleset", "freed"}, objs : Seq(Objects)]

\* Exactly the lists that the bits claim are the ruleset's.
Claims ==
  /\ \A a \in rs.flags : list[rs.ptr[a]].by = "ruleset"
  /\ \A l \in Lists : list[l].by = "ruleset" => \E a \in rs.flags : l = rs.ptr[a]
  /\ out # Rules!Fault

\* The list of a bit is of the kind of the bit: so no two bits claim one list.
RulesInv ==
  /\ rs \in [flags : SUBSET Bits, ptr : [Bits -> {Rules!Null} \cup Lists]]
  /\ \A a \in rs.flags : rs.ptr[a] \in Lists /\ ListKind[rs.ptr[a]] = a
  /\ list \in [Lists -> ListStates]
  /\ again \in BOOLEAN
  /\ ~again => Claims

\* What is printed is no fault.
LEMMA PrintsAreNoFault ==
  /\ \A sz, fails : Rules!RulesetSnprintf(sz, fails) # Rules!Fault
  /\ \A bad : Rules!RulesetFprintf(bad) # Rules!Fault
  /\ Rules!NoText # Rules!Fault
<1>1. /\ \A sz, fails : Rules!RulesetSnprintf(sz, fails).by = "snprintf"
      /\ \A bad : Rules!RulesetFprintf(bad).by = "fprintf"
  BY DEF Rules!RulesetSnprintf, Rules!RulesetFprintf
<1>2. Rules!NoText.by = "none" /\ Rules!Fault.by = "fault"
  BY DEF Rules!NoText, Rules!Fault
<1> QED BY <1>1, <1>2

\* A ruleset that was just allocated.
LEMMA RulesBegin ==
  ASSUME rs = [flags |-> {}, ptr |-> [a \in Bits |-> Rules!Null]],
         list = [l \in Lists |-> [by |-> "nobody", objs |-> <<>>]],
         again = FALSE, out = Rules!NoText
  PROVE  RulesInv
<1>1. <<>> \in Seq(Objects)
  BY EmptySeq
<1>2. [by |-> "nobody", objs |-> <<>>] \in ListStates
  BY <1>1 DEF ListStates
<1>3. rs \in [flags : SUBSET Bits, ptr : [Bits -> {Rules!Null} \cup Lists]] /\ rs.flags = {}
  OBVIOUS
<1>4. list \in [Lists -> ListStates] /\ \A l \in Lists : list[l].by = "nobody"
  BY <1>2
<1>5. out # Rules!Fault
  BY PrintsAreNoFault
<1> QED BY <1>3, <1>4, <1>5 DEF RulesInv, Claims

\* Releasing the lists of some bits: only these lists change hands.
LEMMA Release ==
  ASSUME RulesInv, NEW F \in SUBSET rs.flags,
         list' = Rules!Free({rs.ptr[a] : a \in F}),
         rs' \in [flags : SUBSET Bits, ptr : [Bits -> {Rules!Null} \cup Lists]],
         rs'.flags = rs.flags \ F,
         \A a \in rs.flags \ F : rs'.ptr[a] = rs.ptr[a],
         out' # Rules!Fault \/ \E a \in F : Rules!Twice(a),
         again' = again
  PROVE  RulesInv'
<1>1. <<>> \in Seq(Objects)
  BY EmptySeq
<1>2. /\ list' \in [Lists -> ListStates]
      /\ \A l \in Lists : list'[l].by = IF \E a \in F : l = rs.ptr[a] THEN "freed" ELSE list[l].by
  BY <1>1 DEF Rules!Free, RulesInv, ListStates
<1>3. ASSUME ~again PROVE Claims'
  <2>1. Claims
    BY <1>3 DEF RulesInv
  <2>2. ASSUME NEW a \in rs'.flags PROVE list'[rs'.ptr[a]].by = "ruleset"
    <3>1. a \in rs.flags /\ a \notin F /\ rs'.ptr[a] = rs.ptr[a]
      OBVIOUS
    <3>2. ~ \E b \in F : rs.ptr[a] = rs.ptr[b]
      BY <3>1 DEF RulesInv
    <3> QED BY <3>1, <3>2, <2>1, <1>2 DEF Claims, RulesInv
  <2>3. ASSUME NEW l \in Lists, list'[l].by = "ruleset" PROVE \E a \in rs'.flags : l = rs'.ptr[a]
    <3>1. list[l].by = "ruleset" /\ ~ \E a \in F : l = rs.ptr[a]
      BY <2>3, <1>2
    <3> QED BY <3>1, <2>1 DEF Claims
  <2>4. out' # Rules!Fault
    BY <2>1 DEF Claims, Rules!Twice, RulesInv
  <2> QED BY <2>2, <2>3, <2>4 DEF Claims
<1>4. \A a \in rs'.flags : rs'.ptr[a] \in Lists /\ ListKind[rs'.ptr[a]] = a
  BY DEF RulesInv
<1>5. again' \in BOOLEAN /\ (~again' => Claims')
  BY <1>3 DEF RulesInv
<1> QED BY <1>2, <1>4, <1>5 DEF RulesInv

LEMMA UnsetReleases ==
  ASSUME RulesInv, NEW a \in Bits, Rules!ruleset_unset(a)
  PROVE  RulesInv'
<1>1. /\ a \in rs.flags /\ list' = Rules!Free({rs.ptr[b] : b \in {a}})
      /\ rs' = [rs EXCEPT !.flags = @ \ {a}]
      /\ out' = IF Rules!Twice(a) THEN Rules!Fault ELSE Rules!NoText
      /\ again' = again
  <2>1. {rs.ptr[b] : b \in {a}} = {rs.ptr[a]}
    OBVIOUS
  <2> QED BY <2>1 DEF Rules!ruleset_unset, Rules!Unset
<1>2. /\ rs' \in [flags : SUBSET Bits, ptr : [Bits -> {Rules!Null} \cup Lists]]
      /\ rs'.flags = rs.flags \ {a} /\ rs'.ptr = rs.ptr
  BY <1>1 DEF RulesInv
<1>3. out' # Rules!Fault \/ \E b \in {a} : Rules!Twice(b)
  BY <1>1, PrintsAreNoFault
<1>4. {a} \in SUBSET rs.flags
  BY <1>1
<1> QED BY <1>1, <1>2, <1>3, <1>4, Release

LEMMA FreeReleases ==
  ASSUME RulesInv, Rules!ruleset_free
  PROVE  RulesInv'
<1>1. /\ list' = Rules!Free({rs.ptr[a] : a \in rs.flags})
      /\ rs' = [rs EXCEPT !.flags = {}, !.ptr = [a \in Bits |-> Rules!Null]]
      /\ out' = IF \E a \in rs.flags : Rules!Twice(a) THEN Rules!Fault ELSE Rules!NoText
      /\ again' = again
  BY DEF Rules!ruleset_free, Rules!Held, Bits
<1>2. /\ rs' \in [flags : SUBSET Bits, ptr : [Bits -> {Rules!Null} \cup Lists]]
      /\ rs'.flags = rs.flags \ rs.flags
  BY <1>1 DEF RulesInv
<1>3. out' # Rules!Fault \/ \E b \in rs.flags : Rules!Twice(b)
  BY <1>1, PrintsAreNoFault
<1> QED BY <1>1, <1>2, <1>3, Release

LEMMA SetReleases ==
  ASSUME RulesInv, NEW l \in Lists, Rules!ruleset_set(l)
  PROVE  RulesInv'
<1> DEFINE a == ListKind[l]
<1>1. /\ list' = IF l \in Rules!Held THEN Rules!Unset(a)
                 ELSE [Rules!Unset(a) EXCEPT ![l].by = "ruleset"]
      /\ rs' = [flags |-> rs.flags \cup {a}, ptr |-> [rs.ptr EXCEPT ![a] = l]]
      /\ again' = (again \/ l \in Rules!Held)
      /\ out' = IF Rules!Twice(a) THEN Rules!Fault ELSE Rules!NoText
  BY DEF Rules!ruleset_set
<1>2. a \in Bits
  BY PartsAssumption DEF Rules!RulesetAssumption, Bits
<1>3. <<>> \in Seq(Objects)
  BY EmptySeq
<1>4. /\ Rules!Unset(a) \in [Lists -> ListStates]
      /\ \A k \in Lists : Rules!Unset(a)[k].by = IF a \in rs.flags /\ k = rs.ptr[a] THEN "freed"
                                                 ELSE list[k].by
  BY <1>3 DEF Rules!Unset, Rules!Free, RulesInv, ListStates
<1>5. /\ list' \in [Lists -> ListStates]
      /\ l \notin Rules!Held =>
           \A k \in Lists : list'[k].by = IF k = l THEN "ruleset" ELSE Rules!Unset(a)[k].by
  <2> DEFINE U == Rules!Unset(a)
  <2>1. U \in [Lists -> ListStates]
    BY <1>4
  <2>2. list' = IF l \in Rules!Held THEN U ELSE [U EXCEPT ![l].by = "ruleset"]
    BY <1>1
  <2> HIDE DEF U
  <2>3. /\ list' \in [Lists -> ListStates]
        /\ l \notin Rules!Held => \A k \in Lists : list'[k].by = IF k = l THEN "ruleset" ELSE U[k].by
    BY <2>1, <2>2 DEF ListStates
  <2> QED BY <2>3 DEF U
<1>6. /\ rs' \in [flags : SUBSET Bits, ptr : [Bits -> {Rules!Null} \cup Lists]]
      /\ rs'.flags = rs.flags \cup {a} /\ rs'.ptr[a] = l
      /\ \A b \in rs.flags \ {a} : rs'.ptr[b] = rs.ptr[b]
  BY <1>1, <1>2 DEF RulesInv
<1>7. \A b \in rs'.flags : rs'.ptr[b] \in Lists /\ ListKind[rs'.ptr[b]] = b
  BY <1>6 DEF RulesInv
<1>8. ASSUME ~again' PROVE Claims'
  <2>1. ~again /\ l \notin Rules!Held
    BY <1>1, <1>8 DEF RulesInv
  <2>2. Claims
    BY <2>1 DEF RulesInv
  <2>3. ASSUME NEW b \in rs'.flags PROVE list'[rs'.ptr[b]].by = "ruleset"
    <3>1. CASE b = a
      BY <3>1, <1>5, <1>6, <2>1
    <3>2. CASE b # a
      <4>1. b \in rs.flags /\ rs'.ptr[b] = rs.ptr[b] /\ list[rs.ptr[b]].by = "ruleset"
        BY <3>2, <1>6, <2>2 DEF Claims
      <4>2. rs.ptr[b] \in Lists /\ ListKind[rs.ptr[b]] = b
        BY <4>1 DEF RulesInv
      <4>3. ~(a \in rs.flags /\ rs.ptr[b] = rs.ptr[a])
        BY <4>2, <3>2 DEF RulesInv
      <4> QED BY <4>1, <4>2, <4>3, <1>4, <1>5, <2>1
    <3> QED BY <3>1, <3>2
  <2>4. ASSUME NEW k \in Lists, list'[k].by = "ruleset" PROVE \E b \in rs'.flags : k = rs'.ptr[b]
    <3>1. CASE k = l
      BY <3>1, <1>6
    <3>2. CASE k # l
      <4>1. list[k].by = "ruleset" /\ ~(a \in rs.flags /\ k = rs.ptr[a])
        BY <3>2, <2>4, <1>4, <1>5, <2>1
      <4>2. PICK b \in rs.flags : k = rs.ptr[b]
        BY <4>1, <2>2 DEF Claims
      <4> QED BY <4>1, <4>2, <1>6
    <3> QED BY <3>1, <3>2
  <2>5. out' # Rules!Fault
    <3>1. a \in rs.flags => list[rs.ptr[a]].by = "ruleset"
      BY <2>2 DEF Claims
    <3> QED BY <3>1, <1>1, PrintsAreNoFault DEF Rules!Twice
  <2> QED BY <2>3, <2>4, <2>5 DEF Claims
<1>9. again' \in BOOLEAN
  BY <1>1 DEF RulesInv
<1> QED BY <1>5, <1>6, <1>7, <1>8, <1>9 DEF RulesInv

\* Every call on a ruleset.
LEMMA RulesStep ==
  ASSUME RulesInv, Rules!Next
  PROVE  RulesInv'
<1>1. ASSUME NEW l \in Lists, Rules!list_alloc(l) PROVE RulesInv'
  <2>1. /\ list' = [list EXCEPT ![l].by = "program"] /\ list[l].by = "nobody"
        /\ rs' = rs /\ again' = again /\ out' = out
    BY <1>1 DEF Rules!list_alloc
  <2>2. /\ list' \in [Lists -> ListStates]
        /\ \A k \in Lists : list'[k].by = IF k = l THEN "program" ELSE list[k].by
    BY <2>1 DEF RulesInv, ListStates
  <2> QED BY <2>1, <2>2 DEF RulesInv, Claims
<1>2. ASSUME NEW l \in Lists, NEW o \in Objects, Rules!list_add_tail(o, l) PROVE RulesInv'
  <2>1. /\ list' = [list EXCEPT ![l].objs = Append(@, o)]
        /\ rs' = rs /\ again' = again /\ out' = out
    BY <1>2 DEF Rules!list_add_tail
  <2>2. /\ list' \in [Lists -> ListStates]
        /\ \A k \in Lists : list'[k].by = list[k].by
    <3>1. list \in [Lists -> ListStates]
      BY DEF RulesInv
    <3>2. Append(list[l].objs, o) \in Seq(Objects)
      BY <3>1, AppendProperties DEF ListStates
    <3> QED BY <2>1, <3>1, <3>2 DEF ListStates
  <2> QED BY <2>1, <2>2 DEF RulesInv, Claims
<1>3. ASSUME UNCHANGED <<rs, list, again>>, out' # Rules!Fault \/ Rules!Dangling PROVE RulesInv'
  <2>1. ASSUME ~again PROVE ~Rules!Dangling
    BY <2>1 DEF RulesInv, Claims, Rules!Dangling, Rules!Held
  <2>2. (~again => Claims) => (~again' => Claims')
    BY <1>3, <2>1 DEF Claims
  <2> QED BY <1>3, <2>2 DEF RulesInv
<1>4. ASSUME Rules!resume PROVE RulesInv'
  <2>1. CASE out = Rules!Fault
    <3>1. /\ rs' = [flags |-> {}, ptr |-> [a \in Bits |-> Rules!Null]]
          /\ list' = [l \in Lists |-> [by |-> "nobody", objs |-> <<>>]]
          /\ again' = FALSE /\ out' = Rules!NoText
      BY <1>4, <2>1 DEF Rules!resume, Bits
    <3>2. (/\ rs = [flags |-> {}, ptr |-> [a \in Bits |-> Rules!Null]]
           /\ list = [l \in Lists |-> [by |-> "nobody", objs |-> <<>>]]
           /\ again = FALSE /\ out = Rules!NoText)' => RulesInv'
      BY RulesBegin, PTL
    <3> QED BY <3>1, <3>2
  <2>2. CASE out # Rules!Fault
    BY <1>3, <1>4, <2>2, PrintsAreNoFault DEF Rules!resume
  <2> QED BY <2>1, <2>2
<1>5. ASSUME NEW sz, NEW fails, Rules!snprintf(sz, fails) PROVE RulesInv'
  BY <1>3, <1>5, PrintsAreNoFault DEF Rules!snprintf
<1>6. ASSUME NEW bad, Rules!fprintf(bad) PROVE RulesInv'
  BY <1>3, <1>6, PrintsAreNoFault DEF Rules!fprintf
<1> QED BY <1>1, <1>2, <1>4, <1>5, <1>6, UnsetReleases, FreeReleases, SetReleases DEF Rules!Next, Bits

LEMMA RulesOwned == RulesInv => Rules!Owned
  BY DEF RulesInv, Claims, Rules!Owned, Rules!Held

-----------------------------------------------------------------------------
(* The data of set elements *)

FieldSets == [VERDICT : Codes, CHAIN : Chains \cup {"NULL"},
              DATA : Elem!Words \X (Lengths \cup {0})]
Elements  == [flags : SUBSET Elem!Attrs, first : Elem!Words,
              ptr : Addresses \cup Stored \cup {"NULL"}, len : Lengths \cup {0}]

\* The element of the program.  What was not stored over is as it was set, and a
\* value has the length it was set to in any case; a chain that was stored over
\* has no address.  Unless that has happened, the chain is the one name that is
\* allocated.
MineInv ==
  /\ mine \in Elements /\ fields \in FieldSets
  /\ Elem!Live \subseteq Addresses /\ \A p \in Elem!Live : heap[p] \in Chains
  /\ fault \in BOOLEAN /\ lost \in BOOLEAN
  /\ torn \subseteq mine.flags
  /\ "CHAIN" \in mine.flags => fields.CHAIN \in Chains
  /\ "DATA" \in mine.flags => mine.len = fields.DATA[2]
  /\ "CHAIN" \in torn => mine.ptr \in Stored
  /\ Elem!LikeFields
  /\ ~lost => /\ ~fault
              /\ "CHAIN" \in mine.flags => mine.ptr \in Elem!Live
              /\ Elem!NoLeak

Messages == [is : {"value", "verdict", "nothing"}, word : Elem!Words,
             rest : Chains \cup {"none", "NULL"} \cup Addresses \cup Stored,
             len : Lengths \cup {0}]
Sents    == [flags : SUBSET Elem!Attrs, torn : SUBSET Elem!Attrs, fields : FieldSets]
Readers  == [flags : SUBSET Elem!Attrs, word : Elem!Words,
             chain : Chains \cup {"none", "NULL"} \cup Addresses \cup Stored,
             len : Lengths \cup {0}]

\* What the builder makes of an element.
SentAs(x, m) ==
  IF "DATA" \in x.flags
  THEN /\ m.is = "value" /\ m.len = x.fields.DATA[2]
       /\ "DATA" \notin x.torn => /\ m.len > 0 => m.word = x.fields.DATA[1]
                                  /\ m.len > 2 => m.rest = x.fields.DATA[1]
  ELSE IF "VERDICT" \in x.flags
  THEN /\ m.is = "verdict"
       /\ "VERDICT" \notin x.torn => m.word = x.fields.VERDICT
       /\ m.rest = IF "CHAIN" \in x.flags THEN x.fields.CHAIN ELSE Elem!NoChain
       /\ "CHAIN" \in x.flags => m.rest \in Chains
  ELSE m.is = "nothing"

\* The elements that are sent, and those that are read.
RemoteInv ==
  /\ msg \in Seq(Messages) /\ sent \in Seq(Sents) /\ theirs \in Seq(Readers)
  /\ Len(sent) = Len(msg) /\ Len(theirs) <= Len(msg)
  /\ fault => theirs = <<>> /\ result = "none"
  /\ ~fault => \A i \in DOMAIN msg : SentAs(sent[i], msg[i])
  /\ \A i \in DOMAIN msg : msg[i].is = "verdict" => msg[i].rest \in Chains \cup {"none"}
  /\ \A i \in DOMAIN theirs : "CHAIN" \in theirs[i].flags =>
       "VERDICT" \in theirs[i].flags /\ theirs[i].chain \in Chains
  /\ Elem!Arrives
  /\ Elem!Refused

ElemInv == MineInv /\ RemoteInv

LEMMA ElemConstants ==
  /\ "DROP" \in Codes /\ "NULL" \notin Addresses /\ Addresses \cap Stored = {}
  /\ "none" \notin Chains /\ Lengths \subseteq Nat /\ Elem!Words = Codes \cup Stored
BY PartsAssumption DEF Elem!BoundAssumption, Elem!Words

\* An element that was just allocated, and nothing sent.
LEMMA ElemBegin ==
  ASSUME mine = Elem!New, heap = <<>>, msg = <<>>, theirs = <<>>, result = "none",
         fault = FALSE, torn = {}, fields = Elem!NoFields, lost = FALSE, sent = <<>>
  PROVE  ElemInv
<1>1. /\ mine \in Elements /\ mine.flags = {} /\ fields \in FieldSets
  BY ElemConstants DEF Elem!New, Elem!NoFields, Elements, FieldSets
<1>2. DOMAIN heap = {}
  OBVIOUS
<1>3. MineInv
  BY <1>1, <1>2 DEF MineInv, Elem!Live, Elem!LikeFields, Elem!NoLeak
<1>4. /\ msg \in Seq(Messages) /\ sent \in Seq(Sents) /\ theirs \in Seq(Readers)
      /\ Len(msg) = 0 /\ Len(sent) = 0 /\ Len(theirs) = 0
      /\ DOMAIN msg = {} /\ DOMAIN theirs = {}
  BY EmptySeq
<1>5. RemoteInv
  BY <1>4 DEF RemoteInv, Elem!Arrives, Elem!Refused
<1> QED BY <1>3, <1>5 DEF ElemInv

\* The three attributes, one by one.
LikeVerdict == "VERDICT" \in mine.flags \ torn => mine.first = fields.VERDICT
LikeChain   == "CHAIN" \in mine.flags \ torn =>
                 mine.ptr \in Elem!Live /\ heap[mine.ptr] = fields.CHAIN
LikeData    == "DATA" \in mine.flags \ torn =>
                 /\ mine.len = fields.DATA[2]
                 /\ mine.len > 0 => mine.first = fields.DATA[1]
                 /\ mine.len > 2 => mine.ptr = fields.DATA[1]

\* LikeFields is what the three say together.
LEMMA LikeEach ==
  mine \in Elements =>
    (Elem!LikeFields <=> (~fault => LikeVerdict /\ LikeChain /\ LikeData))
<1> SUFFICES ASSUME mine \in Elements
             PROVE  Elem!LikeFields <=> (~fault => LikeVerdict /\ LikeChain /\ LikeData)
  OBVIOUS
<1>1. \A a \in mine.flags \ torn : a \in {"VERDICT", "CHAIN", "DATA"}
  BY DEF Elements, Elem!Attrs
<1>2. ASSUME Elem!LikeFields, ~fault PROVE LikeVerdict /\ LikeChain /\ LikeData
  <2>1. "VERDICT" \in mine.flags \ torn => mine.first = fields.VERDICT
    BY <1>2 DEF Elem!LikeFields
  <2>2. "CHAIN" \in mine.flags \ torn => mine.ptr \in Elem!Live /\ heap[mine.ptr] = fields.CHAIN
    BY <1>2 DEF Elem!LikeFields
  <2>3. "DATA" \in mine.flags \ torn => /\ mine.len = fields.DATA[2]
                                        /\ mine.len > 0 => mine.first = fields.DATA[1]
                                        /\ mine.len > 2 => mine.ptr = fields.DATA[1]
    BY <1>2 DEF Elem!LikeFields
  <2> QED BY <2>1, <2>2, <2>3 DEF LikeVerdict, LikeChain, LikeData
<1>3. ASSUME ~fault => LikeVerdict /\ LikeChain /\ LikeData PROVE Elem!LikeFields
  BY <1>1, <1>3 DEF Elem!LikeFields, LikeVerdict, LikeChain, LikeData
<1> QED BY <1>2, <1>3

\* The same after a step.
LEMMA LikeEachNext ==
  ASSUME mine' \in Elements, ~fault' => LikeVerdict' /\ LikeChain' /\ LikeData'
  PROVE  Elem!LikeFields'
<1>1. (mine \in Elements => (Elem!LikeFields <=> (~fault => LikeVerdict /\ LikeChain /\ LikeData)))'
  BY LikeEach, PTL
<1>2. mine' \in Elements'
  BY DEF Elements
<1> QED BY <1>1, <1>2

\* The calls that send nothing.
LEMMA RemoteStays ==
  ASSUME RemoteInv, Elem!Working, UNCHANGED <<msg, theirs, result, sent>>
  PROVE  RemoteInv'
BY DEF RemoteInv, Elem!Working, Elem!Arrives, Elem!Arrived, Elem!Refused, Elem!BadElem

\* nftnl_set_elem_set of a verdict: the first word is the verdict.
LEMMA SetVerdict ==
  ASSUME MineInv, NEW c \in Codes, Elem!set_verdict(c)
  PROVE  MineInv'
<1>1. /\ mine' = [mine EXCEPT !.first = c, !.flags = @ \cup {"VERDICT"}]
      /\ fields' = [fields EXCEPT !.VERDICT = c]
      /\ torn' = (torn \ {"VERDICT"}) \cup (IF mine.len > 0 THEN {"DATA"} \cap mine.flags ELSE {})
      /\ heap' = heap /\ fault' = fault /\ lost' = lost
  BY DEF Elem!set_verdict, Elem!Flag, Elem!Meant, MineInv, Elements
<1>2. /\ mine' \in Elements /\ mine'.flags = mine.flags \cup {"VERDICT"}
      /\ mine'.first = c /\ mine'.ptr = mine.ptr /\ mine'.len = mine.len
  BY <1>1, ElemConstants DEF MineInv, Elements, Elem!Attrs
<1>3. /\ fields' \in FieldSets
      /\ fields'.VERDICT = c /\ fields'.CHAIN = fields.CHAIN /\ fields'.DATA = fields.DATA
  BY <1>1 DEF MineInv, FieldSets
<1>4. Elem!LikeFields'
  <2>1. ~fault => LikeVerdict /\ LikeChain /\ LikeData
    BY LikeEach DEF MineInv
  <2>2. ~fault' => LikeVerdict' /\ LikeChain' /\ LikeData'
    BY <1>1, <1>2, <1>3, <2>1, ElemConstants
       DEF MineInv, Elements, LikeVerdict, LikeChain, LikeData, Elem!Live
  <2> QED BY <1>2, <2>2, LikeEachNext
<1> QED BY <1>1, <1>2, <1>3, <1>4 DEF MineInv, Elem!Live, Elem!NoLeak

\* Of a chain: the old name goes, the new one takes its place in the union.
LEMMA SetChain ==
  ASSUME MineInv, NEW c \in Chains, Elem!set_chain(c)
  PROVE  MineInv'
<1> DEFINE frees == "CHAIN" \in mine.flags
           rest  == IF frees THEN Elem!Without(heap, mine.ptr) ELSE heap
<1>1. PICK p \in Addresses \ DOMAIN rest :
        /\ mine' = Elem!Flag([mine EXCEPT !.ptr = p], "CHAIN")
        /\ heap' = [q \in DOMAIN rest \cup {p} |-> IF q = p THEN c ELSE rest[q]]
        /\ fault' = (frees /\ mine.ptr \notin Elem!Live)
  BY DEF Elem!set_chain
<1>2. /\ fields' = [fields EXCEPT !.CHAIN = c]
      /\ torn' = (torn \ {"CHAIN"}) \cup (IF mine.len > 2 THEN {"DATA"} \cap mine.flags ELSE {})
      /\ lost' = lost
  BY DEF Elem!set_chain, Elem!Meant, MineInv
<1>3. /\ mine' \in Elements /\ mine'.flags = mine.flags \cup {"CHAIN"}
      /\ mine'.first = mine.first /\ mine'.ptr = p /\ mine'.len = mine.len
  BY <1>1 DEF MineInv, Elements, Elem!Attrs, Elem!Flag
<1>4. /\ fields' \in FieldSets
      /\ fields'.VERDICT = fields.VERDICT /\ fields'.CHAIN = c /\ fields'.DATA = fields.DATA
  BY <1>2 DEF MineInv, FieldSets
<1>5. /\ DOMAIN rest = IF frees THEN DOMAIN heap \ {mine.ptr} ELSE DOMAIN heap
      /\ \A q \in DOMAIN rest : rest[q] = heap[q]
  BY DEF Elem!Without
<1>6. /\ DOMAIN heap' = DOMAIN rest \cup {p} /\ heap'[p] = c
      /\ \A q \in DOMAIN rest \ {p} : heap'[q] = heap[q]
  BY <1>1, <1>5
<1> HIDE DEF rest
<1>7. Elem!Live' \subseteq Addresses /\ \A q \in Elem!Live' : heap'[q] \in Chains
  BY <1>5, <1>6 DEF MineInv, Elem!Live
<1>8. Elem!LikeFields'
  <2>1. ~fault => LikeVerdict /\ LikeChain /\ LikeData
    BY LikeEach DEF MineInv
  <2>2. ~fault
    BY DEF Elem!set_chain, Elem!Working
  <2>3. LikeVerdict'
    BY <1>2, <1>3, <1>4, <2>1, <2>2 DEF LikeVerdict
  <2>4. LikeChain'
    BY <1>3, <1>4, <1>6 DEF LikeChain, Elem!Live
  <2>5. LikeData'
    BY <1>2, <1>3, <1>4, <2>1, <2>2 DEF LikeData
  <2> QED BY <1>3, <2>3, <2>4, <2>5, LikeEachNext
<1>9. ASSUME ~lost' PROVE ~fault' /\ Elem!NoLeak' /\ mine'.ptr \in Elem!Live'
  BY <1>1, <1>2, <1>3, <1>5, <1>6, <1>9 DEF MineInv, Elem!NoLeak, Elem!Live
<1>10. "DATA" \in mine'.flags => mine'.len = fields'.DATA[2]
  BY <1>3, <1>4 DEF MineInv
<1>11. torn' \subseteq mine'.flags /\ "CHAIN" \notin torn' /\ fault' \in BOOLEAN /\ lost' \in BOOLEAN
  BY <1>1, <1>2, <1>3 DEF MineInv
<1> QED BY <1>3, <1>4, <1>7, <1>8, <1>9, <1>10, <1>11 DEF MineInv

\* Of a value: three words or more take the place of the address of a chain.
LEMMA SetData ==
  ASSUME MineInv, NEW v \in Stored, NEW n \in Lengths, Elem!set_data(v, n)
  PROVE  MineInv'
<1>1. /\ mine' = Elem!Flag([mine EXCEPT !.first = IF n > 0 THEN v ELSE @,
                                        !.ptr = IF n > 2 THEN v ELSE @,
                                        !.len = n], "DATA")
      /\ fields' = [fields EXCEPT !.DATA = <<v, n>>]
      /\ torn' = (torn \ {"DATA"}) \cup (Elem!Hit(n) \cap mine.flags)
      /\ lost' = (lost \/ (n > 2 /\ "CHAIN" \in mine.flags))
      /\ heap' = heap /\ fault' = fault
  BY DEF Elem!set_data, Elem!Meant
<1>2. n \in Nat /\ v \in Elem!Words
  BY ElemConstants
<1>3. /\ mine' \in Elements /\ mine'.flags = mine.flags \cup {"DATA"}
      /\ mine'.first = IF n > 0 THEN v ELSE mine.first
      /\ mine'.ptr = IF n > 2 THEN v ELSE mine.ptr
      /\ mine'.len = n
  BY <1>1, <1>2 DEF MineInv, Elements, Elem!Attrs, Elem!Flag
<1>4. /\ fields' \in FieldSets
      /\ fields'.VERDICT = fields.VERDICT /\ fields'.CHAIN = fields.CHAIN
      /\ fields'.DATA[1] = v /\ fields'.DATA[2] = n
  BY <1>1, <1>2 DEF MineInv, FieldSets
<1>5. Elem!Live' = Elem!Live
  BY <1>1 DEF Elem!Live
<1>6. Elem!LikeFields'
  <2>1. ~fault => LikeVerdict /\ LikeChain /\ LikeData
    BY LikeEach DEF MineInv
  <2>2. ~fault' => LikeVerdict' /\ LikeChain' /\ LikeData'
    BY <1>1, <1>2, <1>3, <1>4, <1>5, <2>1 DEF LikeVerdict, LikeChain, LikeData, Elem!Hit
  <2> QED BY <1>3, <2>2, LikeEachNext
<1>7. "CHAIN" \in torn' => mine'.ptr \in Stored
  BY <1>1, <1>3 DEF MineInv, Elem!Hit
<1>8. ASSUME ~lost' PROVE ~fault' /\ Elem!NoLeak' /\ ("CHAIN" \in mine'.flags => mine'.ptr \in Elem!Live')
  BY <1>1, <1>3, <1>5, <1>8 DEF MineInv, Elem!NoLeak
<1>9. torn' \subseteq mine'.flags /\ fault' \in BOOLEAN /\ lost' \in BOOLEAN
  BY <1>1, <1>3 DEF MineInv, Elem!Hit
<1> QED BY <1>1, <1>3, <1>4, <1>5, <1>6, <1>7, <1>8, <1>9 DEF MineInv

\* nftnl_set_elem_unset: a chain is released.
LEMMA UnsetAttr ==
  ASSUME MineInv, NEW a \in Elem!Attrs, Elem!unset(a)
  PROVE  MineInv'
<1>1. /\ a \in mine.flags
      /\ mine' = [mine EXCEPT !.flags = @ \ {a}]
      /\ heap' = IF a = "CHAIN" THEN Elem!Without(heap, mine.ptr) ELSE heap
      /\ fault' = (a = "CHAIN" /\ mine.ptr \notin Elem!Live)
      /\ fields' = [fields EXCEPT ![a] = Elem!NoFields[a]]
      /\ torn' = torn \ {a} /\ lost' = lost
  BY DEF Elem!unset, Elem!Forgotten
<1>2. ~fault
  BY DEF Elem!unset, Elem!Working
<1>3. /\ mine' \in Elements /\ mine'.flags = mine.flags \ {a}
      /\ mine'.first = mine.first /\ mine'.ptr = mine.ptr /\ mine'.len = mine.len
  BY <1>1 DEF MineInv, Elements
<1>4. /\ fields' \in FieldSets
      /\ a # "VERDICT" => fields'.VERDICT = fields.VERDICT
      /\ a # "CHAIN" => fields'.CHAIN = fields.CHAIN
      /\ a # "DATA" => fields'.DATA = fields.DATA
  BY <1>1, ElemConstants DEF MineInv, FieldSets, Elem!Attrs, Elem!NoFields
<1>5. /\ DOMAIN heap' = IF a = "CHAIN" THEN DOMAIN heap \ {mine.ptr} ELSE DOMAIN heap
      /\ \A q \in DOMAIN heap' : heap'[q] = heap[q]
  BY <1>1 DEF Elem!Without
<1>6. Elem!Live' \subseteq Addresses /\ \A q \in Elem!Live' : heap'[q] \in Chains
  BY <1>5 DEF MineInv, Elem!Live
<1>7. Elem!LikeFields'
  <2>1. LikeVerdict /\ LikeChain /\ LikeData
    BY <1>2, LikeEach DEF MineInv
  <2>2. LikeVerdict'
    BY <1>1, <1>3, <1>4, <2>1 DEF LikeVerdict
  <2>3. LikeChain'
    BY <1>1, <1>3, <1>4, <1>5, <2>1 DEF LikeChain, Elem!Live
  <2>4. LikeData'
    BY <1>1, <1>3, <1>4, <2>1 DEF LikeData
  <2> QED BY <1>3, <2>2, <2>3, <2>4, LikeEachNext
<1>8. ASSUME ~lost' PROVE ~fault' /\ Elem!NoLeak' /\ ("CHAIN" \in mine'.flags => mine'.ptr \in Elem!Live')
  BY <1>1, <1>3, <1>5, <1>8 DEF MineInv, Elem!NoLeak, Elem!Live, Elem!Attrs
<1>9. /\ torn' \subseteq mine'.flags /\ fault' \in BOOLEAN /\ lost' \in BOOLEAN
      /\ "CHAIN" \in torn' => mine'.ptr \in Stored
      /\ "CHAIN" \in mine'.flags => fields'.CHAIN \in Chains
      /\ "DATA" \in mine'.flags => mine'.len = fields'.DATA[2]
  BY <1>1, <1>3, <1>4 DEF MineInv
<1> QED BY <1>3, <1>4, <1>6, <1>7, <1>8, <1>9 DEF MineInv

\* nftnl_set_elem_get of a chain: the name is there.
LEMMA GetChain ==
  ASSUME MineInv, Elem!get_chain
  PROVE  MineInv'
<1>1. /\ UNCHANGED <<mine, heap, torn, fields, lost>> /\ fault' = TRUE
      /\ "CHAIN" \in mine.flags /\ mine.ptr \notin Elem!Live
  BY DEF Elem!get_chain
<1>2. lost
  BY <1>1 DEF MineInv
<1> QED BY <1>1, <1>2 DEF MineInv, Elem!Live, Elem!LikeFields

\* What is built of an element that has what it claims.
LEMMA BuildAs ==
  ASSUME MineInv, ~fault, "CHAIN" \in mine.flags => mine.ptr \in Elem!Live
  PROVE  SentAs([flags |-> mine.flags, torn |-> torn, fields |-> fields], Elem!Build(mine))
<1> DEFINE x == [flags |-> mine.flags, torn |-> torn, fields |-> fields]
           m == Elem!Build(mine)
<1>1. x.flags = mine.flags /\ x.torn = torn /\ x.fields = fields
  OBVIOUS
<1>2. LikeVerdict /\ LikeChain /\ LikeData
  BY LikeEach DEF MineInv
<1>3. CASE "DATA" \in mine.flags
  <2>1. m = Elem!Value(mine)
    BY <1>3 DEF Elem!Build
  <2>2. /\ m.is = "value" /\ m.word = mine.first /\ m.len = mine.len
        /\ m.len > 2 => m.rest = mine.ptr
    BY <2>1 DEF Elem!Value
  <2>9. SentAs(x, m)
    <3> HIDE DEF m, x
    <3> QED BY <1>1, <1>2, <1>3, <2>2 DEF SentAs, LikeData, MineInv
  <2> QED BY <2>9
<1>4. CASE "DATA" \notin mine.flags /\ "VERDICT" \in mine.flags
  <2>1. "CHAIN" \in mine.flags => heap[mine.ptr] = fields.CHAIN
    <3>1. "CHAIN" \in mine.flags => "CHAIN" \notin torn
      BY ElemConstants DEF MineInv
    <3> QED BY <3>1, <1>2 DEF LikeChain
  <2>2. m = Elem!Verdict(mine.first, IF "CHAIN" \in mine.flags THEN fields.CHAIN ELSE Elem!NoChain)
    BY <1>4, <2>1 DEF Elem!Build
  <2>3. /\ m.is = "verdict" /\ m.word = mine.first
        /\ m.rest = IF "CHAIN" \in mine.flags THEN fields.CHAIN ELSE Elem!NoChain
    BY <2>2 DEF Elem!Verdict
  <2>9. SentAs(x, m)
    <3> HIDE DEF m, x
    <3> QED BY <1>1, <1>2, <1>4, <2>3 DEF SentAs, LikeVerdict, MineInv
  <2> QED BY <2>9
<1>5. CASE "DATA" \notin mine.flags /\ "VERDICT" \notin mine.flags
  <2>1. m.is = "nothing"
    BY <1>5 DEF Elem!Build, Elem!Nothing
  <2>9. SentAs(x, m)
    <3> HIDE DEF m, x
    <3> QED BY <1>1, <1>5, <2>1 DEF SentAs
  <2> QED BY <2>9
<1> QED BY <1>3, <1>4, <1>5

LEMMA BuildType ==
  ASSUME MineInv
  PROVE  /\ Elem!Build(mine) \in Messages
         /\ Elem!Build(mine).is = "verdict" => Elem!Build(mine).rest \in Chains \cup {"none"}
<1>1. "CHAIN" \in mine.flags /\ mine.ptr \in Elem!Live => heap[mine.ptr] \in Chains
  BY DEF MineInv
<1>2. mine.first \in Elem!Words /\ mine.len \in Lengths \cup {0} /\ mine.ptr \in Addresses \cup Stored \cup {"NULL"}
  BY DEF MineInv, Elements
<1>3. CASE "DATA" \in mine.flags
  BY <1>2, <1>3 DEF Elem!Build, Elem!Value, Messages
<1>4. CASE "DATA" \notin mine.flags /\ "VERDICT" \in mine.flags
  BY <1>1, <1>2, <1>4 DEF Elem!Build, Elem!Verdict, Messages, Elem!NoChain
<1>5. CASE "DATA" \notin mine.flags /\ "VERDICT" \notin mine.flags
  BY <1>5, ElemConstants DEF Elem!Build, Elem!Nothing, Messages
<1> QED BY <1>3, <1>4, <1>5

\* An element of a list is built.
LEMMA Send ==
  ASSUME ElemInv, Elem!send
  PROVE  ElemInv'
<1> DEFINE x == [flags |-> mine.flags, torn |-> torn, fields |-> fields]
           m == Elem!Build(mine)
<1>1. /\ fault' = ("CHAIN" \in mine.flags /\ mine.ptr \notin Elem!Live)
      /\ msg' = Append(msg, m) /\ sent' = Append(sent, x)
      /\ heap' = IF "CHAIN" \in mine.flags THEN Elem!Without(heap, mine.ptr) ELSE heap
      /\ mine' = Elem!New /\ torn' = {} /\ fields' = Elem!NoFields
      /\ theirs' = theirs /\ result' = result /\ lost' = lost
      /\ ~fault /\ theirs = <<>> /\ result = "none"
  BY DEF Elem!send, Elem!Working
<1>2. MineInv /\ RemoteInv
  BY DEF ElemInv
<1>3. m \in Messages /\ (m.is = "verdict" => m.rest \in Chains \cup {"none"})
  BY <1>2, BuildType
<1>4. ~fault' => SentAs(x, m)
  BY <1>1, <1>2, BuildAs
<1>5. x \in Sents
  BY <1>2 DEF MineInv, Sents, Elements
<1> HIDE DEF x, m
<1>6. MineInv'
  <2>1. /\ mine' \in Elements /\ mine'.flags = {} /\ fields' \in FieldSets
    BY <1>1, ElemConstants DEF Elem!New, Elem!NoFields, Elements, FieldSets
  <2>2. /\ DOMAIN heap' = IF "CHAIN" \in mine.flags THEN DOMAIN heap \ {mine.ptr} ELSE DOMAIN heap
        /\ \A q \in DOMAIN heap' : heap'[q] = heap[q]
    BY <1>1 DEF Elem!Without
  <2>3. Elem!Live' \subseteq Addresses /\ \A q \in Elem!Live' : heap'[q] \in Chains
    BY <1>2, <2>2 DEF MineInv, Elem!Live
  <2>4. Elem!LikeFields'
    BY <2>1 DEF Elem!LikeFields
  <2>5. ~lost' => ~fault' /\ Elem!NoLeak'
    BY <1>1, <1>2, <2>1, <2>2 DEF MineInv, Elem!NoLeak, Elem!Live
  <2> QED BY <1>1, <1>2, <2>1, <2>3, <2>4, <2>5 DEF MineInv
<1>7. RemoteInv'
  <2>1. /\ msg \in Seq(Messages) /\ sent \in Seq(Sents) /\ Len(sent) = Len(msg) /\ Len(msg) \in Nat
    BY <1>2 DEF RemoteInv
  <2>2. /\ msg' \in Seq(Messages) /\ Len(msg') = Len(msg) + 1
        /\ \A i \in 1..Len(msg) : msg'[i] = msg[i]
        /\ msg'[Len(msg) + 1] = m
    BY <1>1, <1>3, <2>1, AppendProperties
  <2>3. /\ sent' \in Seq(Sents) /\ Len(sent') = Len(msg) + 1
        /\ \A i \in 1..Len(msg) : sent'[i] = sent[i]
        /\ sent'[Len(msg) + 1] = x
    BY <1>1, <1>5, <2>1, AppendProperties
  <2>4. DOMAIN msg' = 1..Len(msg) + 1 /\ DOMAIN msg = 1..Len(msg)
    BY <2>1, <2>2
  <2>5. ~fault' => \A i \in DOMAIN msg' : SentAs(sent'[i], msg'[i])
    BY <1>1, <1>2, <1>4, <2>2, <2>3, <2>4 DEF RemoteInv
  <2>6. \A i \in DOMAIN msg' : msg'[i].is = "verdict" => msg'[i].rest \in Chains \cup {"none"}
    BY <1>2, <1>3, <2>2, <2>4 DEF RemoteInv
  <2>7. theirs' \in Seq(Readers) /\ Len(theirs') = 0 /\ DOMAIN theirs' = {}
    BY <1>1, EmptySeq
  <2>8. Elem!Arrives' /\ Elem!Refused'
    BY <1>1, <2>7 DEF Elem!Arrives, Elem!Refused
  <2> QED BY <1>1, <2>1, <2>2, <2>3, <2>5, <2>6, <2>7, <2>8 DEF RemoteInv
<1> QED BY <1>6, <1>7 DEF ElemInv

\* An element that was sent as x, for which the reader gets e.
LEMMA ParsedAs ==
  ASSUME NEW x \in Sents, NEW m \in Messages, SentAs(x, m),
         NEW before, Elem!LeftBy(before) \subseteq Chains,
         NEW e \in Elem!ParseElem(m, before)
  PROVE  /\ e = Elem!Fails => Elem!BadElem(x)
         /\ e = Elem!Wild => {"VERDICT"} = x.flags \cap {"VERDICT", "DATA"} /\ "CHAIN" \notin x.flags
         /\ e.flags \cap {"fails", "wild"} = {} =>
              /\ e \in Readers /\ Elem!Arrived(x, e)
              /\ "CHAIN" \in e.flags => "VERDICT" \in e.flags /\ e.chain \in Chains
         /\ e.flags \cap {"fails", "wild"} # {} => e \in {Elem!Fails, Elem!Wild}
<1>1. x.fields.VERDICT \in Codes
  BY DEF Sents, FieldSets
<1>a. /\ Elem!Fails.flags = {"fails"} /\ Elem!Wild.flags = {"wild"} /\ Elem!Fails # Elem!Wild
  <2>1. Elem!Fails.flags = {"fails"} /\ Elem!Wild.flags = {"wild"}
    BY DEF Elem!Fails, Elem!Wild
  <2> QED BY <2>1
<1>2. CASE m.is = "verdict"
  <2>1. /\ "DATA" \notin x.flags /\ "VERDICT" \in x.flags
        /\ "VERDICT" \notin x.torn => m.word = x.fields.VERDICT
        /\ m.rest = IF "CHAIN" \in x.flags THEN x.fields.CHAIN ELSE Elem!NoChain
        /\ "CHAIN" \in x.flags => m.rest \in Chains
    BY <1>2 DEF SentAs
  <2>2. e \in Elem!ParseVerdict(m, before)
    BY <1>2 DEF Elem!ParseElem
  <2>3. x.flags = {"VERDICT"} \/ x.flags = {"VERDICT", "CHAIN"}
    BY <2>1 DEF Sents, Elem!Attrs
  <2>4. \A y : Elem!Arrived(x, y) <=>
          (IF "VERDICT" \in x.torn THEN y.word \in Codes
           ELSE /\ y.word = x.fields.VERDICT
                /\ IF x.fields.VERDICT \in Elem!Jumps
                   THEN /\ y.flags = {"VERDICT", "CHAIN"}
                        /\ "CHAIN" \notin x.flags \/ y.chain = x.fields.CHAIN
                   ELSE y.flags = {"VERDICT"})
    BY <2>1, <2>3 DEF Elem!Arrived
  <2>5. m.word \in Elem!Words /\ m.len \in Lengths \cup {0}
    BY DEF Messages
  <2>6. CASE m.word \notin Codes
    BY <1>1, <1>a, <2>1, <2>2, <2>6 DEF Elem!ParseVerdict, Elem!BadElem
  <2>7. CASE m.word \in Codes /\ m.word \notin Elem!Jumps
    <3>1. e = [flags |-> {"VERDICT"}, word |-> m.word, chain |-> "NULL", len |-> m.len]
      BY <2>2, <2>7 DEF Elem!ParseVerdict, Elem!Got
    <3>2. e \in Readers /\ e.flags = {"VERDICT"} /\ e.word = m.word
      BY <2>5, <3>1 DEF Readers, Elem!Attrs
    <3> QED BY <1>a, <2>1, <2>4, <2>7, <3>2
  <2>8. ASSUME m.word \in Codes, m.word \in Elem!Jumps, NEW c \in Chains, e = Elem!Jump(m, c),
               "CHAIN" \in x.flags => c = x.fields.CHAIN
        PROVE  /\ e \in Readers /\ Elem!Arrived(x, e) /\ e.flags = {"VERDICT", "CHAIN"}
               /\ e.chain \in Chains
    <3>1. e = [flags |-> {"VERDICT", "CHAIN"}, word |-> m.word, chain |-> c, len |-> m.len]
      BY <2>8 DEF Elem!Jump, Elem!Got, Messages
    <3>2. e \in Readers /\ e.flags = {"VERDICT", "CHAIN"} /\ e.word = m.word /\ e.chain = c
      BY <2>5, <3>1 DEF Readers, Elem!Attrs
    <3> QED BY <2>1, <2>4, <2>8, <3>2
  <2>9. CASE m.word \in Codes /\ m.word \in Elem!Jumps /\ m.rest # Elem!NoChain
    <3>1. e = Elem!Jump(m, m.rest) /\ m.rest \in Chains
      BY <2>1, <2>2, <2>9 DEF Elem!ParseVerdict
    <3> QED BY <1>a, <2>1, <2>8, <2>9, <3>1
  <2>10. CASE m.word \in Codes /\ m.word \in Elem!Jumps /\ m.rest = Elem!NoChain
    <3>1. "CHAIN" \notin x.flags
      BY <2>1, <2>10, ElemConstants DEF Elem!NoChain
    <3>2. e \in {Elem!Fails, Elem!Wild} \/ \E c \in Chains : e = Elem!Jump(m, c)
      BY <2>2, <2>10 DEF Elem!ParseVerdict
    <3>3. Elem!BadElem(x) /\ {"VERDICT"} = x.flags \cap {"VERDICT", "DATA"}
      BY <2>1, <2>3, <2>10, <3>1 DEF Elem!BadElem
    <3> QED BY <1>a, <2>8, <2>10, <3>1, <3>2, <3>3
  <2> QED BY <2>6, <2>7, <2>9, <2>10
<1>3. CASE m.is = "value"
  <2>1. /\ "DATA" \in x.flags /\ m.len = x.fields.DATA[2]
        /\ "DATA" \notin x.torn => /\ m.len > 0 => m.word = x.fields.DATA[1]
                                   /\ m.len > 2 => m.rest = x.fields.DATA[1]
    BY <1>3 DEF SentAs
  <2>2. CASE m.len = 0
    BY <1>3, <1>a, <2>1, <2>2 DEF Elem!ParseElem, Elem!BadElem
  <2>3. CASE m.len # 0
    <3>1. e = Elem!Got({"DATA"}, m)
      BY <1>3, <2>3 DEF Elem!ParseElem
    <3>2. /\ e \in Readers /\ e.flags = {"DATA"} /\ e.word = m.word /\ e.chain = m.rest
          /\ e.len = m.len
      BY <3>1 DEF Elem!Got, Readers, Messages, Elem!Attrs
    <3>3. m.len > 0
      <4>1. m.len \in Nat
        <5>1. m.len \in Lengths \cup {0}
          BY DEF Messages
        <5>2. Lengths \cup {0} \subseteq Nat
          BY ElemConstants, SMT
        <5> HIDE DEF Messages
        <5> QED BY <5>1, <5>2, Zenon
      <4> QED BY <4>1, <2>3
    <3>4. Elem!Arrived(x, e)
      BY <2>1, <3>2, <3>3 DEF Elem!Arrived
    <3> QED BY <1>a, <3>2, <3>4
  <2> QED BY <2>2, <2>3
<1>4. CASE m.is = "nothing"
  <2>1. x.flags \cap {"VERDICT", "DATA"} = {}
    BY <1>4 DEF SentAs
  <2>2. e = Elem!Got({}, m)
    BY <1>4 DEF Elem!ParseElem
  <2>3. e \in Readers /\ e.flags = {}
    BY <2>2 DEF Elem!Got, Readers, Messages
  <2>4. Elem!Arrived(x, e)
    BY <2>1, <2>3 DEF Elem!Arrived
  <2> QED BY <1>a, <2>3, <2>4
<1> QED BY <1>2, <1>3, <1>4 DEF Messages

\* The reader takes the next element of the list.
LEMMA ParseNext ==
  ASSUME ElemInv, Elem!parse
  PROVE  ElemInv'
<1> DEFINE i == Len(theirs) + 1
           before == SubSeq(msg, 1, i - 1)
<1>1. PICK e \in Elem!ParseElem(msg[i], before) :
        /\ theirs' = IF e.flags \cap {"fails", "wild"} = {} THEN Append(theirs, e) ELSE theirs
        /\ result' = IF e = Elem!Fails THEN "fails" ELSE IF e = Elem!Wild THEN "wild"
                     ELSE IF i = Len(msg) THEN "ok" ELSE "none"
  BY DEF Elem!parse
<1>2. /\ UNCHANGED <<mine, heap, msg, fault, torn, fields, lost, sent>>
      /\ ~fault /\ result = "none" /\ Len(theirs) < Len(msg)
  BY DEF Elem!parse
<1>3. MineInv /\ RemoteInv
  BY DEF ElemInv
<1>4. /\ msg \in Seq(Messages) /\ sent \in Seq(Sents) /\ theirs \in Seq(Readers)
      /\ Len(sent) = Len(msg) /\ Len(msg) \in Nat /\ Len(theirs) \in Nat
      /\ i \in 1..Len(msg)
  BY <1>2, <1>3 DEF RemoteInv
<1>5. Elem!LeftBy(before) \subseteq Chains
  <2>1. before \in Seq(Messages) /\ \A j \in DOMAIN before : before[j] = msg[j] /\ j \in DOMAIN msg
    BY <1>4, Part
  <2>2. \A j \in DOMAIN before : before[j].is = "verdict" => before[j].rest \in Chains \cup {"none"}
    BY <2>1, <1>3 DEF RemoteInv
  <2> HIDE DEF before
  <2> QED BY <2>2 DEF Elem!LeftBy, Elem!Range, Elem!NoChain
<1>6. SentAs(sent[i], msg[i]) /\ sent[i] \in Sents /\ msg[i] \in Messages
  BY <1>2, <1>3, <1>4 DEF RemoteInv
<1> HIDE DEF before
<1>7. /\ e = Elem!Fails => Elem!BadElem(sent[i])
      /\ e = Elem!Wild => /\ {"VERDICT"} = sent[i].flags \cap {"VERDICT", "DATA"}
                          /\ "CHAIN" \notin sent[i].flags
      /\ e.flags \cap {"fails", "wild"} = {} =>
           /\ e \in Readers /\ Elem!Arrived(sent[i], e)
           /\ "CHAIN" \in e.flags => "VERDICT" \in e.flags /\ e.chain \in Chains
      /\ e.flags \cap {"fails", "wild"} # {} => e \in {Elem!Fails, Elem!Wild}
  BY <1>5, <1>6, ParsedAs
<1>8. e \in {Elem!Fails, Elem!Wild} => e.flags \cap {"fails", "wild"} # {}
  BY DEF Elem!Fails, Elem!Wild
<1>9. MineInv'
  BY <1>2, <1>3 DEF MineInv, Elem!Live, Elem!LikeFields, Elem!NoLeak
<1>10. CASE e.flags \cap {"fails", "wild"} # {}
  <2>1. theirs' = theirs
    BY <1>1, <1>10
  <2>2. Elem!Refused'
    BY <1>1, <1>2, <1>7, <2>1 DEF Elem!Refused, Elem!BadElem
  <2>3. RemoteInv'
    BY <1>2, <1>3, <2>1, <2>2 DEF RemoteInv, Elem!Arrives, Elem!Arrived
  <2> QED BY <1>9, <2>3 DEF ElemInv
<1>11. CASE e.flags \cap {"fails", "wild"} = {}
  <2>1. /\ theirs' \in Seq(Readers) /\ Len(theirs') = i
        /\ \A j \in 1..Len(theirs) : theirs'[j] = theirs[j]
        /\ theirs'[i] = e
    BY <1>1, <1>4, <1>7, <1>11, AppendProperties
  <2>2. DOMAIN theirs' = 1..i /\ DOMAIN theirs = 1..Len(theirs)
    BY <1>4, <2>1
  <2>3. result' \notin {"fails", "wild"}
    BY <1>1, <1>8, <1>11
  <2>4. Elem!Refused'
    BY <2>3 DEF Elem!Refused
  <2>5. Elem!Arrives'
    <3>1. ASSUME NEW j \in DOMAIN theirs' PROVE Elem!Arrived(sent[j], theirs'[j])
      <4>1. CASE j = i
        BY <4>1, <1>7, <1>11, <2>1
      <4>2. CASE j # i
        BY <4>2, <1>3, <2>1, <2>2, <1>4 DEF RemoteInv, Elem!Arrives
      <4> QED BY <4>1, <4>2
    <3> QED BY <3>1, <1>2 DEF Elem!Arrives, Elem!Arrived
  <2>6. \A j \in DOMAIN theirs' : "CHAIN" \in theirs'[j].flags =>
          "VERDICT" \in theirs'[j].flags /\ theirs'[j].chain \in Chains
    BY <1>3, <1>4, <1>7, <1>11, <2>1, <2>2 DEF RemoteInv
  <2>7. RemoteInv'
    BY <1>2, <1>3, <1>4, <2>1, <2>4, <2>5, <2>6 DEF RemoteInv
  <2> QED BY <1>9, <2>7 DEF ElemInv
<1> QED BY <1>10, <1>11

\* Every call on an element or a list of them.
LEMMA ElemStep ==
  ASSUME ElemInv, Elem!Next
  PROVE  ElemInv'
<1>1. ASSUME MineInv', Elem!Working, UNCHANGED <<msg, theirs, result, sent>>
      PROVE  ElemInv'
  BY <1>1, RemoteStays DEF ElemInv
<1>2. ASSUME NEW c \in Codes, Elem!set_verdict(c) PROVE ElemInv'
  BY <1>1, <1>2, SetVerdict DEF ElemInv, Elem!set_verdict, Elem!Remote
<1>3. ASSUME NEW c \in Chains, Elem!set_chain(c) PROVE ElemInv'
  BY <1>1, <1>3, SetChain DEF ElemInv, Elem!set_chain, Elem!Remote
<1>4. ASSUME NEW v \in Stored, NEW n \in Lengths, Elem!set_data(v, n) PROVE ElemInv'
  BY <1>1, <1>4, SetData DEF ElemInv, Elem!set_data, Elem!Remote
<1>5. ASSUME NEW a \in Elem!Attrs, Elem!unset(a) PROVE ElemInv'
  BY <1>1, <1>5, UnsetAttr DEF ElemInv, Elem!unset, Elem!Remote
<1>6. ASSUME Elem!get_chain PROVE ElemInv'
  BY <1>1, <1>6, GetChain DEF ElemInv, Elem!get_chain, Elem!Remote
<1>7. ASSUME Elem!renew PROVE ElemInv'
  <2>1. (/\ mine = Elem!New /\ heap = <<>> /\ msg = <<>> /\ theirs = <<>> /\ result = "none"
         /\ fault = FALSE /\ torn = {} /\ fields = Elem!NoFields /\ lost = FALSE
         /\ sent = <<>>)' => ElemInv'
    BY ElemBegin, PTL
  <2> QED BY <1>7, <2>1 DEF Elem!renew
<1> QED BY <1>2, <1>3, <1>4, <1>5, <1>6, <1>7, Send, ParseNext DEF Elem!Next

\* What follows from the invariant of elements.
LEMMA ElemFacts ==
  ElemInv => /\ Elem!TypeOK /\ Elem!LikeFields /\ Elem!Arrives /\ Elem!Refused
             /\ Elem!NoFault /\ Elem!NoLeak
<1> SUFFICES ASSUME ElemInv
             PROVE  /\ Elem!TypeOK /\ Elem!LikeFields /\ Elem!Arrives /\ Elem!Refused
                    /\ Elem!NoFault /\ Elem!NoLeak
  OBVIOUS
<1>1. MineInv /\ RemoteInv
  BY DEF ElemInv
<1>2. Elem!TypeOK
  BY <1>1 DEF MineInv, RemoteInv, Elements, Elem!TypeOK, Elem!Words
<1>3. Elem!NoFault /\ Elem!NoLeak
  BY <1>1 DEF MineInv, Elem!NoFault, Elem!NoLeak
<1> QED BY <1>1, <1>2, <1>3 DEF MineInv, RemoteInv

-----------------------------------------------------------------------------
(* The descriptions of concatenations *)

DescStates == [bytes : [Desc!Bytes -> Nat], flags : SUBSET {"SIZE", "CONCAT"},
               fault : BOOLEAN]
Zeros      == [i \in Desc!Bytes |-> 0]

\* Behind the number only zeros; and it has moved by one place at most, beyond
\* the fields, each time a description was set.
DescMine ==
  /\ mine \in DescStates /\ times.mine \in Nat
  /\ told.mine \in Seq(FieldLengths) /\ Len(told.mine) <= N
  /\ \A i \in N + 1 .. N + 3 : mine.bytes[i] = 0
  /\ mine.bytes[N] <= N + times.mine
  /\ mine.fault => times.mine > 3
  /\ times.mine = 0 => mine.bytes = Zeros /\ "CONCAT" \notin mine.flags
  /\ times.mine = 1 => Desc!Fields(mine) = told.mine
  /\ times.mine > 0 /\ ~mine.fault =>
       /\ Len(told.mine) <= mine.bytes[N]
       /\ \A i \in 0 .. Len(told.mine) - 1 : mine.bytes[i] = told.mine[i + 1]

DescTheirs ==
  /\ theirs \in DescStates /\ times.theirs \in Nat
  /\ times.theirs < 2 => ~theirs.fault
  /\ times.theirs = 0 => theirs.bytes = Zeros
  /\ times.theirs = 1 => Desc!Fields(theirs) = told.theirs

DescInv ==
  /\ told = [mine |-> told.mine, theirs |-> told.theirs]
  /\ times = [mine |-> times.mine, theirs |-> times.theirs]
  /\ DescMine /\ DescTheirs

LEMMA DescConstants ==
  /\ N \in Nat /\ N > 0 /\ FieldLengths \subseteq Nat /\ 0 \notin FieldLengths
  /\ Desc!Count = N /\ Desc!Bytes = 0 .. N + 3 /\ Desc!Padding = 3
BY PartsAssumption DEF Desc!DescAssumption, Desc!Count, Desc!Bytes, Desc!Padding

\* The fields that are sent: N at most.
LEMMA FieldsAre ==
  ASSUME NEW s \in DescStates
  PROVE  /\ Desc!Fields(s) \in Seq(Nat)
         /\ Len(Desc!Fields(s)) = IF s.bytes[N] < N THEN s.bytes[N] ELSE N
         /\ \A i \in 1 .. Len(Desc!Fields(s)) : Desc!Fields(s)[i] = s.bytes[i - 1]
<1> DEFINE n == IF s.bytes[N] < N THEN s.bytes[N] ELSE N
           F == [i \in 1 .. n |-> s.bytes[i - 1]]
<1>1. s.bytes \in [Desc!Bytes -> Nat] /\ N \in Desc!Bytes
  BY DescConstants DEF DescStates
<1>2. n \in Nat /\ n <= N
  BY <1>1, DescConstants
<1>3. Desc!Fields(s) = F
  BY DescConstants DEF Desc!Fields
<1> HIDE DEF n
<1>4. \A i \in 1 .. n : i - 1 \in Desc!Bytes
  BY <1>2, DescConstants
<1>5. F \in [1 .. n -> Nat] /\ \A i \in 1 .. n : F[i] = s.bytes[i - 1]
  BY <1>1, <1>4
<1>6. F \in Seq(Nat) /\ Len(F) = n
  BY <1>2, <1>5
<1> QED BY <1>3, <1>5, <1>6 DEF n

\* The number goes to the first zero behind the old one that is not the number
\* itself: to find none is to read what is behind the description.
LEMMA CountsOn ==
  ASSUME NEW b \in [Desc!Bytes -> Nat], NEW c, c = Desc!CountOn(b)
  PROVE  \/ /\ c.fault = TRUE /\ c.bytes = b
            /\ \A i \in b[N] + 1 .. N + 3 : i # N => b[i] # 0
         \/ /\ c.fault = FALSE
            /\ \E n \in b[N] + 1 .. N + 3 :
                 /\ n # N /\ b[n] = 0 /\ c.bytes = [b EXCEPT ![N] = n]
                 /\ \A i \in b[N] + 1 .. N + 3 : i # N /\ b[i] = 0 => n <= i
<1> DEFINE after == {i \in b[N] + 1 .. N + 3 : i # N /\ b[i] = 0}
           least == CHOOSE i \in after : \A j \in after : i <= j
<1>1. c = IF after = {} THEN [bytes |-> b, fault |-> TRUE]
          ELSE [bytes |-> [b EXCEPT ![N] = least], fault |-> FALSE]
  BY DescConstants DEF Desc!CountOn
<1>2. CASE after = {}
  <2>1. c.fault = TRUE /\ c.bytes = b
    BY <1>1, <1>2
  <2>2. \A i \in b[N] + 1 .. N + 3 : i # N => b[i] # 0
    BY <1>2
  <2> QED BY <2>1, <2>2
<1>3. CASE after # {}
  <2>1. b[N] \in Nat /\ after \subseteq Nat
    BY DescConstants
  <2>2. \E i \in after : \A j \in after : i <= j
    <3> HIDE DEF after
    <3> QED BY <1>3, <2>1, LeastOf
  <2>3. least \in after /\ \A j \in after : least <= j
    <3> HIDE DEF after
    <3> QED BY <2>2
  <2>4. c.bytes = [b EXCEPT ![N] = least] /\ c.fault = FALSE
    BY <1>1, <1>3
  <2> HIDE DEF least
  <2>5. least \in b[N] + 1 .. N + 3 /\ least # N /\ b[least] = 0
    BY <2>3
  <2>6. \A i \in b[N] + 1 .. N + 3 : i # N /\ b[i] = 0 => least <= i
    BY <2>3
  <2> QED BY <2>4, <2>5, <2>6
<1> QED BY <1>2, <1>3

\* A description is written over what was there, and counted.
LEMMA SetsDesc ==
  ASSUME DescMine, NEW d \in Desc!Data, ~mine.fault,
         mine' = Desc!SetConcat(mine, d), told'.mine = d,
         times'.mine = times.mine + 1
  PROVE  DescMine'
<1> DEFINE b == [i \in Desc!Bytes |-> IF i < Len(d) THEN d[i + 1] ELSE mine.bytes[i]]
           c == Desc!CountOn(b)
           k == Len(d)
<1>1. mine' = [bytes |-> c.bytes, flags |-> mine.flags \cup {"CONCAT"}, fault |-> c.fault]
  <2>1. mine' = [bytes |-> c.bytes, flags |-> mine.flags \cup {"CONCAT"},
                 fault |-> mine.fault \/ c.fault]
    BY DEF Desc!SetConcat
  <2>2. c.fault \in BOOLEAN
    BY DEF Desc!CountOn
  <2> HIDE DEF c
  <2> QED BY <2>1, <2>2
<1>2. /\ d \in Seq(FieldLengths) /\ k \in 1 .. N
      /\ \A i \in 1 .. k : d[i] \in FieldLengths
  BY DescConstants DEF Desc!Data
<1>3. /\ mine.bytes \in [Desc!Bytes -> Nat] /\ mine.flags \subseteq {"SIZE", "CONCAT"}
      /\ \A i \in N + 1 .. N + 3 : mine.bytes[i] = 0
      /\ mine.bytes[N] <= N + times.mine /\ times.mine \in Nat
      /\ times.mine = 0 => mine.bytes = Zeros
  BY DEF DescMine, DescStates
<1> HIDE DEF c, k
\* What the number has to do with how often a description was set.
<1>0. /\ N \in Nat /\ N \in Desc!Bytes /\ times.mine \in Nat
      /\ mine.bytes[N] \in Nat /\ mine.bytes[N] <= N + times.mine
  BY <1>3, DescConstants
<1>4. /\ b \in [Desc!Bytes -> Nat] /\ b[N] = mine.bytes[N]
      /\ \A i \in N + 1 .. N + 3 : b[i] = 0
      /\ \A i \in 0 .. k - 1 : b[i] = d[i + 1] /\ b[i] # 0
  <2>1. N \in Desc!Bytes /\ \A i \in Desc!Bytes : i \in Nat
    BY DescConstants
  <2>2. ASSUME NEW i \in Desc!Bytes PROVE b[i] \in Nat
    <3>1. CASE i < k
      <4>1. i + 1 \in 1 .. k /\ b[i] = d[i + 1]
        BY <1>2, <2>1, <3>1 DEF k
      <4> QED BY <1>2, <4>1, DescConstants
    <3>2. CASE ~(i < k)
      BY <1>3, <3>2 DEF k
    <3> QED BY <3>1, <3>2
  <2>3. \A i \in Desc!Bytes : i >= N => b[i] = mine.bytes[i]
    BY <1>2, <2>1, DescConstants DEF k
  <2>4. \A i \in N + 1 .. N + 3 : i \in Desc!Bytes /\ i >= N
    BY DescConstants
  <2>5. ASSUME NEW i \in 0 .. k - 1 PROVE b[i] = d[i + 1] /\ b[i] # 0
    <3>1. i \in Desc!Bytes /\ i < k /\ i + 1 \in 1 .. k
      BY <1>2, DescConstants
    <3>2. b[i] = d[i + 1]
      BY <3>1 DEF k
    <3> QED BY <1>2, <3>1, <3>2, DescConstants
  <2>6. b[N] = mine.bytes[N]
    BY <2>1, <2>3, DescConstants
  <2> QED BY <1>3, <2>2, <2>3, <2>4, <2>5, <2>6
<1>5. times.mine = 0 => b[N] = 0 /\ \A i \in k .. N + 3 : b[i] = 0
  BY <1>2, <1>3, <1>4, DescConstants DEF k, Zeros
<1> HIDE DEF b
<1>6. CASE /\ c.fault = TRUE /\ c.bytes = b
           /\ \A i \in b[N] + 1 .. N + 3 : i # N => b[i] # 0
  <2>1. b[N] \in Nat /\ b[N] + 1 > N + 3
    <3>1. b[N] \in Nat
      BY <1>4, DescConstants
    <3>2. N + 3 \notin b[N] + 1 .. N + 3
      BY <1>4, <1>6, DescConstants
    <3> QED BY <3>1, <3>2, DescConstants
  <2>2. times.mine > 2
    <3>1. b[N] = mine.bytes[N]
      BY <1>4
    <3> QED BY <1>0, <2>1, <3>1
  <2>3. mine' \in DescStates /\ mine'.bytes = b /\ mine'.fault = TRUE
    <3>1. mine'.bytes = b /\ mine'.fault = TRUE /\ mine'.flags \subseteq {"SIZE", "CONCAT"}
      BY <1>1, <1>3, <1>6
    <3> QED BY <1>1, <1>4, <1>6, <3>1 DEF DescStates
  <2>4. /\ times'.mine \in Nat /\ times'.mine > 3 /\ mine'.bytes[N] <= N + times'.mine
        /\ told'.mine \in Seq(FieldLengths) /\ Len(told'.mine) <= N
    <3>1. mine'.bytes[N] = mine.bytes[N]
      BY <1>4, <2>3
    <3>2. mine.bytes[N] \in Nat
      BY <1>4, <2>1
    <3>3. told'.mine \in Seq(FieldLengths) /\ Len(told'.mine) <= N
      BY <1>2 DEF k
    <3>4. /\ times'.mine = times.mine + 1 /\ times'.mine \in Nat /\ times'.mine > 3
      BY <1>3, <2>2
    <3>5. mine'.bytes[N] <= N + times'.mine
      BY <1>3, <3>1, <3>2, <3>4, DescConstants
    <3> QED BY <3>3, <3>4, <3>5
  <2>5. mine' \in DescStates'
    BY <2>3 DEF DescStates
  <2> QED BY <1>4, <2>3, <2>4, <2>5 DEF DescMine
<1>7. CASE /\ c.fault = FALSE
           /\ \E n \in b[N] + 1 .. N + 3 :
                /\ n # N /\ b[n] = 0 /\ c.bytes = [b EXCEPT ![N] = n]
                /\ \A i \in b[N] + 1 .. N + 3 : i # N /\ b[i] = 0 => n <= i
  <2>1. PICK n \in b[N] + 1 .. N + 3 :
          /\ n # N /\ b[n] = 0 /\ c.bytes = [b EXCEPT ![N] = n]
          /\ \A i \in b[N] + 1 .. N + 3 : i # N /\ b[i] = 0 => n <= i
    BY <1>7
  <2>2. b[N] \in Nat /\ n \in Nat /\ n \in Desc!Bytes /\ N \in Desc!Bytes /\ n > b[N]
    BY <1>4, DescConstants
  <2>3. /\ mine' \in DescStates /\ mine'.fault = FALSE /\ mine'.bytes = c.bytes
        /\ mine'.bytes[N] = n
        /\ \A i \in Desc!Bytes \ {N} : mine'.bytes[i] = b[i]
    <3>1. c.bytes \in [Desc!Bytes -> Nat]
      BY <1>4, <2>1, <2>2
    <3>2. /\ mine'.bytes = c.bytes /\ mine'.fault = FALSE
          /\ mine'.flags \subseteq {"SIZE", "CONCAT"}
      BY <1>1, <1>3, <1>7
    <3>3. mine' \in DescStates
      BY <1>1, <1>7, <3>1, <3>2 DEF DescStates
    <3>4. c.bytes[N] = n /\ \A i \in Desc!Bytes \ {N} : c.bytes[i] = b[i]
      BY <1>4, <2>1, <2>2
    <3> QED BY <3>2, <3>3, <3>4
  <2>4. n <= N + times.mine + 1
    <3>1. CASE b[N] <= N
      <4>1. N + 1 \in b[N] + 1 .. N + 3
        BY <2>2, <3>1, DescConstants
      <4>2. n <= N + 1
        BY <1>4, <2>1, <4>1, DescConstants
      <4> QED BY <1>3, <2>2, <4>2, DescConstants
    <3>2. CASE b[N] > N
      <4>1. b[N] + 1 \in N + 1 .. N + 3 /\ b[N] + 1 \in b[N] + 1 .. N + 3 /\ b[N] + 1 # N
        BY <2>1, <2>2, <3>2, DescConstants
      <4>2. n <= b[N] + 1
        BY <1>4, <2>1, <4>1
      <4>3. b[N] = mine.bytes[N]
        BY <1>4
      <4> QED BY <1>0, <2>2, <4>2, <4>3
    <3> QED BY <2>2, <3>1, <3>2, DescConstants
  <2>5. k <= n
    <3>1. n \notin 0 .. k - 1
      BY <1>4, <2>1
    <3> QED BY <1>2, <2>2, <3>1
  <2>6. \A i \in 0 .. k - 1 : mine'.bytes[i] = d[i + 1]
    <3>1. \A i \in 0 .. k - 1 : i \in Desc!Bytes \ {N}
      BY <1>2, DescConstants
    <3> QED BY <1>4, <2>3, <3>1
  <2>7. \A i \in N + 1 .. N + 3 : mine'.bytes[i] = 0
    <3>1. \A i \in N + 1 .. N + 3 : i \in Desc!Bytes \ {N}
      BY DescConstants
    <3> QED BY <1>4, <2>3, <3>1
  <2>8. ASSUME times.mine = 0 PROVE Desc!Fields(mine') = d
    <3>1. k < N => n <= k
      <4>1. k < N => k \in b[N] + 1 .. N + 3 /\ k # N /\ b[k] = 0
        BY <1>2, <1>5, <2>8, DescConstants
      <4> QED BY <2>1, <4>1
    <3>2. (IF n < N THEN n ELSE N) = k
      BY <1>2, <2>1, <2>2, <2>5, <3>1, DescConstants
    <3>3. /\ Desc!Fields(mine') \in Seq(Nat) /\ Len(Desc!Fields(mine')) = k
          /\ \A i \in 1 .. k : Desc!Fields(mine')[i] = mine'.bytes[i - 1]
      BY <2>3, <3>2, FieldsAre
    <3>4. \A i \in 1 .. k : Desc!Fields(mine')[i] = d[i]
      <4> SUFFICES ASSUME NEW i \in 1 .. k PROVE Desc!Fields(mine')[i] = d[i]
        OBVIOUS
      <4>1. i - 1 \in 0 .. k - 1 /\ (i - 1) + 1 = i
        BY <1>2
      <4> QED BY <2>6, <3>3, <4>1
    <3> QED BY <1>2, <3>3, <3>4 DEF k
  <2>9. /\ times'.mine = times.mine + 1 /\ times'.mine \in Nat /\ times'.mine > 0
        /\ times'.mine = 1 => times.mine = 0
    BY <1>3
  <2>10. /\ told'.mine \in Seq(FieldLengths) /\ Len(told'.mine) <= N
         /\ Len(told'.mine) <= mine'.bytes[N]
         /\ \A i \in 0 .. Len(told'.mine) - 1 : mine'.bytes[i] = told'.mine[i + 1]
    BY <1>2, <2>3, <2>5, <2>6, DescConstants DEF k
  <2>11. mine'.bytes[N] <= N + times'.mine
    BY <1>3, <2>2, <2>3, <2>4, <2>9, DescConstants
  <2>12. times'.mine = 1 => Desc!Fields(mine)' = told'.mine
    BY <2>8, <2>9 DEF Desc!Fields, Desc!Count
  <2>13. mine' \in DescStates'
    BY <2>3 DEF DescStates
  <2> QED BY <2>3, <2>13, <2>7, <2>9, <2>10, <2>11, <2>12 DEF DescMine
<1> QED BY <1>4, <1>6, <1>7, CountsOn DEF c

\* Reading: how the function of AddFields begins, and goes on.
AddSteps(f, s, lens) ==
  /\ DOMAIN f = 0 .. Len(lens)
  /\ f[0] = s
  /\ \A i \in 1 .. Len(lens) : f[i] = Desc!AddField(f[i - 1], lens[i])

AddsUp(f, s, lens) ==
  f = [i \in 0 .. Len(lens) |->
         IF i = 0 THEN s ELSE Desc!AddField(f[i - 1], lens[i])]

LEMMA AddStepsExist ==
  ASSUME NEW s, NEW lens \in Seq(Nat)
  PROVE  \E f : AddsUp(f, s, lens)
<1> DEFINE Steps(f, n) == f = [i \in 0 .. n |->
                                IF i = 0 THEN s ELSE Desc!AddField(f[i - 1], lens[i])]
           T == {n \in Nat : \E f : Steps(f, n)}
<1>1. 0 \in T
  <2>1. Steps([i \in 0 .. 0 |-> s], 0)
    OBVIOUS
  <2> QED BY <2>1
<1>2. ASSUME NEW n \in Nat, n \in T PROVE n + 1 \in T
  <2>1. PICK f : Steps(f, n)
    BY <1>2
  <2> DEFINE g == [i \in 0 .. n + 1 |->
                     IF i = n + 1 THEN Desc!AddField(f[n], lens[n + 1]) ELSE f[i]]
  <2>2. ASSUME NEW i \in 0 .. n + 1
        PROVE  g[i] = IF i = 0 THEN s ELSE Desc!AddField(g[i - 1], lens[i])
    <3>1. CASE i = n + 1
      <4>1. i # 0 /\ i - 1 = n /\ n \in 0 .. n + 1 /\ n # n + 1
        BY <3>1
      <4>2. g[n] = f[n]
        BY <4>1
      <4>3. g[i] = Desc!AddField(f[n], lens[i])
        BY <3>1
      <4> HIDE DEF g
      <4> QED BY <4>1, <4>2, <4>3
    <3>2. CASE i # n + 1
      <4>1. i \in 0 .. n /\ g[i] = f[i]
        BY <3>2
      <4>2. f[i] = IF i = 0 THEN s ELSE Desc!AddField(f[i - 1], lens[i])
        BY <2>1, <4>1
      <4>3. i # 0 => g[i - 1] = f[i - 1]
        BY <4>1
      <4> HIDE DEF g
      <4> QED BY <4>1, <4>2, <4>3
    <3> QED BY <3>1, <3>2
  <2>3. Steps(g, n + 1)
    <3>1. g = [i \in 0 .. n + 1 |-> g[i]]
      OBVIOUS
    <3> HIDE DEF g
    <3> QED BY <2>2, <3>1
  <2> HIDE DEF Steps
  <2> QED BY <2>3
<1>3. Nat \subseteq T
  <2> HIDE DEF T
  <2> QED BY <1>1, <1>2, SetInduction
<1>4. Len(lens) \in T
  <2> HIDE DEF T
  <2> QED BY <1>3
<1>5. \E f : Steps(f, Len(lens))
  BY <1>4
<1> QED BY <1>5 DEF AddsUp

LEMMA AddFieldsSteps ==
  ASSUME NEW s, NEW lens \in Seq(Nat)
  PROVE  \E f : AddSteps(f, s, lens) /\ Desc!AddFields(s, lens) = f[Len(lens)]
<1> DEFINE after[i \in 0 .. Len(lens)] ==
             IF i = 0 THEN s ELSE Desc!AddField(after[i - 1], lens[i])
<1>1. Desc!AddFields(s, lens) = after[Len(lens)]
  BY DEF Desc!AddFields
<1>2. after = [i \in 0 .. Len(lens) |->
                 IF i = 0 THEN s ELSE Desc!AddField(after[i - 1], lens[i])]
  <2>1. \E f : f = [i \in 0 .. Len(lens) |->
                     IF i = 0 THEN s ELSE Desc!AddField(f[i - 1], lens[i])]
    <3>1. \E f : AddsUp(f, s, lens)
      BY AddStepsExist
    <3> QED BY <3>1 DEF AddsUp
  <2> QED BY <2>1
<1> HIDE DEF after
<1>3. Len(lens) \in Nat
  OBVIOUS
<1>4. AddSteps(after, s, lens)
  BY <1>2, <1>3 DEF AddSteps
<1> QED BY <1>1, <1>4

\* A length that is added: the number goes on by one, if it is in the description.
Added(r, s, len) ==
  /\ r \in DescStates /\ r.flags = s.flags
  /\ s.fault = FALSE /\ s.bytes[N] < N =>
       /\ r.fault = FALSE /\ r.bytes[N] = s.bytes[N] + 1
       /\ \A i \in 0 .. N - 1 :
            r.bytes[i] = IF i = s.bytes[N] THEN len ELSE s.bytes[i]

LEMMA AddsOne ==
  ASSUME NEW s \in DescStates, NEW len \in Nat
  PROVE  Added(Desc!AddField(s, len), s, len)
<1> SUFFICES ASSUME NEW r, r = Desc!AddField(s, len) PROVE Added(r, s, len)
  OBVIOUS
<1> USE DEF Added
<1> DEFINE at == s.bytes[N]
           wrote == [s.bytes EXCEPT ![at] = len]
<1>1. /\ s.bytes \in [Desc!Bytes -> Nat] /\ N \in Desc!Bytes /\ at \in Nat
      /\ s.flags \subseteq {"SIZE", "CONCAT"} /\ s.fault \in BOOLEAN
      /\ s = [bytes |-> s.bytes, flags |-> s.flags, fault |-> s.fault]
  BY DescConstants DEF DescStates
<1>2. r = IF s.fault \/ at \notin Desc!Bytes THEN [s EXCEPT !.fault = TRUE]
          ELSE [s EXCEPT !.bytes = [wrote EXCEPT ![N] = wrote[N] + 1]]
  BY DescConstants DEF Desc!AddField, Desc!Fault
<1>3. CASE s.fault \/ at \notin Desc!Bytes
  <2>1. r = [bytes |-> s.bytes, flags |-> s.flags, fault |-> TRUE]
    BY <1>1, <1>2, <1>3
  <2>2. ~(s.fault = FALSE /\ at < N)
    BY <1>1, <1>3, DescConstants
  <2> QED BY <1>1, <2>1, <2>2 DEF DescStates
<1>4. CASE ~(s.fault \/ at \notin Desc!Bytes)
  <2>1. wrote \in [Desc!Bytes -> Nat] /\ wrote[N] \in Nat
    BY <1>1
  <2> DEFINE b == [wrote EXCEPT ![N] = wrote[N] + 1]
  <2>2. b \in [Desc!Bytes -> Nat]
    <3> HIDE DEF wrote
    <3> QED BY <1>1, <2>1
  <2>3. r = [bytes |-> b, flags |-> s.flags, fault |-> s.fault]
    BY <1>1, <1>2, <1>4
  <2>4. b[N] = wrote[N] + 1 /\ \A i \in Desc!Bytes \ {N} : b[i] = wrote[i]
    <3> HIDE DEF wrote
    <3> QED BY <1>1, <2>1
  <2>5. \A i \in Desc!Bytes : wrote[i] = IF i = at THEN len ELSE s.bytes[i]
    BY <1>1
  <2>6. r.bytes = b /\ r.flags = s.flags /\ r.fault = s.fault /\ r \in DescStates
    <3> HIDE DEF b
    <3> QED BY <1>1, <2>2, <2>3 DEF DescStates
  <2>7. \A i \in 0 .. N - 1 : i \in Desc!Bytes \ {N}
    BY DescConstants
  <2>8. at < N => wrote[N] = at
    BY <1>1, <2>5, DescConstants
  <2> HIDE DEF b, wrote
  <2> QED BY <2>4, <2>5, <2>6, <2>7, <2>8
<1> QED BY <1>3, <1>4

\* Lengths that are read into a set that has none are its fields.
LEMMA AddsAll ==
  ASSUME NEW s \in DescStates, NEW lens \in Seq(Nat), NEW r, r = Desc!AddFields(s, lens)
  PROVE  /\ r \in DescStates /\ r.flags = s.flags
         /\ s.bytes = Zeros /\ ~s.fault /\ Len(lens) <= N =>
              ~r.fault /\ Desc!Fields(r) = lens
<1>1. PICK f : AddSteps(f, s, lens) /\ r = f[Len(lens)]
  BY AddFieldsSteps
<1>2. Len(lens) \in Nat /\ \A i \in 1 .. Len(lens) : lens[i] \in Nat
  OBVIOUS
<1>3. /\ f[0] = s
      /\ \A i \in 1 .. Len(lens) : f[i] = Desc!AddField(f[i - 1], lens[i])
  BY <1>1 DEF AddSteps
<1>4. r \in DescStates /\ r.flags = s.flags
  <2> DEFINE T == {n \in Nat : n <= Len(lens) => f[n] \in DescStates /\ f[n].flags = s.flags}
  <2>1. 0 \in T
    BY <1>3
  <2>2. ASSUME NEW n \in Nat, n \in T PROVE n + 1 \in T
    <3> SUFFICES ASSUME n + 1 <= Len(lens)
                 PROVE  f[n + 1] \in DescStates /\ f[n + 1].flags = s.flags
      BY <1>2
    <3>1. n + 1 \in 1 .. Len(lens) /\ (n + 1) - 1 = n
      BY <1>2
    <3>2. f[n + 1] = Desc!AddField(f[n], lens[n + 1]) /\ lens[n + 1] \in Nat
      BY <1>2, <1>3, <3>1
    <3>3. f[n] \in DescStates /\ f[n].flags = s.flags
      BY <1>2, <2>2
    <3>4. Added(f[n + 1], f[n], lens[n + 1])
      BY <3>2, <3>3, AddsOne
    <3> QED BY <3>3, <3>4 DEF Added
  <2>3. Nat \subseteq T
    <3> HIDE DEF T
    <3> QED BY <2>1, <2>2, SetInduction
  <2> QED BY <1>1, <1>2, <2>3
<1>5. ASSUME s.bytes = Zeros, ~s.fault, Len(lens) <= N
      PROVE  ~r.fault /\ Desc!Fields(r) = lens
  <2> DEFINE Read(n) == /\ f[n] \in DescStates /\ f[n].fault = FALSE /\ f[n].bytes[N] = n
                        /\ \A i \in 0 .. n - 1 : f[n].bytes[i] = lens[i + 1]
             T == {n \in Nat : n <= Len(lens) => Read(n)}
  <2>1. 0 \in T
    <3>1. s.fault = FALSE /\ s.bytes[N] = 0
      BY <1>5, DescConstants DEF Zeros, DescStates
    <3> QED BY <1>3, <3>1
  <2>2. ASSUME NEW n \in Nat, n \in T PROVE n + 1 \in T
    <3> SUFFICES ASSUME n + 1 <= Len(lens) PROVE Read(n + 1)
      <4> HIDE DEF Read
      <4> QED OBVIOUS
    <3>1. n + 1 \in 1 .. Len(lens) /\ (n + 1) - 1 = n /\ n < N /\ n <= Len(lens)
      BY <1>2, <1>5, DescConstants
    <3>2. f[n + 1] = Desc!AddField(f[n], lens[n + 1]) /\ lens[n + 1] \in Nat
      BY <1>2, <1>3, <3>1
    <3>3. Read(n)
      BY <2>2, <3>1
    <3>4. /\ f[n + 1] \in DescStates /\ f[n + 1].fault = FALSE /\ f[n + 1].bytes[N] = n + 1
          /\ \A i \in 0 .. N - 1 :
               f[n + 1].bytes[i] = IF i = n THEN lens[n + 1] ELSE f[n].bytes[i]
      <4> DEFINE q == f[n]
                 w == f[n + 1]
      <4>1. q \in DescStates /\ q.fault = FALSE /\ q.bytes[N] = n
        BY <3>3
      <4>2. w = Desc!AddField(q, lens[n + 1])
        BY <3>2
      <4> HIDE DEF q, w
      <4>3. /\ w \in DescStates /\ w.fault = FALSE /\ w.bytes[N] = n + 1
            /\ \A i \in 0 .. N - 1 : w.bytes[i] = IF i = n THEN lens[n + 1] ELSE q.bytes[i]
        <5>1. Added(w, q, lens[n + 1])
          BY <3>2, <4>1, <4>2, AddsOne
        <5> QED BY <3>1, <4>1, <5>1 DEF Added
      <4> QED BY <4>3 DEF q, w
    <3>5. ASSUME NEW i \in 0 .. n PROVE f[n + 1].bytes[i] = lens[i + 1]
      <4>1. i \in 0 .. N - 1 /\ (i # n => i \in 0 .. n - 1)
        BY <3>1, DescConstants
      <4> QED BY <3>3, <3>4, <4>1
    <3>6. (n + 1) - 1 = n
      OBVIOUS
    <3> QED BY <3>4, <3>5, <3>6
  <2>3. Nat \subseteq T
    <3> HIDE DEF T
    <3> QED BY <2>1, <2>2, SetInduction
  <2>4. Read(Len(lens))
    BY <1>2, <2>3
  <2>5. /\ r \in DescStates /\ r.fault = FALSE /\ r.bytes[N] = Len(lens)
        /\ \A i \in 0 .. Len(lens) - 1 : r.bytes[i] = lens[i + 1]
    BY <1>1, <2>4
  <2>6. /\ Desc!Fields(r) \in Seq(Nat) /\ Len(Desc!Fields(r)) = Len(lens)
        /\ \A i \in 1 .. Len(lens) : Desc!Fields(r)[i] = r.bytes[i - 1]
    <3>1. (IF r.bytes[N] < N THEN r.bytes[N] ELSE N) = Len(lens)
      BY <1>2, <1>5, <2>5, DescConstants
    <3> QED BY <2>5, <3>1, FieldsAre
  <2>7. ASSUME NEW i \in 1 .. Len(lens) PROVE Desc!Fields(r)[i] = lens[i]
    <3>1. i - 1 \in 0 .. Len(lens) - 1 /\ (i - 1) + 1 = i
      BY <1>2
    <3> QED BY <2>5, <2>6, <3>1
  <2>8. Desc!Fields(r) = lens
    BY <2>6, <2>7, SeqEqual
  <2> QED BY <2>5, <2>8
<1> QED BY <1>4, <1>5

\* A message is read into the other set.
LEMMA ReadsDesc ==
  ASSUME DescInv, Desc!parse
  PROVE  DescInv'
<1> DEFINE given == [theirs EXCEPT !.flags = theirs.flags \cup mine.flags]
           sends == Desc!Fields(mine)
<1>1. /\ mine \in DescStates /\ theirs \in DescStates /\ mine' = mine
      /\ times.theirs \in Nat
  BY DEF DescInv, DescMine, DescTheirs, Desc!parse
<1>2. /\ given \in DescStates /\ given.bytes = theirs.bytes /\ given.fault = theirs.fault
  BY <1>1 DEF DescStates
<1>3. sends \in Seq(Nat) /\ Len(sends) <= N
  <2>1. sends \in Seq(Nat) /\ Len(sends) = IF mine.bytes[N] < N THEN mine.bytes[N] ELSE N
    BY <1>1, FieldsAre
  <2>2. mine.bytes[N] \in Nat
    BY <1>1, DescConstants DEF DescStates
  <2> QED BY <2>1, <2>2, DescConstants
<1>4. CASE Desc!HasConcat(mine)
  <2>1. /\ theirs' = Desc!AddFields(given, sends) /\ ~theirs.fault
        /\ told' = [told EXCEPT !.theirs = sends]
        /\ times' = [times EXCEPT !.theirs = times.theirs + 1]
    BY <1>4 DEF Desc!parse
  <2>2. /\ told' = [mine |-> told.mine, theirs |-> sends]
        /\ times' = [mine |-> times.mine, theirs |-> times.theirs + 1]
    BY <2>1 DEF DescInv
  <2> HIDE DEF given, sends
  <2>3. /\ theirs' \in DescStates
        /\ theirs.bytes = Zeros => ~theirs'.fault /\ Desc!Fields(theirs') = sends
    BY <1>2, <1>3, <2>1, AddsAll
  <2>4. /\ times'.theirs = times.theirs + 1 /\ times'.theirs \in Nat
        /\ times'.theirs < 2 => times.theirs = 0
    BY <1>1, <2>2
  <2>5. DescTheirs'
    <3>1. Desc!Fields(theirs)' = Desc!Fields(theirs')
      BY DEF Desc!Fields, Desc!Count
    <3>2. theirs' \in DescStates'
      BY <2>3 DEF DescStates
    <3>3. times.theirs = 0 => theirs.bytes = Zeros
      BY DEF DescInv, DescTheirs
    <3> QED BY <2>2, <2>3, <2>4, <3>1, <3>2, <3>3 DEF DescTheirs
  <2>6. DescMine'
    BY <1>1, <2>2 DEF DescInv, DescMine, DescStates, Zeros, Desc!Fields
  <2> QED BY <2>2, <2>5, <2>6 DEF DescInv
<1>5. CASE ~Desc!HasConcat(mine)
  <2>1. theirs' = given /\ told' = told /\ times' = times
    BY <1>5 DEF Desc!parse
  <2>2. DescTheirs'
    BY <1>2, <2>1 DEF DescInv, DescTheirs, DescStates, Zeros, Desc!Fields
  <2>3. DescMine'
    BY <1>1, <2>1 DEF DescInv, DescMine, DescStates, Zeros, Desc!Fields
  <2> QED BY <2>1, <2>2, <2>3 DEF DescInv
<1> QED BY <1>4, <1>5

\* Another set, or other bits of flags.
LEMMA DescMineFresh ==
  ASSUME mine = Desc!Fresh, told.mine = <<>>, times.mine = 0
  PROVE  DescMine
<1>1. mine \in DescStates /\ mine.bytes = Zeros /\ mine.flags = {} /\ mine.fault = FALSE
  BY DEF DescStates, Zeros, Desc!Fresh
<1>2. /\ N \in Desc!Bytes /\ Zeros[N] = 0 /\ 0 <= N /\ N \in Nat
      /\ \A i \in N + 1 .. N + 3 : Zeros[i] = 0
  BY DescConstants DEF Zeros
<1>3. <<>> \in Seq(FieldLengths) /\ Len(<<>>) = 0
  BY EmptySeq
<1> QED BY <1>1, <1>2, <1>3 DEF DescMine

LEMMA DescTheirsFresh ==
  ASSUME theirs = Desc!Fresh, times.theirs = 0
  PROVE  DescTheirs
BY DEF DescTheirs, DescStates, Zeros, Desc!Fresh

LEMMA DescBegin ==
  ASSUME mine = Desc!Fresh, theirs = Desc!Fresh,
         told = [mine |-> <<>>, theirs |-> <<>>], times = [mine |-> 0, theirs |-> 0]
  PROVE  DescInv
BY DescMineFresh, DescTheirsFresh DEF DescInv

LEMMA DescFlags ==
  ASSUME DescInv, NEW F \in SUBSET {"SIZE", "CONCAT"},
         "CONCAT" \in F => "CONCAT" \in mine.flags,
         mine' = [mine EXCEPT !.flags = F], UNCHANGED <<theirs, told, times>>
  PROVE  DescInv'
<1>1. mine \in DescStates
  BY DEF DescInv, DescMine
<1>2. /\ mine' \in DescStates /\ mine'.bytes = mine.bytes /\ mine'.fault = mine.fault
      /\ mine'.flags = F
  BY <1>1 DEF DescStates
<1>3. Desc!Fields(mine)' = Desc!Fields(mine)
  BY <1>2 DEF Desc!Fields, Desc!Count
<1>4. DescMine'
  BY <1>2, <1>3 DEF DescInv, DescMine, DescStates, Zeros
<1>5. DescTheirs'
  BY DEF DescInv, DescTheirs, DescStates, Zeros, Desc!Fields
<1> QED BY <1>4, <1>5 DEF DescInv

\* Every call on either set.
LEMMA DescStep ==
  ASSUME DescInv, Desc!Next
  PROVE  DescInv'
<1>1. ASSUME NEW d \in Desc!Data, Desc!set_concat(d) PROVE DescInv'
  <2>1. /\ mine' = Desc!SetConcat(mine, d) /\ ~mine.fault /\ theirs' = theirs
        /\ told' = [told EXCEPT !.mine = d]
        /\ times' = [times EXCEPT !.mine = times.mine + 1]
    BY <1>1 DEF Desc!set_concat
  <2>2. /\ told' = [mine |-> d, theirs |-> told.theirs]
        /\ times' = [mine |-> times.mine + 1, theirs |-> times.theirs]
    BY <2>1 DEF DescInv
  <2>3. DescMine'
    BY <2>1, <2>2, SetsDesc DEF DescInv
  <2>4. DescTheirs'
    BY <2>1, <2>2 DEF DescInv, DescTheirs, DescStates, Zeros, Desc!Fields
  <2> QED BY <2>2, <2>3, <2>4 DEF DescInv
<1>2. ASSUME Desc!set_size PROVE DescInv'
  <2>1. mine.flags \cup {"SIZE"} \in SUBSET {"SIZE", "CONCAT"}
    BY DEF DescInv, DescMine, DescStates
  <2> QED BY <1>2, <2>1, DescFlags DEF Desc!set_size
<1>3. ASSUME NEW a, Desc!unset(a) PROVE DescInv'
  <2>1. mine.flags \ {a} \in SUBSET {"SIZE", "CONCAT"}
    BY DEF DescInv, DescMine, DescStates
  <2> QED BY <1>3, <2>1, DescFlags DEF Desc!unset
<1>4. ASSUME Desc!renew PROVE DescInv'
  <2>1. /\ told' = [mine |-> <<>>, theirs |-> told.theirs]
        /\ times' = [mine |-> 0, theirs |-> times.theirs]
        /\ mine' = Desc!Fresh /\ theirs' = theirs
    BY <1>4 DEF Desc!renew, DescInv
  <2>2. (mine = Desc!Fresh /\ told.mine = <<>> /\ times.mine = 0)' => DescMine'
    BY DescMineFresh, PTL
  <2>3. DescMine'
    BY <2>1, <2>2 DEF Desc!Fresh
  <2>4. DescTheirs'
    BY <2>1 DEF DescInv, DescTheirs, DescStates, Zeros, Desc!Fields
  <2> QED BY <2>1, <2>3, <2>4 DEF DescInv
<1>5. ASSUME Desc!renew_reader PROVE DescInv'
  <2>1. /\ told' = [mine |-> told.mine, theirs |-> <<>>]
        /\ times' = [mine |-> times.mine, theirs |-> 0]
        /\ theirs' = Desc!Fresh /\ mine' = mine
    BY <1>5 DEF Desc!renew_reader, DescInv
  <2>2. (theirs = Desc!Fresh /\ times.theirs = 0)' => DescTheirs'
    BY DescTheirsFresh, PTL
  <2>3. DescTheirs'
    BY <2>1, <2>2 DEF Desc!Fresh
  <2>4. DescMine'
    BY <2>1 DEF DescInv, DescMine, DescStates, Zeros, Desc!Fields
  <2> QED BY <2>1, <2>3, <2>4 DEF DescInv
<1> QED BY <1>1, <1>2, <1>3, <1>4, <1>5, ReadsDesc DEF Desc!Next

\* What follows from the invariant of descriptions.
LEMMA DescFacts ==
  DescInv => Desc!TypeOK /\ Desc!OnceExact /\ Desc!AgainStarts /\ Desc!NoFault
<1> SUFFICES ASSUME DescInv
             PROVE  Desc!TypeOK /\ Desc!OnceExact /\ Desc!AgainStarts /\ Desc!NoFault
  OBVIOUS
<1>1. /\ DescMine /\ DescTheirs /\ mine \in DescStates /\ theirs \in DescStates
      /\ mine.bytes[N] \in Nat
  BY DescConstants DEF DescInv, DescMine, DescTheirs, DescStates
<1>2. /\ Desc!Fields(mine) \in Seq(Nat)
      /\ Len(Desc!Fields(mine)) = IF mine.bytes[N] < N THEN mine.bytes[N] ELSE N
      /\ \A i \in 1 .. Len(Desc!Fields(mine)) : Desc!Fields(mine)[i] = mine.bytes[i - 1]
  BY <1>1, FieldsAre
<1>3. Desc!TypeOK
  <2>1. Len(Desc!Fields(mine)) <= N /\ 0 \notin DOMAIN Desc!Fields(mine)
    BY <1>1, <1>2, DescConstants
  <2> QED BY <1>1, <2>1 DEF Desc!TypeOK, DescStates
<1>4. Desc!NoFault
  <2>1. times.mine \in Nat /\ times.theirs \in Nat
    BY <1>1 DEF DescMine, DescTheirs
  <2> QED BY <1>1, <2>1, DescConstants DEF Desc!NoFault, DescMine, DescTheirs
<1>5. Desc!OnceExact
  BY <1>1 DEF Desc!OnceExact, DescMine, DescTheirs
<1>6. ASSUME "CONCAT" \in mine.flags, ~mine.fault
      PROVE  IsPrefix(told.mine, Desc!Fields(mine))
  <2> DEFINE d == told.mine
             F == Desc!Fields(mine)
             k == Len(d)
  <2>1. /\ d \in Seq(FieldLengths) /\ k <= N /\ k <= mine.bytes[N]
        /\ \A i \in 0 .. k - 1 : mine.bytes[i] = d[i + 1]
    <3>1. times.mine > 0
      BY <1>1, <1>6 DEF DescMine
    <3> QED BY <1>1, <1>6, <3>1 DEF DescMine
  <2>2. k \in Nat /\ d \in Seq(Nat) /\ F \in Seq(Nat) /\ k <= Len(F)
    <3>1. k \in Nat /\ \A i \in 1 .. k : d[i] \in FieldLengths
      BY <2>1
    <3>2. FieldLengths \subseteq Nat
      BY DescConstants
    <3>3. d \in [1 .. k -> Nat]
      <4>1. d \in [1 .. k -> FieldLengths]
        BY <2>1
      <4> HIDE DEF d, k
      <4> QED BY <3>2, <4>1
    <3>4. d \in Seq(Nat)
      BY <3>1, <3>3
    <3>5. k <= Len(F)
      BY <1>1, <1>2, <2>1, <3>1, DescConstants
    <3> QED BY <1>2, <3>1, <3>4, <3>5
  <2>3. ASSUME NEW i \in 1 .. k PROVE d[i] = F[i]
    <3>1. i \in 1 .. Len(F) /\ i - 1 \in 0 .. k - 1 /\ (i - 1) + 1 = i
      BY <2>2
    <3> QED BY <1>2, <2>1, <3>1
  <2> HIDE DEF d, F
  <2>4. /\ SubSeq(d, 1, k) \in Seq(Nat) /\ Len(SubSeq(d, 1, k)) = k
        /\ \A i \in 1 .. k : SubSeq(d, 1, k)[i] = d[i]
    <3>1. 1 \in 1 .. Len(d) + 1 /\ k \in 1 - 1 .. Len(d) /\ k - 1 + 1 = k
      BY <2>2
    <3>2. \A i \in 1 .. k : 1 + i - 1 = i
      BY <2>2
    <3> QED BY <2>2, <3>1, <3>2, Part
  <2>5. /\ SubSeq(F, 1, k) \in Seq(Nat) /\ Len(SubSeq(F, 1, k)) = k
        /\ \A i \in 1 .. k : SubSeq(F, 1, k)[i] = F[i]
    <3>1. 1 \in 1 .. Len(F) + 1 /\ k \in 1 - 1 .. Len(F) /\ k - 1 + 1 = k
      BY <2>2
    <3>2. \A i \in 1 .. k : 1 + i - 1 = i
      BY <2>2
    <3> QED BY <2>2, <3>1, <3>2, Part
  <2>6. SubSeq(d, 1, k) = SubSeq(F, 1, k)
    BY <2>3, <2>4, <2>5
  <2>7. IsPrefix(d, F)
    BY <2>2, <2>6 DEF IsPrefix
  <2> QED BY <2>7 DEF d, F
<1>7. Desc!AgainStarts
  BY <1>6 DEF Desc!AgainStarts, Desc!IsPrefix, IsPrefix
<1> QED BY <1>3, <1>4, <1>5, <1>7

-----------------------------------------------------------------------------
(* Traces *)

Marks       == Event!Numbers \cup Event!Heads \cup Event!Owned \cup {"VERDICT"}
TraceStates == [flags : SUBSET Marks, val : [Event!Numbers \cup Event!Heads -> Nat],
                verdict : {"none", "ACCEPT", "JUMP"}, ptr : [Event!Owned -> Nat]]
Events      == [attrs : SUBSET Given, verdict : {"none", "ACCEPT", "JUMP"},
                fails : SUBSET Event!Owned, n : Nat]
Parsers     == [t : TraceStates, heap : SUBSET (Event!Owned \X Nat), result : {"ok", "fail"}]

\* A message that the kernel may send.
Sane(m) ==
  /\ m \in Events
  /\ "VERDICT" \in m.attrs <=> m.verdict # "none"
  /\ m.fails \subseteq Event!Blocks(m.attrs, m.verdict)

TraceInv ==
  /\ t \in TraceStates /\ reads \in 0 .. MaxReads
  /\ \A a \in Event!Numbers \cup Event!Heads : t.val[a] <= reads
  /\ heap \subseteq Event!Owned \X (1 .. reads)
  /\ \A a \in Event!Owned : t.ptr[a] # 0 => <<a, t.ptr[a]>> \in heap
  /\ said.failed \in SUBSET Event!Owned /\ said.last \in [Event!Owned -> 0 .. reads]
  /\ result \in {"none", "ok", "fail", "freed", "exit", "wild"}
  /\ reads = 0 => t = Event!New /\ result \notin {"ok", "fail"}
  /\ Event!Exact /\ Event!TargetIsOfVerdict /\ Event!NoFault
  /\ Event!MarkedIsThere /\ Event!LeaksOnly

LEMMA TraceConstants ==
  /\ Given \subseteq {"TABLE", "CHAIN", "VERDICT"} \cup Event!Headers \cup Event!Numbers
  /\ MaxReads \in Nat /\ MaxReads > 0
BY PartsAssumption DEF Event!TraceAssumption

\* The number of a block, and what is marked, are what the message says.
Numbered(q, r, a, m) ==
  /\ q \in Parsers
  /\ q.t.flags = r.t.flags \cup {a} /\ q.t.val = [r.t.val EXCEPT ![a] = m.n]
  /\ q.t.verdict = r.t.verdict /\ q.t.ptr = r.t.ptr
  /\ q.heap = r.heap /\ q.result = r.result
Lacks(q, r, a, how) ==
  /\ q \in Parsers
  /\ q.t.flags = r.t.flags /\ q.t.val = r.t.val /\ q.t.verdict = r.t.verdict
  /\ q.t.ptr = [r.t.ptr EXCEPT ![a] = 0]
  /\ q.heap = r.heap /\ q.result = how
Gets(q, r, a, m) ==
  /\ q \in Parsers
  /\ q.t.flags = r.t.flags \cup {a} /\ q.t.val = r.t.val /\ q.t.verdict = r.t.verdict
  /\ q.t.ptr = [r.t.ptr EXCEPT ![a] = m.n]
  /\ q.heap = r.heap \cup {<<a, m.n>>} /\ q.result = r.result
Judged(q, r, m) ==
  /\ q \in Parsers
  /\ q.t.flags = r.t.flags \cup {"VERDICT"} /\ q.t.val = r.t.val
  /\ q.t.verdict = m.verdict /\ q.t.ptr = r.t.ptr
  /\ q.heap = r.heap /\ q.result = r.result

LEMMA Marked ==
  ASSUME NEW r \in Parsers, NEW a \in Marks, NEW q, q = Event!Mark(r, a)
  PROVE  /\ q \in Parsers
         /\ q.t.flags = r.t.flags \cup {a} /\ q.t.val = r.t.val
         /\ q.t.verdict = r.t.verdict /\ q.t.ptr = r.t.ptr
         /\ q.heap = r.heap /\ q.result = r.result
<1>1. q = [t |-> [flags |-> r.t.flags \cup {a}, val |-> r.t.val, verdict |-> r.t.verdict,
                  ptr |-> r.t.ptr],
           heap |-> r.heap, result |-> r.result]
  BY DEF Event!Mark, Parsers, TraceStates
<1>2. [flags |-> r.t.flags \cup {a}, val |-> r.t.val, verdict |-> r.t.verdict,
       ptr |-> r.t.ptr] \in TraceStates
  BY DEF Parsers, TraceStates
<1> QED BY <1>1, <1>2 DEF Parsers

LEMMA NumberIs ==
  ASSUME NEW r \in Parsers, NEW m \in Events, NEW a \in Event!Numbers \cup Event!Heads
  PROVE  Numbered(Event!Number(r, a, m), r, a, m)
<1> DEFINE p == [r EXCEPT !.t.val[a] = m.n]
           s == [flags |-> r.t.flags, val |-> [r.t.val EXCEPT ![a] = m.n],
                 verdict |-> r.t.verdict, ptr |-> r.t.ptr]
<1>1. p = [t |-> s, heap |-> r.heap, result |-> r.result]
  BY DEF Parsers, TraceStates
<1>2. m.n \in Nat /\ a \in Marks
  BY DEF Events, Marks
<1>3. s \in TraceStates /\ s.flags = r.t.flags /\ s.val = [r.t.val EXCEPT ![a] = m.n]
      /\ s.verdict = r.t.verdict /\ s.ptr = r.t.ptr
  BY <1>2 DEF Parsers, TraceStates
<1> HIDE DEF s
<1>4. p \in Parsers /\ p.t = s /\ p.heap = r.heap /\ p.result = r.result
  BY <1>1, <1>3 DEF Parsers
<1>5. Event!Number(r, a, m) = Event!Mark(p, a)
  BY DEF Event!Number
<1> HIDE DEF p
<1> QED BY <1>2, <1>3, <1>4, <1>5, Marked DEF Numbered

LEMMA BlockIs ==
  ASSUME NEW r \in Parsers, NEW m \in Events, NEW a \in Event!Owned
  PROVE  /\ a \in m.fails => Lacks(Event!Block(r, a, m), r, a, r.result)
         /\ a \notin m.fails =>
              /\ Gets(Event!Mark(Event!Block(r, a, m), a), r, a, m)
<1>1. m.n \in Nat /\ a \in Marks
  BY DEF Events, Marks
<1>2. CASE a \in m.fails
  <2> DEFINE s == [flags |-> r.t.flags, val |-> r.t.val, verdict |-> r.t.verdict,
                   ptr |-> [r.t.ptr EXCEPT ![a] = 0]]
             p == Event!Block(r, a, m)
  <2>1. p = [t |-> s, heap |-> r.heap, result |-> r.result]
    BY <1>2 DEF Event!Block, Parsers, TraceStates
  <2>2. s \in TraceStates
    BY DEF Parsers, TraceStates
  <2> HIDE DEF p
  <2>3. Lacks(p, r, a, r.result)
    BY <2>1, <2>2 DEF Lacks, Parsers
  <2> QED BY <1>2, <2>3 DEF p
<1>3. CASE a \notin m.fails
  <2> DEFINE s == [flags |-> r.t.flags, val |-> r.t.val, verdict |-> r.t.verdict,
                   ptr |-> [r.t.ptr EXCEPT ![a] = m.n]]
             p == Event!Block(r, a, m)
             q == Event!Mark(p, a)
  <2>1. p = [t |-> s, heap |-> r.heap \cup {<<a, m.n>>}, result |-> r.result]
    BY <1>3 DEF Event!Block, Parsers, TraceStates
  <2>2. s \in TraceStates
    BY <1>1 DEF Parsers, TraceStates
  <2>3. r.heap \cup {<<a, m.n>>} \in SUBSET (Event!Owned \X Nat)
    BY <1>1 DEF Parsers
  <2> HIDE DEF p
  <2>4. /\ p \in Parsers /\ p.t = s /\ p.heap = r.heap \cup {<<a, m.n>>}
        /\ p.result = r.result
    BY <2>1, <2>2, <2>3 DEF Parsers
  <2>5. /\ q \in Parsers /\ q.t.flags = p.t.flags \cup {a} /\ q.t.val = p.t.val
        /\ q.t.verdict = p.t.verdict /\ q.t.ptr = p.t.ptr
        /\ q.heap = p.heap /\ q.result = p.result
    BY <1>1, <2>4, Marked
  <2> HIDE DEF q
  <2>6. Gets(q, r, a, m)
    BY <2>4, <2>5 DEF Gets
  <2> QED BY <1>3, <2>6 DEF p, q
<1> QED BY <1>2, <1>3

\* What one attribute of a message does.
LEMMA StoreIs ==
  ASSUME NEW r \in Parsers, NEW m, Sane(m), NEW a \in Marks \ {"JUMP_TARGET"},
         NEW q, q = Event!Store(r, a, m)
  PROVE  \/ q = r /\ (r.result # "ok" \/ a \notin m.attrs \cup Event!Heads)
         \/ /\ r.result = "ok" /\ a \in m.attrs \cup Event!Heads
            /\ \/ a \in Event!Numbers \cup Event!Heads /\ Numbered(q, r, a, m)
               \/ /\ a \in Event!Owned /\ a \notin m.fails /\ Gets(q, r, a, m)
               \/ /\ a \in Event!Names /\ a \in m.fails /\ Lacks(q, r, a, "fail")
               \/ /\ a \in Event!Headers /\ a \in m.fails /\ Lacks(q, r, a, "ok")
               \/ /\ a = "VERDICT"
                  /\ \E p : /\ Judged(p, r, m)
                            /\ \/ m.verdict # "JUMP" /\ q = p
                               \/ /\ m.verdict = "JUMP" /\ "JUMP_TARGET" \in m.fails
                                  /\ Lacks(q, p, "JUMP_TARGET", "fail")
                               \/ /\ m.verdict = "JUMP" /\ "JUMP_TARGET" \notin m.fails
                                  /\ Gets(q, p, "JUMP_TARGET", m)
<1>1. m \in Events
  BY DEF Sane
<1>2. CASE r.result # "ok" \/ a \notin m.attrs \cup Event!Heads
  BY <1>2 DEF Event!Store
<1> SUFFICES ASSUME r.result = "ok", a \in m.attrs \cup Event!Heads
             PROVE  \/ a \in Event!Numbers \cup Event!Heads /\ Numbered(q, r, a, m)
                    \/ /\ a \in Event!Owned /\ a \notin m.fails /\ Gets(q, r, a, m)
                    \/ /\ a \in Event!Names /\ a \in m.fails /\ Lacks(q, r, a, "fail")
                    \/ /\ a \in Event!Headers /\ a \in m.fails /\ Lacks(q, r, a, "ok")
                    \/ /\ a = "VERDICT"
                       /\ \E p : /\ Judged(p, r, m)
                                 /\ \/ m.verdict # "JUMP" /\ q = p
                                    \/ /\ m.verdict = "JUMP" /\ "JUMP_TARGET" \in m.fails
                                       /\ Lacks(q, p, "JUMP_TARGET", "fail")
                                    \/ /\ m.verdict = "JUMP" /\ "JUMP_TARGET" \notin m.fails
                                       /\ Gets(q, p, "JUMP_TARGET", m)
  BY <1>2
<1>3. ASSUME NEW p \in Parsers, NEW b \in Event!Names, p.result = "ok"
      PROVE  /\ b \in m.fails => Lacks(Event!Name(p, b, m), p, b, "fail")
             /\ b \notin m.fails => Gets(Event!Name(p, b, m), p, b, m)
  <2>1. b \in Event!Owned
    BY DEF Event!Owned
  <2>2. ASSUME b \in m.fails PROVE Lacks(Event!Name(p, b, m), p, b, "fail")
    <3> DEFINE w == Event!Block(p, b, m)
               v == Event!Name(p, b, m)
    <3>1. Lacks(w, p, b, p.result)
      BY <1>1, <2>1, <2>2, BlockIs
    <3>2. v = [w EXCEPT !.result = "fail"]
      BY <2>2 DEF Event!Name
    <3> HIDE DEF w, v
    <3>3. v = [t |-> w.t, heap |-> w.heap, result |-> "fail"]
      BY <3>1, <3>2 DEF Lacks, Parsers
    <3>4. Lacks(v, p, b, "fail")
      BY <3>1, <3>3 DEF Lacks, Parsers
    <3> QED BY <3>4 DEF v
  <2>3. ASSUME b \notin m.fails PROVE Gets(Event!Name(p, b, m), p, b, m)
    BY <1>1, <2>1, <2>3, BlockIs DEF Event!Name
  <2> QED BY <2>2, <2>3
<1>4. CASE a \in Event!Names
  <2>1. q = Event!Name(r, a, m) /\ a \in Event!Owned
    BY <1>4 DEF Event!Store, Event!Owned, Event!Names, Event!Headers
  <2> QED BY <1>3, <1>4, <2>1
<1>5. CASE a \in Event!Headers
  <2>1. q = Event!Header(r, a, m) /\ a \in Event!Owned
    BY <1>5 DEF Event!Store, Event!Owned, Event!Headers, Event!Names
  <2>2. a \in m.fails => Lacks(q, r, a, "ok")
    BY <1>1, <2>1, BlockIs DEF Event!Header
  <2>3. a \notin m.fails => Gets(q, r, a, m)
    BY <1>1, <2>1, BlockIs DEF Event!Header
  <2> QED BY <1>5, <2>1, <2>2, <2>3
<1>6. CASE a = "VERDICT"
  <2> DEFINE z == [r EXCEPT !.t.verdict = m.verdict]
             s == [flags |-> r.t.flags, val |-> r.t.val, verdict |-> m.verdict,
                   ptr |-> r.t.ptr]
             p == Event!Mark(z, "VERDICT")
  <2>1. z = [t |-> s, heap |-> r.heap, result |-> r.result]
    BY DEF Parsers, TraceStates
  <2>2. s \in TraceStates
    BY <1>1 DEF Parsers, TraceStates, Events
  <2>3. q = IF m.verdict = "JUMP" THEN Event!Name(p, "JUMP_TARGET", m) ELSE p
    BY <1>6 DEF Event!Store, Event!Verdict, Event!Names, Event!Headers
  <2> HIDE DEF z
  <2>4. z \in Parsers /\ z.t = s /\ z.heap = r.heap /\ z.result = r.result
    BY <2>1, <2>2 DEF Parsers
  <2>5. /\ p \in Parsers /\ p.t.flags = z.t.flags \cup {"VERDICT"} /\ p.t.val = z.t.val
        /\ p.t.verdict = z.t.verdict /\ p.t.ptr = z.t.ptr
        /\ p.heap = z.heap /\ p.result = z.result
    BY <2>4, Marked DEF Marks
  <2> HIDE DEF p
  <2>6. Judged(p, r, m) /\ p.result = "ok"
    BY <2>4, <2>5 DEF Judged
  <2>7. /\ "JUMP_TARGET" \in m.fails =>
             Lacks(Event!Name(p, "JUMP_TARGET", m), p, "JUMP_TARGET", "fail")
        /\ "JUMP_TARGET" \notin m.fails =>
             Gets(Event!Name(p, "JUMP_TARGET", m), p, "JUMP_TARGET", m)
    BY <1>3, <2>5, <2>6 DEF Event!Names
  <2> QED BY <1>6, <2>3, <2>6, <2>7
<1>7. CASE a \in Event!Numbers \cup Event!Heads
  <2>1. q = Event!Number(r, a, m)
    BY <1>7 DEF Event!Store, Event!Names, Event!Headers, Event!Numbers, Event!Heads
  <2> QED BY <1>1, <1>7, <2>1, NumberIs
<1> QED BY <1>4, <1>5, <1>6, <1>7 DEF Marks, Event!Owned

\* What holds all the way through a message: r is the parser, m the message that
\* follows what the trace has had so far.
Latest(m, a) == IF a \in Event!Blocks(m.attrs, m.verdict) THEN m.n ELSE said.last[a]
Going(r, m) ==
  /\ r \in Parsers
  /\ \A a \in Event!Numbers \cup Event!Heads : r.t.val[a] <= m.n
  /\ r.heap \subseteq Event!Owned \X (1 .. m.n)
  /\ \A a \in Event!Owned :
       /\ r.t.ptr[a] # 0 => <<a, r.t.ptr[a]>> \in r.heap
       /\ <<a, m.n>> \in r.heap => a \notin m.fails
       /\ a \in r.t.flags /\ r.t.ptr[a] = 0 => reads > 0 /\ a \in said.failed \cup m.fails
       /\ a \in r.t.flags /\ reads = 0 => a \notin m.fails
       /\ \A k \in 1 .. m.n : <<a, k>> \in r.heap => r.t.ptr[a] = k \/ k < Latest(m, a)
  /\ reads = 0 /\ "JUMP_TARGET" \in r.t.flags => m.verdict = "JUMP" /\ r.t.verdict = "JUMP"

LEMMA NumberGoes ==
  ASSUME NEW m, NEW r, NEW q, NEW a \in Event!Numbers \cup Event!Heads, Going(r, m),
         Numbered(q, r, a, m), m.n \in Nat
  PROVE  Going(q, m)
<1>1. a \notin Event!Owned
  BY DEF Event!Owned, Event!Names, Event!Headers, Event!Numbers, Event!Heads
<1>2. /\ q \in Parsers /\ q.t.flags = r.t.flags \cup {a} /\ q.t.ptr = r.t.ptr
      /\ q.t.verdict = r.t.verdict /\ q.heap = r.heap
  BY DEF Numbered
<1>3. \A b \in Event!Numbers \cup Event!Heads : q.t.val[b] <= m.n
  BY DEF Numbered, Going, Parsers, TraceStates
<1>4. \A b \in Event!Owned : b \in q.t.flags <=> b \in r.t.flags
  BY <1>1, <1>2
<1>5. "JUMP_TARGET" \in Event!Owned
  BY DEF Event!Owned, Event!Names
<1> QED BY <1>2, <1>3, <1>4, <1>5 DEF Going

LEMMA LackGoes ==
  ASSUME NEW m, NEW r, NEW q, NEW a \in Event!Owned, NEW how, Going(r, m), Sane(m),
         a \in m.fails, Lacks(q, r, a, how), reads \in Nat, m.n = reads + 1
  PROVE  Going(q, m)
<1>1. /\ q \in Parsers /\ q.t.flags = r.t.flags /\ q.t.val = r.t.val
      /\ q.t.verdict = r.t.verdict /\ q.heap = r.heap
  BY DEF Lacks
<1>2. q.t.ptr[a] = 0 /\ \A b \in Event!Owned \ {a} : q.t.ptr[b] = r.t.ptr[b]
  BY DEF Lacks, Going, Parsers, TraceStates
<1>3. Latest(m, a) = m.n
  BY DEF Latest, Sane
<1>4. ASSUME NEW b \in Event!Owned
      PROVE  /\ q.t.ptr[b] # 0 => <<b, q.t.ptr[b]>> \in q.heap
             /\ <<b, m.n>> \in q.heap => b \notin m.fails
             /\ b \in q.t.flags /\ q.t.ptr[b] = 0 =>
                  reads > 0 /\ b \in said.failed \cup m.fails
             /\ b \in q.t.flags /\ reads = 0 => b \notin m.fails
             /\ \A k \in 1 .. m.n : <<b, k>> \in q.heap => q.t.ptr[b] = k \/ k < Latest(m, b)
  <2>1. CASE b = a
    <3>1. \A k \in 1 .. m.n : <<b, k>> \in q.heap => k # m.n
      BY <1>1, <2>1 DEF Going
    <3>2. \A k \in 1 .. m.n : <<b, k>> \in q.heap => k < Latest(m, b)
      BY <1>3, <2>1, <3>1
    <3>3. /\ b \in q.t.flags => reads > 0
          /\ b \in q.t.flags /\ reads = 0 => b \notin m.fails
          /\ <<b, m.n>> \in q.heap => b \notin m.fails
      <4>1. /\ a \in r.t.flags /\ reads = 0 => a \notin m.fails
            /\ <<a, m.n>> \in r.heap => a \notin m.fails
        BY DEF Going
      <4>2. a \in r.t.flags => reads > 0
        BY <4>1
      <4> QED BY <1>1, <2>1, <4>1, <4>2
    <3> QED BY <1>2, <2>1, <3>2, <3>3
  <2>2. CASE b # a
    BY <1>1, <1>2, <2>2 DEF Going
  <2> QED BY <2>1, <2>2
<1> QED BY <1>1, <1>4 DEF Going

LEMMA GetGoes ==
  ASSUME NEW m, NEW r, NEW q, NEW a \in Event!Owned, Going(r, m), Sane(m),
         a \notin m.fails, Gets(q, r, a, m), reads \in Nat, m.n = reads + 1,
         a \in Event!Blocks(m.attrs, m.verdict),
         a = "JUMP_TARGET" => m.verdict = "JUMP" /\ r.t.verdict = "JUMP"
  PROVE  Going(q, m)
<1>1. /\ q \in Parsers /\ q.t.flags = r.t.flags \cup {a} /\ q.t.val = r.t.val
      /\ q.t.verdict = r.t.verdict /\ q.heap = r.heap \cup {<<a, m.n>>}
  BY DEF Gets
<1>2. q.t.ptr[a] = m.n /\ \A b \in Event!Owned \ {a} : q.t.ptr[b] = r.t.ptr[b]
  BY DEF Gets, Going, Parsers, TraceStates
<1>3. Latest(m, a) = m.n
  BY DEF Latest
<1>4. ASSUME NEW b \in Event!Owned
      PROVE  /\ q.t.ptr[b] # 0 => <<b, q.t.ptr[b]>> \in q.heap
             /\ <<b, m.n>> \in q.heap => b \notin m.fails
             /\ b \in q.t.flags /\ q.t.ptr[b] = 0 =>
                  reads > 0 /\ b \in said.failed \cup m.fails
             /\ b \in q.t.flags /\ reads = 0 => b \notin m.fails
             /\ \A k \in 1 .. m.n : <<b, k>> \in q.heap => q.t.ptr[b] = k \/ k < Latest(m, b)
  <2>1. CASE b = a
    <3>1. \A k \in 1 .. m.n : k = m.n \/ k < Latest(m, b)
      BY <1>3, <2>1
    <3>2. m.n # 0 /\ <<b, q.t.ptr[b]>> \in q.heap
      BY <1>1, <1>2, <2>1
    <3> QED BY <1>2, <2>1, <3>1, <3>2
  <2>2. CASE b # a
    <3>1. \A k : <<b, k>> \in q.heap <=> <<b, k>> \in r.heap
      BY <1>1, <2>2
    <3> QED BY <1>1, <1>2, <2>2, <3>1 DEF Going
  <2> QED BY <2>1, <2>2
<1>5. q.heap \subseteq Event!Owned \X (1 .. m.n)
  BY <1>1 DEF Going
<1>6. reads = 0 /\ "JUMP_TARGET" \in q.t.flags => m.verdict = "JUMP" /\ q.t.verdict = "JUMP"
  BY <1>1 DEF Going
<1> QED BY <1>1, <1>4, <1>5, <1>6 DEF Going

LEMMA JudgeGoes ==
  ASSUME NEW m, NEW r, NEW q, Going(r, m), Judged(q, r, m)
  PROVE  Going(q, m)
<1>1. \A b \in Event!Owned : b \in q.t.flags <=> b \in r.t.flags
  BY DEF Judged, Event!Owned, Event!Names, Event!Headers
<1>2. "JUMP_TARGET" \in Event!Owned
  BY DEF Event!Owned, Event!Names
<1>3. reads = 0 /\ "JUMP_TARGET" \in q.t.flags => m.verdict = "JUMP" /\ q.t.verdict = "JUMP"
  BY <1>1, <1>2 DEF Judged, Going
<1> QED BY <1>1, <1>3 DEF Going, Judged

LEMMA StoreGoes ==
  ASSUME NEW m, Sane(m), NEW r, Going(r, m), NEW a \in Marks \ {"JUMP_TARGET"},
         reads \in Nat, m.n = reads + 1
  PROVE  Going(Event!Store(r, a, m), m)
<1> DEFINE q == Event!Store(r, a, m)
<1>1. r \in Parsers /\ m.n \in Nat
  BY DEF Going
<1> HIDE DEF q
<1>2. CASE a \in Event!Numbers \cup Event!Heads /\ Numbered(q, r, a, m)
  BY <1>1, <1>2, NumberGoes DEF q
<1>3. CASE a \in Event!Owned /\ a \notin m.fails /\ Gets(q, r, a, m) /\ a \in m.attrs
  <2>1. a \in Event!Blocks(m.attrs, m.verdict)
    BY <1>3 DEF Event!Blocks
  <2> QED BY <1>1, <1>3, <2>1, GetGoes DEF q
<1>4. CASE \E how : a \in Event!Owned /\ a \in m.fails /\ Lacks(q, r, a, how)
  BY <1>1, <1>4, LackGoes DEF q
<1>5. CASE \E p : /\ Judged(p, r, m)
                  /\ \/ m.verdict # "JUMP" /\ q = p
                     \/ /\ m.verdict = "JUMP" /\ "JUMP_TARGET" \in m.fails
                        /\ Lacks(q, p, "JUMP_TARGET", "fail")
                     \/ /\ m.verdict = "JUMP" /\ "JUMP_TARGET" \notin m.fails
                        /\ Gets(q, p, "JUMP_TARGET", m)
  <2>1. PICK p : /\ Judged(p, r, m)
                 /\ \/ m.verdict # "JUMP" /\ q = p
                    \/ /\ m.verdict = "JUMP" /\ "JUMP_TARGET" \in m.fails
                       /\ Lacks(q, p, "JUMP_TARGET", "fail")
                    \/ /\ m.verdict = "JUMP" /\ "JUMP_TARGET" \notin m.fails
                       /\ Gets(q, p, "JUMP_TARGET", m)
    BY <1>5
  <2>2. Going(p, m) /\ p.t.verdict = m.verdict
    BY <2>1, JudgeGoes DEF Judged
  <2>3. /\ "JUMP_TARGET" \in Event!Owned
        /\ m.verdict = "JUMP" => "JUMP_TARGET" \in Event!Blocks(m.attrs, m.verdict)
    BY DEF Event!Owned, Event!Names, Event!Blocks
  <2>4. CASE m.verdict # "JUMP" /\ q = p
    BY <2>2, <2>4 DEF q
  <2>5. CASE "JUMP_TARGET" \in m.fails /\ Lacks(q, p, "JUMP_TARGET", "fail")
    BY <1>1, <2>2, <2>3, <2>5, LackGoes DEF q
  <2>6. CASE /\ m.verdict = "JUMP" /\ "JUMP_TARGET" \notin m.fails
             /\ Gets(q, p, "JUMP_TARGET", m)
    BY <1>1, <2>2, <2>3, <2>6, GetGoes DEF q
  <2> QED BY <2>1, <2>4, <2>5, <2>6
<1>6. CASE q = r
  BY <1>6 DEF q
<1>7. a \in Event!Owned => a \notin Event!Heads
  BY DEF Event!Owned, Event!Names, Event!Headers, Event!Heads
<1>8. Event!Names \subseteq Event!Owned /\ Event!Headers \subseteq Event!Owned
  BY DEF Event!Owned
<1> QED BY <1>1, <1>2, <1>3, <1>4, <1>5, <1>6, <1>7, <1>8, StoreIs DEF q

\* The attributes come in one order, each once.
LEMMA OrderFacts ==
  /\ Len(Event!Order) = 17 /\ DOMAIN Event!Order = 1 .. 17
  /\ \A i \in 1 .. 17 : Event!Order[i] \in Marks \ {"JUMP_TARGET"}
  /\ \A i, j \in 1 .. 17 : Event!Order[i] = Event!Order[j] => i = j
  /\ \A i \in 1 .. 17 :
       /\ Event!Order[i] = "TABLE" <=> i = 4
       /\ Event!Order[i] = "CHAIN" <=> i = 5
       /\ Event!Order[i] = "VERDICT" <=> i = 12
       /\ Event!Order[i] \in Event!Headers <=> i \in 13 .. 15
<1> DEFINE O == Event!Order
<1>1. O = <<"FAMILY", "TYPE", "ID", "TABLE", "CHAIN", "IIFTYPE", "IIF", "OIFTYPE",
            "OIF", "MARK", "RULE_HANDLE", "VERDICT", "LL_HEADER", "NETWORK_HEADER",
            "TRANSPORT_HEADER", "NFPROTO", "POLICY">>
  BY DEF Event!Order
<1> HIDE DEF O
<1>2. /\ O[1] = "FAMILY" /\ O[2] = "TYPE" /\ O[3] = "ID" /\ O[4] = "TABLE" /\ O[5] = "CHAIN"
      /\ O[6] = "IIFTYPE" /\ O[7] = "IIF" /\ O[8] = "OIFTYPE" /\ O[9] = "OIF"
      /\ O[10] = "MARK" /\ O[11] = "RULE_HANDLE" /\ O[12] = "VERDICT"
      /\ O[13] = "LL_HEADER" /\ O[14] = "NETWORK_HEADER" /\ O[15] = "TRANSPORT_HEADER"
      /\ O[16] = "NFPROTO" /\ O[17] = "POLICY" /\ Len(O) = 17 /\ DOMAIN O = 1 .. 17
  BY <1>1
<1>3. ASSUME NEW i \in 1 .. 17
      PROVE  i \in {1, 2, 3, 4, 5, 6, 7, 8, 9, 10, 11, 12, 13, 14, 15, 16, 17}
  OBVIOUS
<1>4. \A i \in 1 .. 17 :
        /\ O[i] = "TABLE" <=> i = 4
        /\ O[i] = "CHAIN" <=> i = 5
        /\ O[i] = "VERDICT" <=> i = 12
        /\ O[i] \in Event!Headers <=> i \in 13 .. 15
        /\ O[i] \in Marks \ {"JUMP_TARGET"}
  BY <1>2, <1>3 DEF Event!Headers, Marks, Event!Numbers, Event!Heads, Event!Owned,
     Event!Names
<1>5. \A i, j \in 1 .. 17 : O[i] = O[j] => i = j
  BY <1>2, <1>3
<1> QED BY <1>2, <1>4, <1>5 DEF O

\* How the function of Parse goes on.
Follows(f, s, m) ==
  f = [i \in 0 .. Len(Event!Order) |->
         IF i = 0 THEN s ELSE Event!Store(f[i - 1], Event!Order[i], m)]

LEMMA FollowsExists ==
  ASSUME NEW s, NEW m
  PROVE  \E f : Follows(f, s, m)
<1> DEFINE Steps(f, n) == f = [i \in 0 .. n |-> IF i = 0 THEN s
                                  ELSE Event!Store(f[i - 1], Event!Order[i], m)]
           T == {n \in Nat : \E f : Steps(f, n)}
<1>1. 0 \in T
  <2>1. Steps([i \in 0 .. 0 |-> s], 0)
    OBVIOUS
  <2> QED BY <2>1
<1>2. ASSUME NEW n \in Nat, n \in T PROVE n + 1 \in T
  <2>1. PICK f : Steps(f, n)
    BY <1>2
  <2> DEFINE g == [i \in 0 .. n + 1 |->
                     IF i = n + 1 THEN Event!Store(f[n], Event!Order[n + 1], m) ELSE f[i]]
  <2>2. ASSUME NEW i \in 0 .. n + 1
        PROVE  g[i] = IF i = 0 THEN s ELSE Event!Store(g[i - 1], Event!Order[i], m)
    <3>1. CASE i = n + 1
      <4>1. i # 0 /\ i - 1 = n /\ n \in 0 .. n + 1 /\ n # n + 1
        BY <3>1
      <4>2. g[n] = f[n]
        BY <4>1
      <4>3. g[i] = Event!Store(f[n], Event!Order[i], m)
        BY <3>1
      <4> HIDE DEF g
      <4> QED BY <4>1, <4>2, <4>3
    <3>2. CASE i # n + 1
      <4>1. i \in 0 .. n /\ g[i] = f[i]
        BY <3>2
      <4>2. f[i] = IF i = 0 THEN s ELSE Event!Store(f[i - 1], Event!Order[i], m)
        BY <2>1, <4>1
      <4>3. i # 0 => g[i - 1] = f[i - 1]
        BY <4>1
      <4> HIDE DEF g
      <4> QED BY <4>1, <4>2, <4>3
    <3> QED BY <3>1, <3>2
  <2>3. Steps(g, n + 1)
    <3>1. g = [i \in 0 .. n + 1 |-> g[i]]
      OBVIOUS
    <3> HIDE DEF g
    <3> QED BY <2>2, <3>1
  <2> HIDE DEF Steps
  <2> QED BY <2>3
<1>3. Nat \subseteq T
  <2> HIDE DEF T
  <2> QED BY <1>1, <1>2, SetInduction
<1>4. 17 \in T
  <2> HIDE DEF T
  <2> QED BY <1>3
<1>5. \E f : Steps(f, 17)
  BY <1>4
<1> QED BY <1>5, OrderFacts DEF Follows

LEMMA ParseSteps ==
  ASSUME NEW m
  PROVE  \E f : /\ f[0] = [t |-> t, heap |-> heap, result |-> "ok"]
                /\ \A i \in 1 .. 17 : f[i] = Event!Store(f[i - 1], Event!Order[i], m)
                /\ Event!Parse(m) = f[17]
<1> DEFINE s == [t |-> t, heap |-> heap, result |-> "ok"]
           after[i \in 0 .. Len(Event!Order)] ==
             IF i = 0 THEN s ELSE Event!Store(after[i - 1], Event!Order[i], m)
<1>1. Event!Parse(m) = after[Len(Event!Order)]
  BY DEF Event!Parse
<1>2. after = [i \in 0 .. Len(Event!Order) |->
                 IF i = 0 THEN s ELSE Event!Store(after[i - 1], Event!Order[i], m)]
  <2>1. \E f : f = [i \in 0 .. Len(Event!Order) |->
                     IF i = 0 THEN s ELSE Event!Store(f[i - 1], Event!Order[i], m)]
    <3>1. \E f : Follows(f, s, m)
      BY FollowsExists
    <3> QED BY <3>1 DEF Follows
  <2> QED BY <2>1
<1> HIDE DEF after
<1>3. /\ after[0] = s
      /\ \A i \in 1 .. 17 : after[i] = Event!Store(after[i - 1], Event!Order[i], m)
  <2> HIDE DEF s
  <2> QED BY <1>2, OrderFacts
<1> QED BY <1>1, <1>3, OrderFacts

\* What a trace that has had no message before is marked with, after i attributes.
Done(i)     == {Event!Order[j] : j \in 1 .. i}
WholeOf(m)  == (m.attrs \cup Event!Heads) \cup
               (IF m.verdict = "JUMP" THEN {"JUMP_TARGET"} ELSE {})
FirstOf(m)  == IF "TABLE" \in m.fails THEN "TABLE"
               ELSE IF "CHAIN" \in m.fails THEN "CHAIN" ELSE "VERDICT"
Until(m)    == (WholeOf(m) \cap Event!Before(FirstOf(m))) \cup ({"VERDICT"} \cap {FirstOf(m)})
Exactly(r, m, i) ==
  /\ r \in Parsers
  /\ r.result = "ok" =>
       /\ \A a \in Marks :
            a \in r.t.flags <=>
              /\ a \in WholeOf(m) /\ a \notin m.fails \cap Event!Headers
              /\ a \in Done(i) \/ (a = "JUMP_TARGET" /\ "VERDICT" \in Done(i))
       /\ \A a \in m.fails \cap Event!Names :
            a \notin Done(i) /\ (a = "JUMP_TARGET" => "VERDICT" \notin Done(i))
  /\ r.result = "fail" => r.t.flags = Until(m)

LEMMA DoneFacts ==
  ASSUME NEW i \in 1 .. 17
  PROVE  /\ Event!Before(Event!Order[i]) = Done(i - 1)
         /\ Done(i) = Done(i - 1) \cup {Event!Order[i]}
         /\ "JUMP_TARGET" \notin Done(i)
         /\ i = 5 \/ i = 12 => "TABLE" \in Done(i - 1)
         /\ i = 12 => "CHAIN" \in Done(i - 1)
         /\ i \in {4, 5, 12} => /\ "VERDICT" \notin Done(i - 1)
                                /\ Done(i - 1) \cap Event!Headers = {}
<1> DEFINE O == Event!Order
<1>1. /\ DOMAIN O = 1 .. 17 /\ \A j \in 1 .. 17 : O[j] # "JUMP_TARGET"
      /\ \A j, k \in 1 .. 17 : O[j] = O[k] => j = k
      /\ \A j \in 1 .. 17 : /\ O[j] = "TABLE" <=> j = 4
                            /\ O[j] = "CHAIN" <=> j = 5
                            /\ O[j] = "VERDICT" <=> j = 12
                            /\ O[j] \in Event!Headers <=> j \in 13 .. 15
  BY OrderFacts
<1> HIDE DEF O
<1>2. {j \in DOMAIN O : \A k \in 1 .. j : O[k] # O[i]} = 1 .. i - 1
  <2>1. ASSUME NEW j \in 1 .. 17, \A k \in 1 .. j : O[k] # O[i] PROVE j \in 1 .. i - 1
    BY <2>1
  <2>2. ASSUME NEW j \in 1 .. i - 1 PROVE j \in 1 .. 17 /\ \A k \in 1 .. j : O[k] # O[i]
    <3>1. \A k \in 1 .. j : k \in 1 .. 17 /\ k # i
      OBVIOUS
    <3> QED BY <1>1, <3>1
  <2> QED BY <1>1, <2>1, <2>2
<1>3. Event!Before(O[i]) = {O[j] : j \in 1 .. i - 1}
  BY <1>2 DEF Event!Before, O
<1>4. 1 .. i = (1 .. i - 1) \cup {i} /\ \A j \in 1 .. i : j \in 1 .. 17
  OBVIOUS
<1>5. {O[j] : j \in 1 .. i} = {O[j] : j \in 1 .. i - 1} \cup {O[i]}
  BY <1>4
<1>6. "JUMP_TARGET" \notin {O[j] : j \in 1 .. i}
  BY <1>1, <1>4
<1>7. i = 5 \/ i = 12 => "TABLE" \in {O[j] : j \in 1 .. i - 1}
  <2>1. i = 5 \/ i = 12 => 4 \in 1 .. i - 1 /\ O[4] = "TABLE"
    BY <1>1
  <2> QED BY <2>1
<1>8. i = 12 => "CHAIN" \in {O[j] : j \in 1 .. i - 1}
  <2>1. i = 12 => 5 \in 1 .. i - 1 /\ O[5] = "CHAIN"
    BY <1>1
  <2> QED BY <2>1
<1>9. i \in {4, 5, 12} => /\ "VERDICT" \notin {O[j] : j \in 1 .. i - 1}
                          /\ {O[j] : j \in 1 .. i - 1} \cap Event!Headers = {}
  <2>1. ASSUME i \in {4, 5, 12}, NEW j \in 1 .. i - 1
        PROVE  O[j] # "VERDICT" /\ O[j] \notin Event!Headers
    <3>1. j \in 1 .. 17 /\ j # 12 /\ j \notin 13 .. 15
      BY <2>1
    <3> QED BY <1>1, <3>1
  <2> QED BY <2>1
<1> QED BY <1>3, <1>5, <1>6, <1>7, <1>8, <1>9 DEF Done, O

\* One more attribute.
LEMMA ExactlyStep ==
  ASSUME NEW m, Sane(m), NEW r, NEW i \in 1 .. 17, Exactly(r, m, i - 1)
  PROVE  Exactly(Event!Store(r, Event!Order[i], m), m, i)
<1> DEFINE a == Event!Order[i]
           q == Event!Store(r, a, m)
           W == WholeOf(m)
<1>1. /\ a \in Marks \ {"JUMP_TARGET"} /\ r \in Parsers
      /\ a = "TABLE" <=> i = 4
      /\ a = "CHAIN" <=> i = 5
      /\ a = "VERDICT" <=> i = 12
      /\ a \in Event!Headers <=> i \in 13 .. 15
  BY OrderFacts DEF Exactly
<1>2. /\ Event!Before(a) = Done(i - 1)
      /\ Done(i) = Done(i - 1) \cup {a}
      /\ "JUMP_TARGET" \notin Done(i)
      /\ i = 5 \/ i = 12 => "TABLE" \in Done(i - 1)
      /\ i = 12 => "CHAIN" \in Done(i - 1)
      /\ i \in {4, 5, 12} => /\ "VERDICT" \notin Done(i - 1)
                             /\ Done(i - 1) \cap Event!Headers = {}
  BY DoneFacts
<1>3. /\ m \in Events /\ ("VERDICT" \in m.attrs <=> m.verdict # "none")
      /\ m.fails \subseteq (m.attrs \cap Event!Owned) \cup
                           (IF m.verdict = "JUMP" THEN {"JUMP_TARGET"} ELSE {})
      /\ m.attrs \subseteq {"TABLE", "CHAIN", "VERDICT"} \cup Event!Headers \cup Event!Numbers
  BY TraceConstants DEF Sane, Event!Blocks, Events
<1>4. /\ a \in W <=> a \in m.attrs \cup Event!Heads
      /\ "JUMP_TARGET" \in W <=> m.verdict = "JUMP"
      /\ W \subseteq Marks
  BY <1>1, <1>3 DEF WholeOf, Event!Headers, Event!Numbers, Event!Heads, Marks,
     Event!Owned, Event!Names
<1>5. /\ Event!Names = {"TABLE", "CHAIN", "JUMP_TARGET"} /\ "VERDICT" \notin Event!Owned
      /\ "JUMP_TARGET" \notin Event!Headers /\ "VERDICT" \notin Event!Headers
      /\ (Event!Numbers \cup Event!Heads) \cap (Event!Headers \cup Event!Names \cup {"VERDICT"}) = {}
      /\ Event!Headers \cap Event!Names = {} /\ "JUMP_TARGET" \in Marks /\ "VERDICT" \in Marks
      /\ Event!Owned = Event!Names \cup Event!Headers
  BY DEF Event!Headers, Event!Numbers, Event!Heads, Event!Names, Event!Owned, Marks
<1> HIDE DEF a, q, W
<1>6. CASE r.result = "fail"
  <2>1. q = r
    BY <1>6 DEF q, Event!Store
  <2> QED BY <1>6, <2>1 DEF Exactly, q, a
<1>7. CASE r.result = "ok"
  <2>1. /\ \A b \in Marks :
             b \in r.t.flags <=>
               /\ b \in W /\ b \notin m.fails \cap Event!Headers
               /\ b \in Done(i - 1) \/ (b = "JUMP_TARGET" /\ "VERDICT" \in Done(i - 1))
        /\ \A b \in m.fails \cap Event!Names :
             b \notin Done(i - 1) /\ (b = "JUMP_TARGET" => "VERDICT" \notin Done(i - 1))
        /\ r.t.flags \subseteq Marks
    BY <1>7 DEF Exactly, W, Parsers, TraceStates
  <2>2. ASSUME q = r, a \notin m.attrs \cup Event!Heads PROVE Exactly(q, m, i)
    <3>1. a \notin W /\ a \notin m.fails
      BY <1>1, <1>3, <1>4, <2>2
    <3>2. a = "VERDICT" => "JUMP_TARGET" \notin W /\ "JUMP_TARGET" \notin m.fails
      <4>1. "JUMP_TARGET" \notin m.attrs
        BY <1>3, <1>5
      <4>2. a = "VERDICT" => m.verdict # "JUMP"
        BY <1>3, <2>2
      <4> QED BY <1>3, <1>4, <4>1, <4>2
    <3> QED BY <1>1, <1>2, <1>7, <2>1, <2>2, <3>1, <3>2 DEF Exactly, W
  <2>3. ASSUME q \in Parsers, q.t.flags = r.t.flags \cup {a}, q.result = "ok", a \in W,
               a \notin m.fails, a # "VERDICT"
        PROVE  Exactly(q, m, i)
    <3>1. \A b \in Marks :
             b \in q.t.flags <=>
               /\ b \in W /\ b \notin m.fails \cap Event!Headers
               /\ b \in Done(i) \/ (b = "JUMP_TARGET" /\ "VERDICT" \in Done(i))
      BY <1>1, <1>2, <2>1, <2>3
    <3>2. \A b \in m.fails \cap Event!Names :
             b \notin Done(i) /\ (b = "JUMP_TARGET" => "VERDICT" \notin Done(i))
      BY <1>1, <1>2, <2>1, <2>3
    <3> QED BY <2>3, <3>1, <3>2 DEF Exactly, W
  <2>4. CASE a \in Event!Numbers \cup Event!Heads /\ Numbered(q, r, a, m) /\ a \in W
    <3>1. a \notin m.fails /\ a # "VERDICT"
      BY <1>1, <1>3, <1>5, <2>4
    <3> QED BY <1>7, <2>3, <2>4, <3>1 DEF Numbered, q, a
  <2>5. CASE a \in Event!Owned /\ a \notin m.fails /\ Gets(q, r, a, m) /\ a \in W
    <3>1. a # "VERDICT"
      BY <1>5, <2>5
    <3> QED BY <1>7, <2>3, <2>5, <3>1 DEF Gets, q, a
  <2>6. CASE a \in Event!Names /\ a \in m.fails /\ Lacks(q, r, a, "fail")
    <3>1. i \in {4, 5} /\ a \in {"TABLE", "CHAIN"} /\ a # "VERDICT"
      BY <1>1, <1>5, <2>6
    <3>2. FirstOf(m) = a
      BY <1>1, <1>2, <1>5, <2>1, <2>6, <3>1 DEF FirstOf
    <3>3. r.t.flags = W \cap Done(i - 1)
      BY <1>2, <1>4, <2>1, <3>1
    <3>4. r.t.flags = Until(m)
      BY <1>2, <3>1, <3>2, <3>3 DEF Until, W
    <3> QED BY <2>6, <3>4 DEF Exactly, Lacks, q, a
  <2>7. CASE a \in Event!Headers /\ a \in m.fails /\ Lacks(q, r, a, "ok")
    <3>1. a # "VERDICT" /\ a # "JUMP_TARGET" /\ a \notin Event!Names
      BY <1>5, <2>7
    <3>2. q \in Parsers /\ q.t.flags = r.t.flags /\ q.result = "ok"
      BY <2>7 DEF Lacks
    <3>3. \A b \in Marks :
             b \in q.t.flags <=>
               /\ b \in W /\ b \notin m.fails \cap Event!Headers
               /\ b \in Done(i) \/ (b = "JUMP_TARGET" /\ "VERDICT" \in Done(i))
      BY <1>2, <2>1, <2>7, <3>1, <3>2
    <3>4. \A b \in m.fails \cap Event!Names :
             b \notin Done(i) /\ (b = "JUMP_TARGET" => "VERDICT" \notin Done(i))
      BY <1>2, <2>1, <3>1
    <3> QED BY <3>2, <3>3, <3>4 DEF Exactly, W, q, a
  <2>8. CASE a = "VERDICT" /\ a \in W /\ \E p :
               /\ Judged(p, r, m)
               /\ \/ m.verdict # "JUMP" /\ q = p
                  \/ /\ m.verdict = "JUMP" /\ "JUMP_TARGET" \in m.fails
                     /\ Lacks(q, p, "JUMP_TARGET", "fail")
                  \/ /\ m.verdict = "JUMP" /\ "JUMP_TARGET" \notin m.fails
                     /\ Gets(q, p, "JUMP_TARGET", m)
    <3>1. PICK p :
               /\ Judged(p, r, m)
               /\ \/ m.verdict # "JUMP" /\ q = p
                  \/ /\ m.verdict = "JUMP" /\ "JUMP_TARGET" \in m.fails
                     /\ Lacks(q, p, "JUMP_TARGET", "fail")
                  \/ /\ m.verdict = "JUMP" /\ "JUMP_TARGET" \notin m.fails
                     /\ Gets(q, p, "JUMP_TARGET", m)
      BY <2>8
    <3>2. p \in Parsers /\ p.t.flags = r.t.flags \cup {"VERDICT"} /\ p.result = "ok"
      BY <1>7, <3>1 DEF Judged
    <3>3. /\ i = 12 /\ "TABLE" \notin m.fails /\ "CHAIN" \notin m.fails
          /\ "VERDICT" \notin Done(i - 1) /\ Done(i - 1) \cap Event!Headers = {}
          /\ "JUMP_TARGET" \notin Done(i) /\ "VERDICT" \in Done(i)
      BY <1>1, <1>2, <1>5, <2>1, <2>8
    <3>4. /\ r.t.flags = W \cap Done(i - 1) /\ "VERDICT" \notin m.fails
      BY <1>2, <1>3, <1>4, <1>5, <2>1, <3>3
    <3>5. ASSUME q \in Parsers, q.result = "ok", "JUMP_TARGET" \notin m.fails,
                 q.t.flags = (W \cap Done(i)) \cup
                             (IF m.verdict = "JUMP" THEN {"JUMP_TARGET"} ELSE {})
          PROVE  Exactly(q, m, i)
      <4>1. \A b \in Marks :
               b \in q.t.flags <=>
                 /\ b \in W /\ b \notin m.fails \cap Event!Headers
                 /\ b \in Done(i) \/ (b = "JUMP_TARGET" /\ "VERDICT" \in Done(i))
        BY <1>2, <1>4, <1>5, <2>8, <3>3, <3>5
      <4>2. \A b \in m.fails \cap Event!Names :
               b \notin Done(i) /\ (b = "JUMP_TARGET" => "VERDICT" \notin Done(i))
        BY <1>5, <3>3, <3>5
      <4> QED BY <3>5, <4>1, <4>2 DEF Exactly, W
    <3>6. p.t.flags = W \cap Done(i)
      BY <1>2, <2>8, <3>2, <3>4
    <3>7. CASE m.verdict # "JUMP" /\ q = p
      <4>1. "JUMP_TARGET" \notin m.fails
        BY <1>3, <1>5, <3>7
      <4> QED BY <3>2, <3>5, <3>6, <3>7, <4>1 DEF q, a
    <3>8. CASE m.verdict = "JUMP" /\ "JUMP_TARGET" \notin m.fails /\ Gets(q, p, "JUMP_TARGET", m)
      <4>1. q \in Parsers /\ q.result = "ok" /\ q.t.flags = p.t.flags \cup {"JUMP_TARGET"}
        BY <3>2, <3>8 DEF Gets
      <4> QED BY <3>5, <3>6, <3>8, <4>1 DEF q, a
    <3>9. CASE "JUMP_TARGET" \in m.fails /\ Lacks(q, p, "JUMP_TARGET", "fail")
      <4>1. q \in Parsers /\ q.result = "fail" /\ q.t.flags = p.t.flags
        BY <3>9 DEF Lacks
      <4>2. FirstOf(m) = "VERDICT"
        BY <3>3 DEF FirstOf
      <4>3. Until(m) = (W \cap Done(i - 1)) \cup {"VERDICT"}
        BY <1>2, <2>8, <4>2 DEF Until, W
      <4>4. q.t.flags = Until(m)
        BY <1>2, <2>8, <3>6, <4>1, <4>3
      <4> QED BY <4>1, <4>4 DEF Exactly, q, a
    <3> QED BY <3>1, <3>7, <3>8, <3>9
  <2>9. a \in m.attrs \cup Event!Heads => a \in W
    BY <1>4
  <2>10. q = Event!Store(r, a, m)
    BY DEF q
  <2> QED BY <1>1, <1>7, <2>2, <2>4, <2>5, <2>6, <2>7, <2>8, <2>9, <2>10, StoreIs DEF q, a
<1> QED BY <1>1, <1>6, <1>7 DEF Parsers

LEMMA TraceBegin ==
  ASSUME t = Event!New, heap = {}, reads = 0, said = Event!None, result = "none",
         fault = FALSE
  PROVE  TraceInv
<1>1. t \in TraceStates /\ t.flags = {} /\ t.val = [a \in Event!Numbers \cup Event!Heads |-> 0]
      /\ t.ptr = [a \in Event!Owned |-> 0]
  BY DEF Event!New, TraceStates
<1>2. said.failed = {} /\ said.last = [a \in Event!Owned |-> 0]
  BY DEF Event!None
<1>3. said.last \in [Event!Owned -> 0 .. reads]
  BY <1>2
<1>4. Event!Exact /\ Event!TargetIsOfVerdict /\ Event!NoFault /\ Event!MarkedIsThere
      /\ Event!LeaksOnly
  BY <1>1 DEF Event!Exact, Event!TargetIsOfVerdict, Event!NoFault, Event!MarkedIsThere,
     Event!LeaksOnly
<1> QED BY <1>1, <1>2, <1>3, <1>4, TraceConstants DEF TraceInv

\* All of a message.
LEMMA ParseTrace ==
  ASSUME TraceInv, reads < MaxReads, NEW m, Sane(m), m.n = reads + 1
  PROVE  /\ Going(Event!Parse(m), m)
         /\ reads = 0 => Exactly(Event!Parse(m), m, 17)
<1> DEFINE s == [t |-> t, heap |-> heap, result |-> "ok"]
<1>1. PICK f : /\ f[0] = s
               /\ \A i \in 1 .. 17 : f[i] = Event!Store(f[i - 1], Event!Order[i], m)
               /\ Event!Parse(m) = f[17]
  BY ParseSteps
<1>2. /\ reads \in Nat /\ m.n \in Nat /\ m.n = reads + 1 /\ t \in TraceStates
      /\ heap \subseteq Event!Owned \X (1 .. reads)
      /\ said.last \in [Event!Owned -> 0 .. reads]
  BY TraceConstants DEF TraceInv
<1>3. s \in Parsers /\ s.t = t /\ s.heap = heap /\ s.result = "ok"
  BY <1>2 DEF Parsers
<1> HIDE DEF s
<1>4. Going(s, m)
  <2>1. \A a \in Event!Numbers \cup Event!Heads : t.val[a] <= m.n
    BY <1>2 DEF TraceInv, TraceStates
  <2>2. heap \subseteq Event!Owned \X (1 .. m.n)
    BY <1>2
  <2>3. ASSUME NEW a \in Event!Owned
        PROVE  /\ t.ptr[a] # 0 => <<a, t.ptr[a]>> \in heap
               /\ <<a, m.n>> \in heap => a \notin m.fails
               /\ a \in t.flags /\ t.ptr[a] = 0 => reads > 0 /\ a \in said.failed \cup m.fails
               /\ a \in t.flags /\ reads = 0 => a \notin m.fails
               /\ \A k \in 1 .. m.n : <<a, k>> \in heap => t.ptr[a] = k \/ k < Latest(m, a)
    <3>1. t.ptr[a] # 0 => <<a, t.ptr[a]>> \in heap
      BY DEF TraceInv
    <3>2. <<a, m.n>> \notin heap
      BY <1>2
    <3>3. a \in t.flags /\ t.ptr[a] = 0 => reads > 1 /\ a \in said.failed
      BY DEF TraceInv, Event!MarkedIsThere
    <3>4. reads = 0 => t.flags = {}
      BY DEF TraceInv, Event!New
    <3>5. ASSUME NEW k \in 1 .. m.n, <<a, k>> \in heap PROVE t.ptr[a] = k \/ k < Latest(m, a)
      <4>1. k <= reads /\ (t.ptr[a] = k \/ k < said.last[a])
        BY <1>2, <3>5 DEF TraceInv, Event!LeaksOnly
      <4> QED BY <1>2, <4>1 DEF Latest
    <3> QED BY <1>2, <3>1, <3>2, <3>3, <3>4, <3>5
  <2>4. reads = 0 => "JUMP_TARGET" \notin t.flags
    BY DEF TraceInv, Event!New
  <2> QED BY <1>3, <2>1, <2>2, <2>3, <2>4 DEF Going
<1>5. f[17] = Event!Parse(m)
  BY <1>1
<1>6. Going(f[17], m)
  <2> DEFINE T == {i \in Nat : i <= 17 => Going(f[i], m)}
  <2>1. 0 \in T
    BY <1>1, <1>4
  <2>2. ASSUME NEW i \in Nat, i \in T PROVE i + 1 \in T
    <3> SUFFICES ASSUME i + 1 <= 17 PROVE Going(f[i + 1], m)
      OBVIOUS
    <3>1. i + 1 \in 1 .. 17 /\ (i + 1) - 1 = i
      OBVIOUS
    <3>2. f[i + 1] = Event!Store(f[i], Event!Order[i + 1], m)
      BY <1>1, <3>1
    <3>3. Going(f[i], m) /\ Event!Order[i + 1] \in Marks \ {"JUMP_TARGET"}
      BY <2>2, <3>1, OrderFacts
    <3> QED BY <1>2, <3>2, <3>3, StoreGoes
  <2>3. Nat \subseteq T
    <3> HIDE DEF T
    <3> QED BY <2>1, <2>2, SetInduction
  <2> QED BY <2>3
<1>7. ASSUME reads = 0 PROVE Exactly(f[17], m, 17)
  <2> DEFINE T == {i \in Nat : i <= 17 => Exactly(f[i], m, i)}
  <2>1. 0 \in T
    <3>1. t.flags = {} /\ Done(0) = {}
      BY <1>7 DEF TraceInv, Event!New, Done
    <3>2. Exactly(s, m, 0)
      BY <1>3, <3>1 DEF Exactly
    <3> QED BY <1>1, <3>2
  <2>2. ASSUME NEW i \in Nat, i \in T PROVE i + 1 \in T
    <3> SUFFICES ASSUME i + 1 <= 17 PROVE Exactly(f[i + 1], m, i + 1)
      OBVIOUS
    <3>1. i + 1 \in 1 .. 17 /\ (i + 1) - 1 = i
      OBVIOUS
    <3>2. f[i + 1] = Event!Store(f[i], Event!Order[i + 1], m)
      BY <1>1, <3>1
    <3>3. Exactly(f[i], m, (i + 1) - 1)
      BY <2>2, <3>1
    <3> QED BY <3>1, <3>2, <3>3, ExactlyStep
  <2>3. Nat \subseteq T
    <3> HIDE DEF T
    <3> QED BY <2>1, <2>2, SetInduction
  <2> QED BY <2>3
<1> QED BY <1>5, <1>6, <1>7

\* Every attribute has its turn.
LEMMA AllDone == \A a \in Marks : a \in Done(17) <=> a # "JUMP_TARGET"
<1> DEFINE O == Event!Order
<1>1. /\ O[1] = "FAMILY" /\ O[2] = "TYPE" /\ O[3] = "ID" /\ O[4] = "TABLE" /\ O[5] = "CHAIN"
      /\ O[6] = "IIFTYPE" /\ O[7] = "IIF" /\ O[8] = "OIFTYPE" /\ O[9] = "OIF"
      /\ O[10] = "MARK" /\ O[11] = "RULE_HANDLE" /\ O[12] = "VERDICT"
      /\ O[13] = "LL_HEADER" /\ O[14] = "NETWORK_HEADER" /\ O[15] = "TRANSPORT_HEADER"
      /\ O[16] = "NFPROTO" /\ O[17] = "POLICY"
  BY DEF Event!Order
<1>2. \A i \in {1, 2, 3, 4, 5, 6, 7, 8, 9, 10, 11, 12, 13, 14, 15, 16, 17} : i \in 1 .. 17
  OBVIOUS
<1>3. "JUMP_TARGET" \notin Done(17)
  BY DoneFacts
<1> HIDE DEF O
<1>4. \A i \in {1, 2, 3, 4, 5, 6, 7, 8, 9, 10, 11, 12, 13, 14, 15, 16, 17} : O[i] \in Done(17)
  BY <1>2 DEF Done, O
<1>5. ASSUME NEW a \in Marks, a # "JUMP_TARGET"
      PROVE  \E i \in {1, 2, 3, 4, 5, 6, 7, 8, 9, 10, 11, 12, 13, 14, 15, 16, 17} : a = O[i]
  BY <1>1, <1>5 DEF Marks, Event!Numbers, Event!Heads, Event!Owned, Event!Names, Event!Headers
<1> QED BY <1>3, <1>4, <1>5

LEMMA TraceParses ==
  ASSUME TraceInv, NEW attrs, NEW verdict \in {"none", "ACCEPT", "JUMP"}, NEW fails,
         Event!parse(attrs, verdict, fails)
  PROVE  TraceInv'
<1> DEFINE m == [attrs |-> attrs, verdict |-> verdict, fails |-> fails, n |-> reads + 1]
           r == Event!Parse(m)
<1>1. /\ reads < MaxReads /\ attrs \subseteq Given /\ ("VERDICT" \in attrs <=> verdict # "none")
      /\ fails \subseteq Event!Blocks(attrs, verdict)
      /\ t' = r.t /\ heap' = r.heap /\ result' = r.result /\ reads' = reads + 1
      /\ fault' = fault /\ ~fault
      /\ said' = [attrs |-> attrs, verdict |-> verdict, fails |-> fails,
                  failed |-> said.failed \cup fails,
                  last |-> [a \in Event!Owned |->
                              IF a \in Event!Blocks(attrs, verdict) THEN reads + 1
                              ELSE said.last[a]]]
  BY DEF Event!parse, Event!Running, Event!Gives
<1>2. Event!Blocks(attrs, verdict) \subseteq Event!Owned
  BY DEF Event!Blocks, Event!Owned, Event!Names
<1>3. reads \in 0 .. MaxReads /\ reads \in Nat
  BY TraceConstants DEF TraceInv
<1>4. /\ m.attrs = attrs /\ m.verdict = verdict /\ m.fails = fails /\ m.n = reads + 1
      /\ Sane(m)
  BY <1>1, <1>2, <1>3 DEF Sane, Events
<1> HIDE DEF m, r
<1>5. Going(r, m) /\ (reads = 0 => Exactly(r, m, 17))
  BY <1>1, <1>4, ParseTrace DEF r
<1>6. /\ r.t \in TraceStates /\ r.result \in {"ok", "fail"}
      /\ \A a \in Event!Numbers \cup Event!Heads : r.t.val[a] <= reads + 1
      /\ r.heap \subseteq Event!Owned \X (1 .. reads + 1)
      /\ \A a \in Event!Owned : r.t.ptr[a] # 0 => <<a, r.t.ptr[a]>> \in r.heap
  BY <1>4, <1>5 DEF Going, Parsers
<1>7. reads + 1 \in 0 .. MaxReads /\ reads + 1 # 0 /\ (reads > 0 => reads + 1 > 1)
  BY <1>1, <1>3, TraceConstants
<1>8. /\ said'.failed \in SUBSET Event!Owned
      /\ said'.last \in [Event!Owned -> 0 .. reads + 1]
  BY <1>1, <1>2, <1>3 DEF TraceInv
<1>9. Event!LeaksOnly'
  <2> SUFFICES ASSUME NEW b \in r.heap
               PROVE  r.t.ptr[b[1]] = b[2] \/ b[2] < said'.last[b[1]]
    BY <1>1 DEF Event!LeaksOnly
  <2>1. PICK a \in Event!Owned, k \in 1 .. reads + 1 : b = <<a, k>>
    BY <1>6
  <2>2. r.t.ptr[a] = k \/ k < Latest(m, a)
    BY <1>4, <1>5, <2>1 DEF Going
  <2>3. said'.last[a] = Latest(m, a)
    BY <1>1, <1>4 DEF Latest
  <2> QED BY <2>1, <2>2, <2>3
<1>10. Event!MarkedIsThere'
  <2> SUFFICES ASSUME NEW a \in Event!Owned \cap r.t.flags, r.t.ptr[a] = 0
               PROVE  reads + 1 > 1 /\ a \in said.failed \cup fails
    BY <1>1 DEF Event!MarkedIsThere
  <2> QED BY <1>3, <1>4, <1>5, <1>7 DEF Going
<1>11. Event!TargetIsOfVerdict'
  <2>1. "JUMP_TARGET" \in r.t.flags /\ r.t.verdict # "JUMP" => reads # 0
    BY <1>5 DEF Going
  <2> QED BY <1>1, <1>3, <2>1 DEF Event!TargetIsOfVerdict
<1>12. Event!Exact'
  <2>1. WholeOf(m) = Event!Whole'
    BY <1>1, <1>4 DEF WholeOf, Event!Whole
  <2>2. FirstOf(m) = Event!FirstName'
    BY <1>1, <1>4 DEF FirstOf, Event!FirstName
  <2>3. Event!Before(FirstOf(m)) = Event!Before(Event!FirstName)'
    BY <2>2 DEF Event!Before
  <2>4. ASSUME reads = 0, r.result = "fail"
        PROVE  r.t.flags = (Event!Whole' \cap Event!Before(Event!FirstName)')
                             \cup ({"VERDICT"} \cap {Event!FirstName'})
    BY <1>5, <2>1, <2>2, <2>3, <2>4 DEF Exactly, Until
  <2>5. ASSUME reads = 0, r.result = "ok"
        PROVE  r.t.flags = Event!Whole' \ (said'.fails \cap Event!Headers)
    <3>1. \A a \in Marks :
            a \in r.t.flags <=>
              /\ a \in WholeOf(m) /\ a \notin m.fails \cap Event!Headers
              /\ a \in Done(17) \/ (a = "JUMP_TARGET" /\ "VERDICT" \in Done(17))
      BY <1>5, <2>5 DEF Exactly
    <3>2. "VERDICT" \in Done(17)
      BY AllDone DEF Marks
    <3>3. r.t.flags \subseteq Marks
      BY <1>6 DEF TraceStates
    <3>4. WholeOf(m) \subseteq Marks
      BY <1>1, <1>4, TraceConstants DEF WholeOf, Marks, Event!Owned, Event!Names
    <3>5. r.t.flags = WholeOf(m) \ (m.fails \cap Event!Headers)
      BY <3>1, <3>2, <3>3, <3>4, AllDone
    <3> QED BY <1>1, <1>4, <2>1, <3>5
  <2>6. reads' = 1 => reads = 0
    BY <1>1, <1>3
  <2> QED BY <1>1, <1>6, <2>4, <2>5, <2>6 DEF Event!Exact
<1>13. Event!NoFault'
  BY <1>1 DEF Event!NoFault
<1>14. t' \in TraceStates'
  BY <1>1, <1>6 DEF TraceStates, Marks
<1> QED BY <1>1, <1>6, <1>7, <1>8, <1>9, <1>10, <1>11, <1>12, <1>13, <1>14 DEF TraceInv

\* Every message and every call on a trace.
LEMMA TraceStep ==
  ASSUME TraceInv, Event!Next
  PROVE  TraceInv'
<1>1. ASSUME UNCHANGED <<t, heap, reads, said, fault>>, result' \in {"exit", "wild"}
      PROVE  TraceInv'
  <2>1. Event!Exact'
    BY <1>1 DEF Event!Exact
  <2>2. /\ Event!TargetIsOfVerdict' /\ Event!NoFault' /\ Event!MarkedIsThere'
        /\ Event!LeaksOnly'
    BY <1>1 DEF TraceInv, Event!TargetIsOfVerdict, Event!NoFault, Event!MarkedIsThere,
       Event!LeaksOnly
  <2> QED BY <1>1, <2>1, <2>2 DEF TraceInv, TraceStates
<1>2. ASSUME NEW how, Event!parse_bad(how) PROVE TraceInv'
  BY <1>1, <1>2 DEF Event!parse_bad
<1>3. ASSUME NEW a \in Event!Names, Event!get(a) PROVE TraceInv'
  <2>1. /\ UNCHANGED <<t, heap, reads, said, result>> /\ fault' = (t.ptr[a] = 0)
        /\ a \in t.flags /\ a \in Event!Owned
    BY <1>3 DEF Event!get, Event!Owned
  <2>2. Event!NoFault'
    BY <1>3, <2>1 DEF TraceInv, Event!MarkedIsThere, Event!NoFault
  <2>3. Event!Exact'
    BY <2>1 DEF TraceInv, Event!Exact, Event!Whole, Event!FirstName, Event!Before
  <2>4. Event!TargetIsOfVerdict' /\ Event!MarkedIsThere' /\ Event!LeaksOnly'
    BY <2>1 DEF TraceInv, Event!TargetIsOfVerdict, Event!MarkedIsThere, Event!LeaksOnly
  <2> QED BY <2>1, <2>2, <2>3, <2>4 DEF TraceInv, TraceStates
<1>4. ASSUME Event!free PROVE TraceInv'
  <2>1. /\ heap' = heap \ {<<a, t.ptr[a]>> : a \in Event!Owned}
        /\ t' = Event!New /\ result' = "freed" /\ UNCHANGED <<reads, said, fault>>
    BY <1>4 DEF Event!free
  <2>2. t' \in TraceStates /\ t'.flags = {} /\ t'.ptr = [a \in Event!Owned |-> 0]
        /\ t'.val = [a \in Event!Numbers \cup Event!Heads |-> 0]
    BY <2>1 DEF Event!New, TraceStates
  <2>3. Event!LeaksOnly'
    <3> SUFFICES ASSUME NEW b \in heap' PROVE b[2] < said.last[b[1]]
      BY <2>1 DEF Event!LeaksOnly
    <3>1. PICK a \in Event!Owned, k \in 1 .. reads : b = <<a, k>>
      BY <2>1 DEF TraceInv
    <3>2. t.ptr[a] # k /\ b \in heap
      BY <2>1, <3>1
    <3> QED BY <3>1, <3>2 DEF TraceInv, Event!LeaksOnly
  <2>4. Event!Exact' /\ Event!TargetIsOfVerdict' /\ Event!MarkedIsThere' /\ Event!NoFault'
    BY <2>1, <2>2 DEF TraceInv, Event!Exact, Event!TargetIsOfVerdict, Event!MarkedIsThere,
       Event!NoFault
  <2>5. reads \in Nat
    BY TraceConstants DEF TraceInv
  <2>6. \A a \in Event!Numbers \cup Event!Heads : t'.val[a] <= reads
    BY <2>2, <2>5
  <2>7. t' \in TraceStates'
    BY <2>2 DEF TraceStates, Marks
  <2>8. heap' \subseteq Event!Owned \X (1 .. reads)
    BY <2>1 DEF TraceInv
  <2>9. \A a \in Event!Owned : t'.ptr[a] = 0
    BY <2>2
  <2> QED BY <2>1, <2>3, <2>4, <2>6, <2>7, <2>8, <2>9 DEF TraceInv
<1>5. ASSUME Event!renew PROVE TraceInv'
  <2>1. (/\ t = Event!New /\ heap = {} /\ reads = 0 /\ said = Event!None /\ result = "none"
         /\ fault = FALSE)' => TraceInv'
    BY TraceBegin, PTL
  <2> QED BY <1>5, <2>1 DEF Event!renew, Event!New, Event!None
<1> QED BY <1>2, <1>3, <1>4, <1>5, TraceParses DEF Event!Next

\* What follows from the invariant of traces.
LEMMA TraceFacts ==
  TraceInv => /\ Event!TypeOK /\ Event!Exact /\ Event!TargetIsOfVerdict
              /\ Event!NoFault /\ Event!MarkedIsThere /\ Event!LeaksOnly
<1> SUFFICES ASSUME TraceInv PROVE Event!TypeOK
  BY DEF TraceInv
<1>1. t \in TraceStates /\ reads \in 0 .. MaxReads /\ MaxReads \in Nat
  BY TraceConstants DEF TraceInv
<1>2. \A a \in Event!Numbers \cup Event!Heads : t.val[a] \in Nat /\ t.val[a] <= reads
  BY <1>1 DEF TraceInv, TraceStates
<1>3. \A a \in Event!Numbers \cup Event!Heads : t.val[a] \in 0 .. MaxReads
  BY <1>1, <1>2
<1> QED BY <1>1, <1>3 DEF TraceInv, TraceStates, Marks, Event!TypeOK

-----------------------------------------------------------------------------
(* The parts side by side *)

Sound ==
  /\ part \in {"set_desc", "elem_data", "trace", "ruleset", "udata"}
  /\ part = "set_desc"  => DescInv
  /\ part = "elem_data" => ElemInv
  /\ part = "trace"     => TraceInv
  /\ part = "ruleset"   => RulesInv

LEMMA SoundBegins == Init => Sound
<1> SUFFICES ASSUME Init PROVE Sound
  OBVIOUS
<1>1. CASE part = "set_desc" /\ Desc!Init
  BY <1>1, DescBegin DEF Sound, Desc!Init
<1>2. CASE part = "elem_data" /\ Elem!Init
  BY <1>2, ElemBegin DEF Sound, Elem!Init
<1>3. CASE part = "trace" /\ Event!Init
  BY <1>3, TraceBegin DEF Sound, Event!Init
<1>4. CASE part = "ruleset" /\ Rules!Init
  BY <1>4, RulesBegin DEF Sound, Rules!Init, Bits
<1>5. CASE part = "udata"
  BY <1>5 DEF Sound
<1> QED BY <1>1, <1>2, <1>3, <1>4, <1>5 DEF Init

LEMMA SoundStays ==
  Sound /\ [Next]_<<part, pair, desc, elem, blocks, event, rules, data>> => Sound'
<1> SUFFICES ASSUME Sound, [Next]_<<part, pair, desc, elem, blocks, event, rules, data>>
             PROVE  Sound'
  OBVIOUS
<1>1. CASE part = "set_desc" /\ Desc!Next /\ part' = part
  BY <1>1, DescStep DEF Sound
<1>2. CASE part = "elem_data" /\ Elem!Next /\ part' = part
  BY <1>2, ElemStep DEF Sound
<1>3. CASE part = "trace" /\ Event!Next /\ part' = part
  BY <1>3, TraceStep DEF Sound
<1>4. CASE part = "ruleset" /\ Rules!Next /\ part' = part
  BY <1>4, RulesStep DEF Sound
<1>5. CASE part = "udata" /\ part' = part
  BY <1>5 DEF Sound
<1>6. CASE UNCHANGED <<part, pair, desc, elem, blocks, event, rules, data>>
  <2>1. UNCHANGED <<part, mine, theirs, told, times, msg, torn, fields, lost, sent, heap,
                    result, fault, t, reads, said, rs, list, again, out>>
    BY <1>6 DEF pair, desc, elem, blocks, event, rules
  <2>2. DescInv => DescInv'
    BY <2>1 DEF DescInv, DescMine, DescTheirs, DescStates, Zeros, Desc!Fields
  <2>3. ElemInv => ElemInv'
    BY <2>1, RemoteStays DEF ElemInv, MineInv, RemoteInv, Elem!Live, Elem!LikeFields,
       Elem!NoLeak, Elem!Arrives, Elem!Refused, Elem!Arrived, Elem!BadElem
  <2>4. TraceInv => TraceInv'
    BY <2>1 DEF TraceInv, TraceStates, Event!Exact, Event!Whole, Event!FirstName,
       Event!Before, Event!TargetIsOfVerdict, Event!NoFault, Event!MarkedIsThere,
       Event!LeaksOnly
  <2>5. RulesInv => RulesInv'
    BY <2>1 DEF RulesInv, Claims
  <2> QED BY <2>1, <2>2, <2>3, <2>4, <2>5 DEF Sound
<1> QED BY <1>1, <1>2, <1>3, <1>4, <1>5, <1>6 DEF Next

\* The part that runs keeps its invariant, and that of the lists, elements,
\* descriptions or traces is the only one that it touches (ruleset.c:77-153,
\* set_elem.c:83-182, set.c:192-195, 595-632, trace.c:329-427).
THEOREM SpecIsSound == Spec => []Sound
<1> QED BY SoundBegins, SoundStays, PTL DEF Spec

\* For a key of any number of fields, and any padding and repetition: a
\* description that is set once, or read once, arrives whole, and one that is
\* set again comes first (set.c:192-195, 382-447, 555-640).
THEOREM DescriptionsArrive == Spec => []DescExact
<1>1. Sound => DescExact
  BY DescFacts DEF Sound, DescExact
<1> QED BY <1>1, SpecIsSound, PTL

\* The union of value, verdict and chain is as good as a field for each, and a
\* list of elements of any length arrives by the builder's rules or is refused
\* for the reasons named, whatever the reader's uninitialised table held
\* (set_elem.c:113-182, 330-348, 523-541, expr/data_reg.c:100-228).
THEOREM UnionsArrive == Spec => []UnionExact
<1>1. Sound => UnionExact
  BY ElemFacts DEF Sound, UnionExact
<1> QED BY <1>1, SpecIsSound, PTL

\* A trace has what its message has, or what comes before the name there was no
\* memory for, whatever attributes there are and however many messages are read
\* into it (trace.c:282-420).
THEOREM TracesAreExact == Spec => []TraceExact
<1>1. Sound => TraceExact
  BY TraceFacts DEF Sound, TraceExact
<1> QED BY <1>1, SpecIsSound, PTL

\* In all parts but the user data, which has no memory of its own: nothing that
\* is gone is used and nothing is lost, but on the ways that are named
\* (ruleset.c:104-153, set_elem.c:83-182, set.c:194, trace.c:57-82, 305).
THEOREM PartsOwn == Spec => []Owned
<1>1. Sound => Owned
  <2> SUFFICES ASSUME Sound PROVE Owned
    OBVIOUS
  <2>1. part = "ruleset" => Rules!Owned
    BY RulesOwned DEF Sound
  <2>2. part = "elem_data" => Elem!NoFault /\ Elem!NoLeak
    BY ElemFacts DEF Sound
  <2>3. part = "set_desc" => Desc!NoFault
    BY DescFacts DEF Sound
  <2>4. part = "trace" => Event!NoFault /\ Event!MarkedIsThere /\ Event!LeaksOnly
    BY TraceFacts DEF Sound
  <2> QED BY <2>1, <2>2, <2>3, <2>4 DEF Sound, Owned
<1> QED BY <1>1, SpecIsSound, PTL
===============================================================================

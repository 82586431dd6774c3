-------------------------- MODULE ObjectMemoryProofs --------------------------
(***************************************************************************)
(* For every kind of object and however many of its attributes a program   *)
(* uses: what a call can do wrong with memory, and which habits of the     *)
(* program it takes.  The proof has three parts.  What the functions of    *)
(* ObjectKinds must agree on, one table against another, is TablesAgree:   *)
(* it is all that the proof knows of the fifteen kinds.  Storing one block *)
(* and destroying the object keep what IInv says, given what the tables    *)
(* agree on; so does a message, by induction over the parts of it.  Then   *)
(* every call is one of these or simpler.                                  *)
(***************************************************************************)

EXTENDS ObjectMemory, ListLemmas

-------------------------------------------------------------------------------
(* What the tables of one kind agree on.                                   *)

\* Kinds whose attributes can be unset: NULL is not put where a block was.
Unsetters == {"table", "chain", "rule", "set", "elem", "flowtable"}

\* How a block is replaced, by a setter or a parser: blocks released whatever
\* the bit says belong to kinds without unset, what is kept if there is no
\* memory was not released before, and a bit set without memory, or half an
\* array of devices, is known to be unsafe.
HowOK(a, how) ==
  /\ how.frees \in {"flagged", "always", "never", "mode"}
  /\ how.fails \in {"error", "keep", "flag", "ignore", "never"}
  /\ how.frees \in {"always", "mode"} => kind \notin Unsetters /\ a # "DEVICES"
  /\ how.fails = "keep" => how.frees = "never"
  /\ how.fails = "flag" => {"nomem"} \in Unsafe
  /\ a = "DEVICES" => {"nomem"} \in Unsafe /\ a \in Unchecked

SetOK(a, how) ==
  /\ HowOK(a, how)
  /\ how.fails # "never" => {"nomem"} \in Unsafe \/ {"nomem", "reset"} \in Unsafe
  /\ how.frees \in {"never", "mode"} => "reset" \in Losing(a)

ParseOK(a, how) ==
  /\ HowOK(a, how)
  /\ how.fails # "never" => \/ {"nomem"} \in Unsafe \/ {"nomem", "reparse"} \in Unsafe
                            \/ kind \in Fresh
  /\ how.frees \in {"never", "mode"} => kind \in Fresh \/ "reparse" \in Losing(a)
  /\ how.fails \in {"flag", "ignore"} => a \in Unchecked
  /\ how.fails # "flag" /\ kind \in Expressions => \A b \in Attrs : b = a

\* Expressions of a message that are released while they stay linked.
ListOK(fails) ==
  /\ fails \in {"keep", "free"}
  /\ fails = "free" => kind = "dynset" \/ {"unknown"} \in Unsafe
  /\ kind \in Expressions => \A a \in Attrs : "unknown" \in Losing(a)

EntryOK(e) ==
  IF e.attr = "EXPR" THEN ListOK(e.how.fails)
  ELSE e.attr \in Attrs /\ ParseOK(e.attr, e.how)

FreeOK(a, how) ==
  /\ how \in {"flagged", "always", "mode"}
  /\ how \in {"always", "mode"} => kind \notin Unsetters /\ a # "DEVICES"
  /\ how = "mode" => kind = "immediate" /\ "mismatch" \in Losing(a)

UnsetOK(a, does) ==
  /\ does \in {"free", "forget", "keep"}
  /\ a = "EXPR" => does = "free" /\ {"drop"} \in Unsafe
  /\ a # "EXPR" => a \in Attrs /\ kind \in Unsetters
  /\ does = "forget" => "unset" \in Losing(a)

\* The parser stores each attribute once.
ParseOnce(order) ==
  /\ Len(order) \in Nat /\ DOMAIN order = 1 .. Len(order)
  /\ \A i \in DOMAIN order : EntryOK(order[i])
  /\ \A i, j \in DOMAIN order : order[i].attr = order[j].attr => i = j

SettersAgree ==
  /\ "EXPR" \notin Attrs
  /\ \A a \in Attrs : /\ a \in DOMAIN ops[kind].set /\ SetOK(a, ops[kind].set[a])
                      /\ FreeOK(a, ops[kind].free[a])
  /\ "EXPR" \in DOMAIN ops[kind].set => {"swap"} \in Unsafe

UnsettersAgree == \A a \in DOMAIN ops[kind].unset : UnsetOK(a, ops[kind].unset[a])

TablesAgree == SettersAgree /\ UnsettersAgree /\ ParseOnce(ops[kind].parse)

\* The kinds.
LEMMA KindsAre ==
    Kinds = {"table", "chain", "rule", "set", "elem", "flowtable", "obj", "log",
             "lookup", "objref", "dynset", "match", "target", "immediate", "flow"}
  BY DEF Kinds, ops

\* Three pairs in a row.
LEMMA SixInARow ==
    ASSUME NEW a, NEW b, NEW c, NEW d, NEW e, NEW f
    PROVE  <<a, b>> \o <<c, d>> \o <<e, f>> = <<a, b, c, d, e, f>>
  <1> DEFINE p == <<a, b>>
             q == <<c, d>>
             r == <<e, f>>
             z == <<a, b, c, d, e, f>>
  <1>1. PICK S : S = {a, b, c, d, e, f}
    OBVIOUS
  <1>2. p \in Seq(S) /\ Len(p) = 2 /\ p[1] = a /\ p[2] = b
    BY <1>1
  <1>3. q \in Seq(S) /\ Len(q) = 2 /\ q[1] = c /\ q[2] = d
    BY <1>1
  <1>4. r \in Seq(S) /\ Len(r) = 2 /\ r[1] = e /\ r[2] = f
    BY <1>1
  <1>5. /\ z \in Seq(S) /\ Len(z) = 6 /\ z[1] = a /\ z[2] = b /\ z[3] = c /\ z[4] = d
        /\ z[5] = e /\ z[6] = f
    BY <1>1
  <1> HIDE DEF p, q, r, z
  <1>6. PICK t : t = p \o q
    OBVIOUS
  <1>7. t \in Seq(S) /\ Len(t) = 4 /\ t[1] = a /\ t[2] = b /\ t[3] = c /\ t[4] = d
    <2>1. /\ t \in Seq(S) /\ Len(t) = Len(p) + Len(q)
          /\ \A j \in 1 .. Len(p) : t[j] = p[j]
          /\ \A j \in Len(p) + 1 .. Len(p) + Len(q) : t[j] = q[j - Len(p)]
      BY <1>2, <1>3, <1>6, Joined
    <2> QED BY <1>2, <1>3, <2>1
  <1>8. PICK w : w = t \o r
    OBVIOUS
  <1>9. /\ w \in Seq(S) /\ Len(w) = 6 /\ w[5] = e /\ w[6] = f
        /\ w[1] = a /\ w[2] = b /\ w[3] = c /\ w[4] = d
    <2>1. /\ w \in Seq(S) /\ Len(w) = Len(t) + Len(r)
          /\ \A j \in 1 .. Len(t) : w[j] = t[j]
          /\ \A j \in Len(t) + 1 .. Len(t) + Len(r) : w[j] = r[j - Len(t)]
      BY <1>4, <1>7, <1>8, Joined
    <2> QED BY <1>4, <1>7, <2>1
  <1>10. \A j \in 1 .. 6 : w[j] = z[j]
    BY <1>5, <1>9
  <1>11. w = z
    BY <1>5, <1>9, <1>10, SeqEqual
  <1> QED BY <1>6, <1>8, <1>11 DEF p, q, r, z

\* The order in which the parser of a chain stores its attributes.
LEMMA ChainParse ==
    chain_parse = << Renewed("NAME"), Renewed("TABLE"),
                     Entry("DEV", "never", "error"), Entry("DEVICES", "never", "keep"),
                     Renewed("TYPE"), Entry("USERDATA", "flagged", "ignore") >>
  BY SixInARow DEF chain_parse, chain_parse_hook

\* The tables of every kind agree.
LEMMA AllAgree == kind \in Kinds => TablesAgree
  <1> USE DEF SetOK, FreeOK, UnsetOK, EntryOK, ParseOK, ListOK, HowOK, Renew, Lose, How,
              Renewed, Entry, Listed, NoUnset, Unsafe, NoMemAgain, Unsetters, Losing,
              Unchecked, Fresh, Expressions
  <1>1. CASE kind = "table"
    <2>1. /\ ops[kind].free = table_free /\ ops[kind].set = table_set
          /\ ops[kind].unset = table_unset /\ ops[kind].parse = table_parse
      BY <1>1 DEF ops, Ops
    <2>2. Attrs = {"NAME", "USERDATA"}
      BY <2>1 DEF Attrs, table_free
    <2>3. SettersAgree
      BY <1>1, <2>1, <2>2 DEF SettersAgree, table_set, table_free
    <2>4. UnsettersAgree
      BY <1>1, <2>1, <2>2 DEF UnsettersAgree, table_unset
    <2>5. ParseOnce(table_parse)
      BY <1>1, <2>2 DEF ParseOnce, table_parse
    <2> QED BY <2>1, <2>3, <2>4, <2>5 DEF TablesAgree
  <1>2. CASE kind = "chain"
    <2>1. /\ ops[kind].free = chain_free /\ ops[kind].set = chain_set
          /\ ops[kind].unset = chain_unset /\ ops[kind].parse = chain_parse
      BY <1>2 DEF ops, Ops
    <2>2. Attrs = {"NAME", "TABLE", "TYPE", "DEV", "USERDATA", "DEVICES"}
      BY <2>1 DEF Attrs, chain_free
    <2>3. SettersAgree
      BY <1>2, <2>1, <2>2 DEF SettersAgree, chain_set, chain_free
    <2>4. UnsettersAgree
      BY <1>2, <2>1, <2>2 DEF UnsettersAgree, chain_unset
    <2>5. ParseOnce(chain_parse)
      BY <1>2, <2>2, ChainParse DEF ParseOnce
    <2> QED BY <2>1, <2>3, <2>4, <2>5 DEF TablesAgree
  <1>3. CASE kind = "rule"
    <2>1. /\ ops[kind].free = rule_free /\ ops[kind].set = rule_set
          /\ ops[kind].unset = rule_unset /\ ops[kind].parse = rule_parse
      BY <1>3 DEF ops, Ops
    <2>2. Attrs = {"TABLE", "CHAIN", "USERDATA"}
      BY <2>1 DEF Attrs, rule_free
    <2>3. SettersAgree
      BY <1>3, <2>1, <2>2 DEF SettersAgree, rule_set, rule_free
    <2>4. UnsettersAgree
      BY <1>3, <2>1, <2>2 DEF UnsettersAgree, rule_unset
    <2>5. ParseOnce(rule_parse)
      BY <1>3, <2>2 DEF ParseOnce, rule_parse, rule_parse_expr
    <2> QED BY <2>1, <2>3, <2>4, <2>5 DEF TablesAgree
  <1>4. CASE kind = "set"
    <2>1. /\ ops[kind].free = set_free /\ ops[kind].set = set_set
          /\ ops[kind].unset = set_unset /\ ops[kind].parse = set_parse
      BY <1>4 DEF ops, Ops
    <2>2. Attrs = {"TABLE", "NAME", "USERDATA"}
      BY <2>1 DEF Attrs, set_free
    <2>3. SettersAgree
      BY <1>4, <2>1, <2>2 DEF SettersAgree, set_set, set_free
    <2>4. UnsettersAgree
      BY <1>4, <2>1, <2>2 DEF UnsettersAgree, set_unset
    <2>5. ParseOnce(set_parse)
      BY <1>4, <2>2 DEF ParseOnce, set_parse
    <2> QED BY <2>1, <2>3, <2>4, <2>5 DEF TablesAgree
  <1>5. CASE kind = "elem"
    <2>1. /\ ops[kind].free = elem_free /\ ops[kind].set = elem_set
          /\ ops[kind].unset = elem_unset /\ ops[kind].parse = elem_parse
      BY <1>5 DEF ops, Ops
    <2>2. Attrs = {"CHAIN", "USERDATA", "OBJREF"}
      BY <2>1 DEF Attrs, elem_free
    <2>3. SettersAgree
      BY <1>5, <2>1, <2>2 DEF SettersAgree, elem_set, elem_free
    <2>4. UnsettersAgree
      BY <1>5, <2>1, <2>2 DEF UnsettersAgree, elem_unset
    <2>5. ParseOnce(elem_parse)
      BY <1>5, <2>2 DEF ParseOnce, elem_parse
    <2> QED BY <2>1, <2>3, <2>4, <2>5 DEF TablesAgree
  <1>6. CASE kind = "flowtable"
    <2>1. /\ ops[kind].free = flowtable_free /\ ops[kind].set = flowtable_set
          /\ ops[kind].unset = flowtable_unset /\ ops[kind].parse = flowtable_parse
      BY <1>6 DEF ops, Ops
    <2>2. Attrs = {"NAME", "TABLE", "DEVICES"}
      BY <2>1 DEF Attrs, flowtable_free
    <2>3. SettersAgree
      BY <1>6, <2>1, <2>2 DEF SettersAgree, flowtable_set, flowtable_free
    <2>4. UnsettersAgree
      BY <1>6, <2>1, <2>2 DEF UnsettersAgree, flowtable_unset
    <2>5. ParseOnce(flowtable_parse)
      BY <1>6, <2>2 DEF ParseOnce, flowtable_parse
    <2> QED BY <2>1, <2>3, <2>4, <2>5 DEF TablesAgree
  <1>7. CASE kind = "obj"
    <2>1. /\ ops[kind].free = obj_free /\ ops[kind].set = obj_set
          /\ ops[kind].unset = NoUnset /\ ops[kind].parse = obj_parse
      BY <1>7 DEF ops, Ops
    <2>2. Attrs = {"TABLE", "NAME", "USERDATA"}
      BY <2>1 DEF Attrs, obj_free
    <2>3. SettersAgree
      BY <1>7, <2>1, <2>2 DEF SettersAgree, obj_set, obj_free
    <2>4. UnsettersAgree
      BY <2>1 DEF UnsettersAgree
    <2>5. ParseOnce(obj_parse)
      BY <1>7, <2>2 DEF ParseOnce, obj_parse
    <2> QED BY <2>1, <2>3, <2>4, <2>5 DEF TablesAgree
  <1>8. CASE kind = "log"
    <2>1. /\ ops[kind].free = log_free /\ ops[kind].set = log_set
          /\ ops[kind].unset = NoUnset /\ ops[kind].parse = log_parse
      BY <1>8 DEF ops, Ops
    <2>2. Attrs = {"PREFIX"}
      BY <2>1 DEF Attrs, log_free
    <2>3. SettersAgree
      BY <1>8, <2>1, <2>2 DEF SettersAgree, log_set, log_free
    <2>4. UnsettersAgree
      BY <2>1 DEF UnsettersAgree
    <2>5. ParseOnce(log_parse)
      BY <1>8, <2>2 DEF ParseOnce, log_parse
    <2> QED BY <2>1, <2>3, <2>4, <2>5 DEF TablesAgree
  <1>9. CASE kind = "lookup"
    <2>1. /\ ops[kind].free = lookup_free /\ ops[kind].set = lookup_set
          /\ ops[kind].unset = NoUnset /\ ops[kind].parse = lookup_parse
      BY <1>9 DEF ops, Ops
    <2>2. Attrs = {"SET"}
      BY <2>1 DEF Attrs, lookup_free
    <2>3. SettersAgree
      BY <1>9, <2>1, <2>2 DEF SettersAgree, lookup_set, lookup_free
    <2>4. UnsettersAgree
      BY <2>1 DEF UnsettersAgree
    <2>5. ParseOnce(lookup_parse)
      BY <1>9, <2>2 DEF ParseOnce, lookup_parse
    <2> QED BY <2>1, <2>3, <2>4, <2>5 DEF TablesAgree
  <1>10. CASE kind = "objref"
    <2>1. /\ ops[kind].free = objref_free /\ ops[kind].set = objref_set
          /\ ops[kind].unset = NoUnset /\ ops[kind].parse = objref_parse
      BY <1>10 DEF ops, Ops
    <2>2. Attrs = {"IMM_NAME", "SET_NAME"}
      BY <2>1 DEF Attrs, objref_free
    <2>3. SettersAgree
      BY <1>10, <2>1, <2>2 DEF SettersAgree, objref_set, objref_free
    <2>4. UnsettersAgree
      BY <2>1 DEF UnsettersAgree
    <2>5. ParseOnce(objref_parse)
      BY <1>10, <2>2 DEF ParseOnce, objref_parse
    <2> QED BY <2>1, <2>3, <2>4, <2>5 DEF TablesAgree
  <1>11. CASE kind = "dynset"
    <2>1. /\ ops[kind].free = dynset_free /\ ops[kind].set = dynset_set
          /\ ops[kind].unset = NoUnset /\ ops[kind].parse = dynset_parse
      BY <1>11 DEF ops, Ops
    <2>2. Attrs = {"SET_NAME"}
      BY <2>1 DEF Attrs, dynset_free
    <2>3. SettersAgree
      BY <1>11, <2>1, <2>2 DEF SettersAgree, dynset_set, dynset_free
    <2>4. UnsettersAgree
      BY <2>1 DEF UnsettersAgree
    <2>5. ParseOnce(dynset_parse)
      BY <1>11, <2>2 DEF ParseOnce, dynset_parse
    <2> QED BY <2>1, <2>3, <2>4, <2>5 DEF TablesAgree
  <1>12. CASE kind = "match"
    <2>1. /\ ops[kind].free = match_free /\ ops[kind].set = match_set
          /\ ops[kind].unset = NoUnset /\ ops[kind].parse = match_parse
      BY <1>12 DEF ops, Ops
    <2>2. Attrs = {"INFO"}
      BY <2>1 DEF Attrs, match_free
    <2>3. SettersAgree
      BY <1>12, <2>1, <2>2 DEF SettersAgree, match_set, match_free
    <2>4. UnsettersAgree
      BY <2>1 DEF UnsettersAgree
    <2>5. ParseOnce(match_parse)
      BY <1>12, <2>2 DEF ParseOnce, match_parse
    <2> QED BY <2>1, <2>3, <2>4, <2>5 DEF TablesAgree
  <1>13. CASE kind = "target"
    <2>1. /\ ops[kind].free = target_free /\ ops[kind].set = target_set
          /\ ops[kind].unset = NoUnset /\ ops[kind].parse = target_parse
      BY <1>13 DEF ops, Ops
    <2>2. Attrs = {"INFO"}
      BY <2>1 DEF Attrs, target_free
    <2>3. SettersAgree
      BY <1>13, <2>1, <2>2 DEF SettersAgree, target_set, target_free
    <2>4. UnsettersAgree
      BY <2>1 DEF UnsettersAgree
    <2>5. ParseOnce(target_parse)
      BY <1>13, <2>2 DEF ParseOnce, target_parse
    <2> QED BY <2>1, <2>3, <2>4, <2>5 DEF TablesAgree
  <1>14. CASE kind = "immediate"
    <2>1. /\ ops[kind].free = immediate_free /\ ops[kind].set = immediate_set
          /\ ops[kind].unset = NoUnset /\ ops[kind].parse = immediate_parse
      BY <1>14 DEF ops, Ops
    <2>2. Attrs = {"CHAIN"}
      BY <2>1 DEF Attrs, immediate_free
    <2>3. SettersAgree
      BY <1>14, <2>1, <2>2 DEF SettersAgree, immediate_set, immediate_free
    <2>4. UnsettersAgree
      BY <2>1 DEF UnsettersAgree
    <2>5. ParseOnce(immediate_parse)
      BY <1>14, <2>2 DEF ParseOnce, immediate_parse
    <2> QED BY <2>1, <2>3, <2>4, <2>5 DEF TablesAgree
  <1>15. CASE kind = "flow"
    <2>1. /\ ops[kind].free = flow_free /\ ops[kind].set = flow_set
          /\ ops[kind].unset = NoUnset /\ ops[kind].parse = flow_parse
      BY <1>15 DEF ops, Ops
    <2>2. Attrs = {"TABLE_NAME"}
      BY <2>1 DEF Attrs, flow_free
    <2>3. SettersAgree
      BY <1>15, <2>1, <2>2 DEF SettersAgree, flow_set, flow_free
    <2>4. UnsettersAgree
      BY <2>1 DEF UnsettersAgree
    <2>5. ParseOnce(flow_parse)
      BY <1>15, <2>2 DEF ParseOnce, flow_parse
    <2> QED BY <2>1, <2>3, <2>4, <2>5 DEF TablesAgree
  <1> QED BY <1>1, <1>2, <1>3, <1>4, <1>5, <1>6, <1>7, <1>8, <1>9, <1>10, <1>11,
             <1>12, <1>13, <1>14, <1>15, KindsAre

-------------------------------------------------------------------------------
(* The invariant, of an object x and the habits s that were seen.          *)

Pardoned(s) == \E h \in Unsafe : h \subseteq s

Pointers == {"null", "block", "holes", "freed"}

Obj == [live : BOOLEAN, flags : SUBSET (used \cup {"EXPR"}), ptr : [Attrs -> Pointers],
        list : {"none", "live", "dead"}, mode : BOOLEAN,
        leak : SUBSET used, fault : BOOLEAN]

\* Of every object, destroyed ones included.
Excused(x, s) ==
  /\ x \in Obj
  /\ \A a \in Attrs : Holds(x, a) => a \in used
  /\ x.fault => Pardoned(s)
  /\ \A a \in x.leak : Losing(a) \cap s # {}

\* Of one that lives: a bit means memory or NULL, and memory a bit.  Only
\* where unset is known is a freed block forgotten by clearing its bit.
Kept(x, s) ==
  /\ \A a \in x.flags \cap Attrs : Holds(x, a) \/ (x.ptr[a] = "null" /\ "nomem" \in s)
  /\ \A a \in Attrs : x.ptr[a] = "freed" => kind \in Unsetters
  /\ \A a \in Attrs : Holds(x, a) => a \in x.flags \/ Losing(a) \cap s # {}
  /\ Pardoned(s) \/ \A a \in x.flags \cap Attrs : x.ptr[a] = "block"

\* No expression that was released is linked.
Linked(x, s) == Pardoned(s) \/ x.list # "dead"

\* What a call said it stored is there.
Arrived(x, a, s) ==
  \/ a \in x.flags /\ x.ptr[a] = "block"
  \/ a \in Unchecked /\ "nomem" \in s

True(x, t, s) == \A a \in t : Arrived(x, a, s)

Inv(x, t, s) ==
  /\ kind \in Kinds /\ used \subseteq Attrs /\ t \subseteq used /\ s \subseteq Habits
  /\ Excused(x, s)
  /\ x.live => Kept(x, s) /\ Linked(x, s) /\ True(x, t, s)

IInv == Inv(o, told, seen)

\* What was excused stays excused.
LEMMA HabitsAdd ==
    ASSUME NEW x, NEW s, NEW t, s \subseteq t
    PROVE  /\ Pardoned(s) => Pardoned(t)
           /\ Excused(x, s) => Excused(x, t)
           /\ Kept(x, s) => Kept(x, t)
           /\ Linked(x, s) => Linked(x, t)
  <1>1. Pardoned(s) => Pardoned(t)
    BY DEF Pardoned
  <1>2. \A a : Losing(a) \cap s # {} => Losing(a) \cap t # {}
    OBVIOUS
  <1> QED BY <1>1, <1>2 DEF Excused, Kept, Linked

-------------------------------------------------------------------------------
(* Storing a block.                                                        *)

\* What the habits say of storing v over what x has of an attribute.
Storable(x, a, how, v, s) ==
  /\ a \in used /\ v \in Outcomes(a, how) /\ HowOK(a, how)
  /\ v # "block" => "nomem" \in s
  /\ v # "block" /\ (a \in x.flags \/ v # "null" \/ how.fails = "flag") => Pardoned(s)
  /\ how.frees \in {"never", "mode"} /\ Holds(x, a) => Losing(a) \cap s # {}

\* y is x with another pointer for a, and nothing else but a.
Restored(y, x, a) ==
  /\ y.live = x.live /\ y.list = x.list /\ y.mode = x.mode
  /\ \A b \in Attrs \ {a} : y.ptr[b] = x.ptr[b] /\ (b \in y.flags <=> b \in x.flags)
  /\ y.flags \subseteq x.flags \cup {a}
  /\ x.flags \subseteq y.flags

\* The fields of an object y after v was stored in x.
Stored(y, x, a, how, v) ==
  /\ y.live = x.live /\ y.list = x.list /\ y.mode = x.mode
  /\ \A b \in Attrs \ {a} : y.ptr[b] = x.ptr[b]
  /\ y.flags = IF v = "null" /\ how.fails # "flag" THEN x.flags ELSE x.flags \cup {a}
  /\ v # "null" \/ how.fails # "keep" => y.ptr[a] = v
  /\ (v = "null" /\ how.fails = "keep" /\ ~ Frees(how.frees, x, a)) => y.ptr[a] = x.ptr[a]
  /\ y.leak \subseteq x.leak \cup {a}
  /\ (a \in y.leak => a \in x.leak \/ (Holds(x, a) /\ ~ Frees(how.frees, x, a)))
  /\ y.fault = (x.fault \/ (Frees(how.frees, x, a) /\ BadFree(x, a)))
  /\ y.ptr \in [Attrs -> Pointers]
  /\ y = [live |-> y.live, flags |-> y.flags, ptr |-> y.ptr, list |-> y.list,
          mode |-> y.mode, leak |-> y.leak, fault |-> y.fault]

\* What storing a block does, field by field.
LEMMA StoreFields ==
    ASSUME used \subseteq Attrs, NEW x \in Obj, NEW a \in Attrs, NEW how, NEW v \in Pointers,
           NEW y, y = Store(x, a, how, v)
    PROVE  Stored(y, x, a, how, v)
  <1>1. PICK r : r = IF Frees(how.frees, x, a) THEN Release(x, a) ELSE x
    OBVIOUS
  <1>2. /\ r = [live |-> r.live, flags |-> r.flags, ptr |-> r.ptr, list |-> r.list,
                mode |-> r.mode, leak |-> r.leak, fault |-> r.fault]
        /\ r.live = x.live /\ r.list = x.list /\ r.mode = x.mode /\ r.flags = x.flags
        /\ r.leak = x.leak /\ r.ptr \in [Attrs -> Pointers]
        /\ \A b \in Attrs \ {a} : r.ptr[b] = x.ptr[b]
        /\ r.fault = (x.fault \/ (Frees(how.frees, x, a) /\ BadFree(x, a)))
        /\ ~ Frees(how.frees, x, a) => r.ptr[a] = x.ptr[a]
        /\ Frees(how.frees, x, a) => ~ Holds(r, a)
    <2>1. CASE Frees(how.frees, x, a)
      BY <1>1, <2>1 DEF Release, Obj, Pointers, Holds
    <2>2. CASE ~ Frees(how.frees, x, a)
      BY <1>1, <2>2 DEF Obj
    <2> QED BY <2>1, <2>2
  <1>3. PICK w : w = IF v = "null" /\ how.fails = "keep" THEN r ELSE Overwrite(r, a, v)
    OBVIOUS
  <1>4. /\ w = [live |-> w.live, flags |-> w.flags, ptr |-> w.ptr, list |-> w.list,
                mode |-> w.mode, leak |-> w.leak, fault |-> w.fault]
        /\ w.live = r.live /\ w.list = r.list /\ w.mode = r.mode /\ w.flags = r.flags
        /\ w.fault = r.fault /\ w.ptr \in [Attrs -> Pointers]
        /\ \A b \in Attrs \ {a} : w.ptr[b] = r.ptr[b]
        /\ v # "null" \/ how.fails # "keep" => w.ptr[a] = v
        /\ v = "null" /\ how.fails = "keep" => w.ptr[a] = r.ptr[a]
        /\ w.leak = r.leak \/ (w.leak = r.leak \cup {a} /\ Holds(r, a))
    <2>1. CASE v = "null" /\ how.fails = "keep"
      BY <1>2, <1>3, <2>1
    <2>2. CASE ~ (v = "null" /\ how.fails = "keep")
      BY <1>2, <1>3, <2>2 DEF Overwrite
    <2> QED BY <2>1, <2>2
  <1>5. y = IF v = "null" /\ how.fails # "flag" THEN w ELSE [w EXCEPT !.flags = @ \cup {a}]
    BY <1>1, <1>3 DEF Store
  <1>6. Holds(r, a) => Holds(x, a) /\ ~ Frees(how.frees, x, a)
    BY <1>2 DEF Holds
  <1> QED BY <1>2, <1>4, <1>5, <1>6 DEF Stored

\* A block may be stored where the habits say so, and changes nothing else.
LEMMA StoreKeeps ==
    ASSUME used \subseteq Attrs, "EXPR" \notin Attrs,
           NEW x, NEW s, NEW a, NEW how, NEW v, Storable(x, a, how, v, s),
           Excused(x, s), Kept(x, s), NEW y, y = Store(x, a, how, v)
    PROVE  /\ Excused(y, s) /\ Kept(y, s) /\ Restored(y, x, a)
           /\ v = "null" => y.ptr[a] = "null" \/ y.ptr[a] = x.ptr[a]
           /\ v # "null" \/ how.fails = "flag" => a \in y.flags /\ y.ptr[a] = v
  <1>1. /\ x \in Obj /\ a \in Attrs /\ v \in Pointers /\ HowOK(a, how) /\ a \in used
        /\ v \in {"null", "block", "holes"}
    BY DEF Excused, Storable, Outcomes, Pointers
  <1>2. Stored(y, x, a, how, v)
    BY <1>1, StoreFields
  <1> USE DEF Stored
  <1>3. v = "null" /\ how.fails = "keep" => y.ptr[a] = x.ptr[a]
    BY <1>1, <1>2 DEF HowOK, Frees
  <1>4. y \in Obj
    <2>1. y.flags \in SUBSET (used \cup {"EXPR"}) /\ y.leak \in SUBSET used
      BY <1>1, <1>2 DEF Obj
    <2>2. /\ y.live \in BOOLEAN /\ y.list \in {"none", "live", "dead"}
          /\ y.mode \in BOOLEAN /\ y.fault \in BOOLEAN
      BY <1>1, <1>2 DEF Obj
    <2> QED BY <1>2, <2>1, <2>2 DEF Obj
  <1>5. y.fault => Pardoned(s)
    <2>1. CASE Frees(how.frees, x, a) /\ BadFree(x, a)
      <3>1. CASE how.frees \in {"always", "mode"}
        BY <1>1, <2>1, <3>1 DEF HowOK, BadFree, Kept
      <3>2. CASE how.frees \notin {"always", "mode"}
        <4>1. a \in x.flags
          BY <2>1, <3>2 DEF Frees
        <4> QED BY <1>1, <2>1, <4>1 DEF BadFree, Kept, Holds
      <3> QED BY <3>1, <3>2
    <2> QED BY <1>2, <2>1 DEF Excused
  <1>6. \A b \in y.leak : Losing(b) \cap s # {}
    <2>1. Holds(x, a) /\ ~ Frees(how.frees, x, a) => Losing(a) \cap s # {}
      <3>1. how.frees # "always" => \/ how.frees \in {"never", "mode"}
                                    \/ how.frees = "flagged"
        BY <1>1 DEF HowOK
      <3> QED BY <1>1, <3>1 DEF Frees, Kept, Storable
    <2> QED BY <1>2, <2>1 DEF Excused
  <1>7. \A b \in Attrs : Holds(y, b) => b \in used
    BY <1>1, <1>2 DEF Holds, Excused
  <1>8. \A b \in Attrs \ {a} : /\ Holds(y, b) <=> Holds(x, b)
                               /\ b \in y.flags <=> b \in x.flags
    BY <1>2 DEF Holds
  <1>9. /\ a \in y.flags => Holds(y, a) \/ (y.ptr[a] = "null" /\ "nomem" \in s)
        /\ y.ptr[a] = "freed" => kind \in Unsetters
        /\ Holds(y, a) => a \in y.flags \/ Losing(a) \cap s # {}
        /\ Pardoned(s) \/ a \notin y.flags \/ y.ptr[a] = "block"
    <2>1. CASE v = "null" /\ how.fails = "keep"
      BY <1>1, <1>2, <1>3, <2>1 DEF Kept, Holds
    <2>2. CASE v # "null" \/ how.fails # "keep"
      <3>1. y.ptr[a] = v
        BY <1>2, <2>2
      <3>2. v = "null" => "nomem" \in s
        BY DEF Storable
      <3>3. v = "block" \/ Pardoned(s) \/ a \notin y.flags
        BY <1>2 DEF Storable
      <3>4. v # "null" => a \in y.flags
        BY <1>2
      <3> QED BY <1>1, <3>1, <3>2, <3>3, <3>4 DEF Holds
    <2> QED BY <2>1, <2>2
  <1>10. Kept(y, s)
    BY <1>2, <1>8, <1>9 DEF Kept
  <1>11. Restored(y, x, a)
    BY <1>2 DEF Restored
  <1> QED BY <1>2, <1>3, <1>4, <1>5, <1>6, <1>7, <1>10, <1>11 DEF Excused

\* Destroying an object frees what it holds, but for what the habits explain.
LEMMA DestroyKeeps ==
    ASSUME used \subseteq Attrs, TablesAgree,
           NEW x, NEW s, Excused(x, s), Kept(x, s), Linked(x, s),
           kind = "immediate" => x.mode \/ "mismatch" \in s,
           NEW y, y = Destroy(x)
    PROVE  Excused(y, s) /\ ~ y.live
  <1>1. PICK freed : freed = {a \in Attrs : Frees(ops[kind].free[a], x, a)}
    OBVIOUS
  <1>2. PICK r : r = FreeListed(x)
    OBVIOUS
  <1>3. x \in Obj
    BY DEF Excused
  <1>4. r = [x EXCEPT !.fault = x.fault \/ x.list = "dead",
                      !.list = IF x.list = "none" THEN x.list ELSE "dead"]
    BY <1>2 DEF FreeListed
  <1>5. /\ y.live = FALSE /\ y.fault = (x.fault \/ x.list = "dead" \/ \E a \in freed : BadFree(x, a))
        /\ y.leak = x.leak \cup {a \in Attrs \ freed : Holds(x, a)}
        /\ y.ptr = [a \in Attrs |-> IF a \in freed THEN "freed" ELSE x.ptr[a]]
        /\ y.flags = x.flags /\ y.mode = x.mode /\ y.list \in {"none", "live", "dead"}
        /\ y = [live |-> y.live, flags |-> y.flags, ptr |-> y.ptr, list |-> y.list,
                mode |-> y.mode, leak |-> y.leak, fault |-> y.fault]
    <2>1. /\ r.fault = (x.fault \/ x.list = "dead") /\ r.leak = x.leak /\ r.flags = x.flags
          /\ r.mode = x.mode /\ r.list \in {"none", "live", "dead"} /\ r.ptr = x.ptr
          /\ r = [live |-> r.live, flags |-> r.flags, ptr |-> r.ptr, list |-> r.list,
                  mode |-> r.mode, leak |-> r.leak, fault |-> r.fault]
      BY <1>3, <1>4 DEF Obj
    <2>2. y = [r EXCEPT !.live  = FALSE,
                        !.fault = r.fault \/ \E a \in freed : BadFree(x, a),
                        !.leak  = r.leak \cup {a \in Attrs \ freed : Holds(x, a)},
                        !.ptr   = [a \in Attrs |->
                                     IF a \in freed THEN "freed" ELSE x.ptr[a]]]
      BY <1>1, <1>2 DEF Destroy
    <2> QED BY <2>1, <2>2
  <1>6. ASSUME NEW a \in freed, BadFree(x, a) PROVE Pardoned(s)
    <2>1. a \in Attrs /\ FreeOK(a, ops[kind].free[a]) /\ Frees(ops[kind].free[a], x, a)
      BY <1>1 DEF TablesAgree, SettersAgree
    <2>2. CASE ops[kind].free[a] = "flagged"
      <3>1. a \in x.flags
        BY <2>1, <2>2 DEF Frees
      <3> QED BY <1>6, <2>1, <3>1 DEF BadFree, Kept, Holds
    <2>3. CASE ops[kind].free[a] # "flagged"
      BY <1>6, <2>1, <2>3 DEF FreeOK, BadFree, Kept
    <2> QED BY <2>2, <2>3
  <1>7. ASSUME NEW a \in Attrs \ freed, Holds(x, a) PROVE Losing(a) \cap s # {}
    <2>1. FreeOK(a, ops[kind].free[a]) /\ ~ Frees(ops[kind].free[a], x, a)
      BY <1>1 DEF TablesAgree, SettersAgree
    <2>2. CASE ops[kind].free[a] = "flagged"
      BY <1>7, <2>1, <2>2 DEF Frees, Kept
    <2>3. CASE ops[kind].free[a] # "flagged"
      BY <2>1, <2>3 DEF FreeOK, Frees
    <2> QED BY <2>2, <2>3
  <1>8. y.fault => Pardoned(s)
    BY <1>5, <1>6 DEF Excused, Linked
  <1>9. \A a \in y.leak : Losing(a) \cap s # {}
    BY <1>5, <1>7 DEF Excused
  <1>10. \A a \in Attrs : Holds(y, a) => a \in used
    BY <1>5 DEF Holds, Excused
  <1>11. y \in Obj
    <2>1. y.leak \in SUBSET used
      BY <1>3, <1>5 DEF Excused, Obj
    <2>2. y.ptr \in [Attrs -> Pointers]
      BY <1>3, <1>5 DEF Obj, Pointers
    <2>3. y.fault \in BOOLEAN
      BY <1>3, <1>5 DEF Obj
    <2> QED BY <1>3, <1>5, <2>1, <2>2, <2>3 DEF Obj
  <1> QED BY <1>5, <1>8, <1>9, <1>10, <1>11 DEF Excused

-------------------------------------------------------------------------------
(* Reading a message, part by part.                                        *)

\* The first n parts of the parser's order, one after the other.
ParseSteps(v, n, upto) ==
  upto = [i \in 0..n |-> IF i = 0 THEN [x |-> o, stop |-> FALSE]
                         ELSE ParseAttr(v, upto[i - 1], ops[kind].parse[i])]

\* There is one sequence of steps.
LEMMA ParseUnique ==
    ASSUME NEW v, NEW n \in Nat, NEW g, ParseSteps(v, n, g), NEW h, ParseSteps(v, n, h)
    PROVE  g = h
  <1> DEFINE T == {i \in Nat : i \in 0..n => g[i] = h[i]}
             F(i, p) == ParseAttr(v, p, ops[kind].parse[i])
             z == [x |-> o, stop |-> FALSE]
             Steps(f) == f = [i \in 0..n |-> IF i = 0 THEN z ELSE F(i, f[i - 1])]
  <1>0. Steps(g) /\ Steps(h)
    BY DEF ParseSteps
  <1> HIDE DEF F, z
  <1>1. ASSUME NEW f, Steps(f)
        PROVE  /\ f = [i \in 0..n |-> f[i]]
               /\ f[0] = z
               /\ \A i \in 0..n : i # 0 => f[i] = F(i, f[i - 1])
    <2>1. f[0] = z
      BY <1>1
    <2>2. \A i \in 0..n : i # 0 => f[i] = F(i, f[i - 1])
      BY <1>1
    <2> QED BY <1>1, <2>1, <2>2
  <1>6. /\ g = [i \in 0..n |-> g[i]] /\ h = [i \in 0..n |-> h[i]]
        /\ g[0] = h[0]
        /\ \A i \in 0..n : i # 0 => g[i] = F(i, g[i - 1]) /\ h[i] = F(i, h[i - 1])
    BY <1>0, <1>1
  <1> HIDE DEF Steps
  <1>2. 0 \in T
    BY <1>6
  <1>3. ASSUME NEW i \in Nat, i \in T PROVE i + 1 \in T
    <2> SUFFICES ASSUME i + 1 \in 0..n PROVE g[i + 1] = h[i + 1]
      OBVIOUS
    <2>1. g[i] = h[i] /\ i + 1 # 0 /\ (i + 1) - 1 = i
      BY <1>3
    <2> QED BY <1>6, <2>1
  <1> HIDE DEF T
  <1>4. Nat \subseteq T
    BY <1>2, <1>3, SetInduction
  <1>5. \A i \in 0..n : g[i] = h[i]
    BY <1>4 DEF T
  <1> QED BY <1>5, <1>6

\* There are steps up to each part.
LEMMA ParseDefined ==
    ASSUME NEW v, NEW n \in Nat
    PROVE  \E g : ParseSteps(v, n, g)
  <1> DEFINE T == {k \in Nat : \E g : ParseSteps(v, k, g)}
             F(i, p) == ParseAttr(v, p, ops[kind].parse[i])
             z == [x |-> o, stop |-> FALSE]
             Steps(k, g) == g = [i \in 0..k |-> IF i = 0 THEN z ELSE F(i, g[i - 1])]
  <1>1. \A k, g : Steps(k, g) <=> ParseSteps(v, k, g)
    BY DEF ParseSteps
  <1> HIDE DEF F, z
  <1>2. 0 \in T
    <2>1. PICK g : g = [i \in 0..0 |-> z]
      OBVIOUS
    <2>2. Steps(0, g)
      BY <2>1
    <2> QED BY <1>1, <2>2
  <1>3. ASSUME NEW k \in Nat, k \in T PROVE k + 1 \in T
    <2>1. PICK g : Steps(k, g)
      BY <1>1, <1>3
    <2>2. PICK h : h = [i \in 0..k + 1 |-> IF i = k + 1 THEN F(i, g[k]) ELSE g[i]]
      OBVIOUS
    <2>3. g[0] = z /\ \A i \in 0..k : i # 0 => g[i] = F(i, g[i - 1])
      BY <2>1
    <2>4. ASSUME NEW i \in 0..k + 1
          PROVE  h[i] = IF i = 0 THEN z ELSE F(i, h[i - 1])
      <3>1. CASE i = k + 1
        <4>1. h[i] = F(i, g[k]) /\ i # 0 /\ i - 1 = k /\ k \in 0..k + 1 /\ k # k + 1
          BY <2>2, <3>1
        <4>2. h[k] = g[k]
          BY <2>2, <4>1
        <4> QED BY <4>1, <4>2
      <3>2. CASE i # k + 1
        <4>1. i \in 0..k /\ h[i] = g[i]
          BY <2>2, <3>2
        <4>2. i # 0 => i - 1 \in 0..k + 1 /\ i - 1 # k + 1
          BY <4>1
        <4>3. i # 0 => h[i - 1] = g[i - 1]
          BY <2>2, <4>2
        <4> QED BY <2>3, <4>1, <4>3
      <3> QED BY <3>1, <3>2
    <2>5. h = [i \in 0..k + 1 |-> h[i]]
      BY <2>2
    <2>6. Steps(k + 1, h)
      BY <2>4, <2>5
    <2> QED BY <1>1, <2>6
  <1> HIDE DEF T
  <1>4. Nat \subseteq T
    BY <1>2, <1>3, SetInduction
  <1> QED BY <1>4 DEF T

\* What is parsed is where the steps end.
LEMMA ParsedIs ==
    ASSUME NEW v, Len(ops[kind].parse) \in Nat
    PROVE  \E g : /\ ParseSteps(v, Len(ops[kind].parse), g)
                  /\ Parsed(v) = g[Len(ops[kind].parse)]
  <1>1. PICK n \in Nat : n = Len(ops[kind].parse)
    OBVIOUS
  <1>2. PICK g : ParseSteps(v, n, g)
    BY ParseDefined
  <1>3. \A h : ParseSteps(v, n, h) => h = g
    BY <1>2, ParseUnique
  <1>4. Parsed(v) = g[n]
    BY <1>1, <1>2, <1>3 DEF Parsed, ParseSteps
  <1> QED BY <1>1, <1>2, <1>4

\* What is known of a message v that is read, s the habits with the reading.
Reading(v, s) ==
  /\ seen \subseteq s
  /\ \A a \in DOMAIN v : \E j \in DOMAIN ops[kind].parse : ops[kind].parse[j].attr = a
  /\ \A j \in DOMAIN ops[kind].parse :
       LET e == ops[kind].parse[j] IN
         e.attr \in DOMAIN v => v[e.attr] \in ParseOutcomes(e) /\ e.attr \in used \cup {"EXPR"}
  /\ \A a \in DOMAIN v \ {"EXPR"} : v[a] # "block" => "nomem" \in s
  /\ "EXPR" \in DOMAIN v /\ v["EXPR"] # "block" => "unknown" \in s
  /\ o.flags # {} => "reparse" \in s
  /\ kind \in Fresh => o.flags = {} /\ \A a \in Attrs : ~ Holds(o, a)

\* Of an attribute there is one entry, and a message says how storing it goes.
LEMMA MessageOf ==
    ASSUME TablesAgree, NEW v \in Messages
    PROVE  /\ DOMAIN v \subseteq used \cup {"EXPR"}
           /\ \A a \in DOMAIN v : \E j \in DOMAIN ops[kind].parse : ops[kind].parse[j].attr = a
           /\ \A j \in DOMAIN ops[kind].parse :
                ops[kind].parse[j].attr \in DOMAIN v =>
                  v[ops[kind].parse[j].attr] \in ParseOutcomes(ops[kind].parse[j])
  <1>1. PICK order : order = ops[kind].parse
    OBVIOUS
  <1>2. PICK usable : usable = {e \in ToSet(order) : e.attr \in used \cup {"EXPR"}}
    OBVIOUS
  <1>3. PICK z \in SUBSET usable :
              v \in {w \in [{e.attr : e \in z} -> {"block", "holes", "part", "null"}] :
                       \A e \in z : w[e.attr] \in ParseOutcomes(e)}
    BY <1>1, <1>2 DEF Messages
  <1>4. DOMAIN v = {e.attr : e \in z} /\ \A e \in z : v[e.attr] \in ParseOutcomes(e)
    BY <1>3
  <1>5. \A e \in z : e.attr \in used \cup {"EXPR"} /\ \E i \in DOMAIN order : order[i] = e
    BY <1>2 DEF ToSet
  <1>6. \A i, j \in DOMAIN order : order[i].attr = order[j].attr => i = j
    BY <1>1 DEF TablesAgree, ParseOnce
  <1>7. ASSUME NEW j \in DOMAIN order, order[j].attr \in DOMAIN v
        PROVE  v[order[j].attr] \in ParseOutcomes(order[j])
    <2>1. PICK e \in z : e.attr = order[j].attr
      BY <1>4, <1>7
    <2>2. PICK i \in DOMAIN order : order[i] = e
      BY <1>5
    <2>3. i = j
      BY <1>6, <2>1, <2>2
    <2> QED BY <1>4, <2>1, <2>2, <2>3
  <1>8. ASSUME NEW a \in DOMAIN v
        PROVE  a \in used \cup {"EXPR"} /\ \E j \in DOMAIN order : order[j].attr = a
    <2>1. PICK e \in z : e.attr = a
      BY <1>4
    <2> QED BY <1>5, <2>1
  <1> QED BY <1>1, <1>7, <1>8

\* Storing did not get to a yet.
Untouched(x, a) == x.ptr[a] = o.ptr[a] /\ (a \in x.flags <=> a \in o.flags)

\* Between two parts of a message, i of them done.
Midway(p, i, v, s) ==
  /\ p.stop \in BOOLEAN /\ p.x.live
  /\ Excused(p.x, s) /\ Kept(p.x, s)
  /\ Linked(p.x, s) \/ (p.stop /\ kind \in Expressions)
  /\ \A j \in DOMAIN ops[kind].parse :
       LET a == ops[kind].parse[j].attr IN
         /\ j > i /\ a \in Attrs /\ ~ p.stop => Untouched(p.x, a)
         /\ j <= i /\ a \in Attrs \cap DOMAIN v /\ ~ p.stop => Arrived(p.x, a, s)
  /\ p.stop /\ kind \in Expressions =>
       \A a \in Attrs : Holds(p.x, a) => Losing(a) \cap s # {}

\* The expressions of a message: released where they are linked only if that
\* is excused, or if the object goes away with them.
LEMMA ListedKeeps ==
    ASSUME "EXPR" \notin Attrs, NEW x, NEW s, NEW fails, NEW w \in {"block", "part", "null"},
           Excused(x, s), Kept(x, s), Linked(x, s),
           ListOK(fails), w # "block" => "unknown" \in s,
           NEW y, y = ParseListed(x, fails, w)
    PROVE  /\ Excused(y, s) /\ Kept(y, s) /\ y.live = x.live
           /\ y.ptr = x.ptr /\ y.flags \cap Attrs = x.flags \cap Attrs
           /\ Linked(y, s) \/ (w # "block" /\ kind \in Expressions)
  <1>1. x \in Obj
    BY DEF Excused
  <1>2. PICK r : r = IF w = "null" THEN x ELSE Link(x)
    OBVIOUS
  <1>3. /\ r = [live |-> r.live, flags |-> r.flags, ptr |-> r.ptr, list |-> r.list,
                mode |-> r.mode, leak |-> r.leak, fault |-> r.fault]
        /\ r.live = x.live /\ r.flags = x.flags /\ r.ptr = x.ptr /\ r.mode = x.mode
        /\ r.leak = x.leak /\ r.fault \in BOOLEAN
        /\ r.list \in {"none", "live", "dead"}
        /\ r.list = "dead" => x.list = "dead"
        /\ r.fault => x.fault \/ x.list = "dead"
    <2>1. CASE w = "null"
      BY <1>1, <1>2, <2>1 DEF Obj
    <2>2. CASE w # "null"
      BY <1>1, <1>2, <2>2 DEF Obj, Link
    <2> QED BY <2>1, <2>2
  <1>4. y = IF w = "block" THEN [r EXCEPT !.flags = @ \cup {"EXPR"}]
            ELSE IF fails = "free" THEN FreeListed(r) ELSE r
    BY <1>2 DEF ParseListed
  <1>5. /\ y = [live |-> y.live, flags |-> y.flags, ptr |-> y.ptr, list |-> y.list,
                mode |-> y.mode, leak |-> y.leak, fault |-> y.fault]
        /\ y.live = x.live /\ y.ptr = x.ptr /\ y.mode = x.mode
        /\ y.leak = x.leak /\ y.fault \in BOOLEAN
        /\ y.flags \in {x.flags, x.flags \cup {"EXPR"}}
        /\ y.list \in {"none", "live", "dead"}
        /\ y.fault => x.fault \/ x.list = "dead"
        /\ y.list = "dead" => x.list = "dead" \/ (w # "block" /\ fails = "free")
    <2>1. CASE w = "block"
      <3>1. y = [r EXCEPT !.flags = r.flags \cup {"EXPR"}]
        BY <1>4, <2>1
      <3> QED BY <1>3, <2>1, <3>1
    <2>2. CASE w # "block" /\ fails = "free"
      <3>1. y = [r EXCEPT !.fault = r.fault \/ r.list = "dead",
                          !.list = IF r.list = "none" THEN r.list ELSE "dead"]
        BY <1>4, <2>2 DEF FreeListed
      <3> QED BY <1>3, <2>2, <3>1
    <2>3. CASE w # "block" /\ fails # "free"
      BY <1>3, <1>4, <2>3
    <2> QED BY <2>1, <2>2, <2>3
  <1>6. y \in Obj
    <2>1. y.flags \in SUBSET (used \cup {"EXPR"})
      BY <1>1, <1>5 DEF Obj
    <2>2. y.live \in BOOLEAN /\ y.mode \in BOOLEAN /\ y.ptr \in [Attrs -> Pointers]
          /\ y.leak \in SUBSET used
      BY <1>1, <1>5 DEF Obj
    <2> QED BY <1>5, <2>1, <2>2 DEF Obj
  <1>7. y.flags \cap Attrs = x.flags \cap Attrs
    BY <1>5
  <1>8. \A a \in Attrs : Holds(y, a) <=> Holds(x, a)
    BY <1>5 DEF Holds
  <1>9. Excused(y, s)
    BY <1>5, <1>6, <1>8 DEF Excused, Linked
  <1>10. Kept(y, s)
    BY <1>5, <1>7, <1>8 DEF Kept
  <1>11. w # "block" /\ fails = "free" => Pardoned(s) \/ kind \in Expressions
    BY DEF ListOK, Pardoned, Expressions
  <1>12. Linked(y, s) \/ (w # "block" /\ kind \in Expressions)
    BY <1>5, <1>11 DEF Linked
  <1> QED BY <1>5, <1>7, <1>9, <1>10, <1>12

\* Each part of a message leads from one place between the parts to the next.
LEMMA PartKeeps ==
    ASSUME kind \in Kinds, used \subseteq Attrs, TablesAgree, o \in Obj,
           \A a \in Attrs : Holds(o, a) => a \in o.flags \/ Losing(a) \cap seen # {},
           NEW v, NEW s, Reading(v, s), NEW i \in Nat,
           i + 1 \in DOMAIN ops[kind].parse,
           NEW p, Midway(p, i, v, s),
           NEW q, q = ParseAttr(v, p, ops[kind].parse[i + 1])
    PROVE  Midway(q, i + 1, v, s)
  <1>1. PICK e : e = ops[kind].parse[i + 1]
    OBVIOUS
  <1>2. PICK a : a = e.attr
    OBVIOUS
  <1>3. DOMAIN ops[kind].parse \subseteq Nat
    BY DEF TablesAgree, ParseOnce
  <1>4. \A j \in DOMAIN ops[kind].parse : ops[kind].parse[j].attr = a => j = i + 1
    BY <1>1, <1>2 DEF TablesAgree, ParseOnce
  <1>5. "EXPR" \notin Attrs
    BY DEF TablesAgree, SettersAgree
  <1>6. EntryOK(e)
    BY <1>1 DEF TablesAgree, ParseOnce
  <1>7. \A j \in DOMAIN ops[kind].parse : j > i + 1 => j > i /\ ops[kind].parse[j].attr # a
    BY <1>3, <1>4
  <1>8. \A j \in DOMAIN ops[kind].parse : j <= i + 1 => j <= i \/ ops[kind].parse[j].attr = a
    BY <1>1, <1>2, <1>3
  <1>9. \A j \in DOMAIN ops[kind].parse : j <= i => ops[kind].parse[j].attr # a
    BY <1>3, <1>4
  <1>10. CASE p.stop \/ a \notin DOMAIN v
    <2>1. q = p
      BY <1>1, <1>2, <1>10 DEF ParseAttr
    <2> QED BY <1>7, <1>8, <1>10, <2>1 DEF Midway
  <1>11. CASE ~ p.stop /\ a \in DOMAIN v /\ a = "EXPR"
    <2>1. q = [x |-> ParseListed(p.x, e.how.fails, v["EXPR"]), stop |-> v["EXPR"] # "block"]
      BY <1>1, <1>2, <1>11 DEF ParseAttr
    <2>2. v["EXPR"] \in {"block", "part", "null"}
      BY <1>1, <1>2, <1>11 DEF Reading, ParseOutcomes
    <2>3. ListOK(e.how.fails)
      BY <1>2, <1>6, <1>11 DEF EntryOK
    <2>4. v["EXPR"] # "block" => "unknown" \in s
      BY <1>11 DEF Reading
    <2>5. PICK y : y = ParseListed(p.x, e.how.fails, v["EXPR"])
      OBVIOUS
    <2>20. PICK x : x = p.x
      OBVIOUS
    <2>21. PICK w : w = v["EXPR"]
      OBVIOUS
    <2>22. PICK fails : fails = e.how.fails
      OBVIOUS
    <2>6. /\ Excused(y, s) /\ Kept(y, s) /\ y.live = p.x.live
          /\ y.ptr = p.x.ptr /\ y.flags \cap Attrs = p.x.flags \cap Attrs
          /\ Linked(y, s) \/ (v["EXPR"] # "block" /\ kind \in Expressions)
      <3>1. Excused(x, s) /\ Kept(x, s) /\ Linked(x, s)
        BY <1>11, <2>20 DEF Midway
      <3>2. /\ y = ParseListed(x, fails, w) /\ w \in {"block", "part", "null"}
            /\ ListOK(fails) /\ (w # "block" => "unknown" \in s)
        BY <2>2, <2>3, <2>4, <2>5, <2>20, <2>21, <2>22
      <3>3. /\ Excused(y, s) /\ Kept(y, s) /\ y.live = x.live
            /\ y.ptr = x.ptr /\ y.flags \cap Attrs = x.flags \cap Attrs
            /\ Linked(y, s) \/ (w # "block" /\ kind \in Expressions)
        BY <1>5, <3>1, <3>2, ListedKeeps
      <3> QED BY <2>20, <2>21, <3>3
    <2>7. q.x = y /\ q.stop = (v["EXPR"] # "block")
      BY <2>1, <2>5
    <2>8. \A b \in Attrs : Untouched(p.x, b) => Untouched(y, b)
      BY <2>6 DEF Untouched
    <2>9. \A b \in Attrs : Arrived(p.x, b, s) => Arrived(y, b, s)
      BY <2>6 DEF Arrived
    <2>10. q.stop /\ kind \in Expressions => \A b \in Attrs : Losing(b) \cap s # {}
      BY <2>3, <2>4, <2>7 DEF ListOK
    <2>11. q.stop \in BOOLEAN /\ q.x.live
      BY <2>6, <2>7 DEF Midway
    <2>12. ASSUME NEW j \in DOMAIN ops[kind].parse, NEW b, b = ops[kind].parse[j].attr
           PROVE  /\ j > i + 1 /\ b \in Attrs /\ ~ q.stop => Untouched(q.x, b)
                  /\ j <= i + 1 /\ b \in Attrs \cap DOMAIN v /\ ~ q.stop => Arrived(q.x, b, s)
      BY <1>5, <1>7, <1>8, <1>11, <2>7, <2>8, <2>9, <2>12 DEF Midway
    <2> QED BY <2>6, <2>7, <2>10, <2>11, <2>12 DEF Midway
  <1>12. CASE ~ p.stop /\ a \in DOMAIN v /\ a # "EXPR"
    <2>1. /\ q = [x |-> Store(p.x, a, e.how, v[a]),
                  stop |-> v[a] = "null" /\ e.how.fails \in {"error", "keep"}]
      BY <1>1, <1>2, <1>12 DEF ParseAttr
    <2>2. PICK how : how = e.how
      OBVIOUS
    <2>3. PICK w : w = v[a]
      OBVIOUS
    <2>4. PICK y : y = Store(p.x, a, how, w)
      OBVIOUS
    <2>5. q.x = y /\ q.stop = (w = "null" /\ how.fails \in {"error", "keep"})
      BY <2>1, <2>2, <2>3, <2>4
    <2>6. a \in Attrs /\ ParseOK(a, how) /\ HowOK(a, how)
      BY <1>2, <1>6, <1>12, <2>2 DEF EntryOK, ParseOK
    <2>7. a \in used /\ w \in Outcomes(a, how) /\ (w # "block" => "nomem" \in s)
      BY <1>1, <1>2, <1>12, <2>2, <2>3 DEF Reading, ParseOutcomes
    <2>8. Untouched(p.x, a)
      <3>1. i + 1 > i
        OBVIOUS
      <3> QED BY <1>1, <1>2, <1>12, <2>6, <3>1 DEF Midway
    <2>9. Holds(p.x, a) <=> Holds(o, a)
      BY <2>8 DEF Untouched, Holds
    <2>10. Excused(p.x, s) /\ Kept(p.x, s) /\ Linked(p.x, s) /\ p.x.live
      BY <1>12 DEF Midway
    <2>11. Storable(p.x, a, how, w, s)
      <3>1. a \in p.x.flags => "reparse" \in s /\ kind \notin Fresh
        BY <2>8 DEF Untouched, Reading
      <3>2. w # "block" /\ a \in p.x.flags => Pardoned(s)
        <4> SUFFICES ASSUME w # "block", a \in p.x.flags PROVE Pardoned(s)
          OBVIOUS
        <4>1. how.fails # "never" \/ a = "DEVICES"
          BY <2>7 DEF Outcomes
        <4>2. \/ {"nomem"} \in Unsafe \/ {"nomem", "reparse"} \in Unsafe
          BY <2>6, <3>1, <4>1 DEF ParseOK, HowOK
        <4> QED BY <2>7, <3>1, <4>2 DEF Pardoned
      <3>3. w # "block" /\ (w # "null" \/ how.fails = "flag") => Pardoned(s)
        <4> SUFFICES ASSUME w # "block", w # "null" \/ how.fails = "flag" PROVE Pardoned(s)
          OBVIOUS
        <4>1. how.fails = "flag" \/ a = "DEVICES"
          BY <2>7 DEF Outcomes
        <4>2. {"nomem"} \in Unsafe
          BY <2>6, <4>1 DEF HowOK
        <4> QED BY <2>7, <4>2 DEF Pardoned
      <3>4. how.frees \in {"never", "mode"} /\ Holds(p.x, a) => Losing(a) \cap s # {}
        <4> SUFFICES ASSUME how.frees \in {"never", "mode"}, Holds(o, a)
                     PROVE  Losing(a) \cap s # {}
          BY <2>9
        <4>1. kind \notin Fresh
          BY <2>6 DEF Reading
        <4>2. "reparse" \in Losing(a)
          BY <2>6, <4>1 DEF ParseOK
        <4>3. CASE a \in o.flags
          BY <4>2, <4>3 DEF Reading
        <4>4. CASE a \notin o.flags
          BY <2>6, <4>4 DEF Reading
        <4> QED BY <4>3, <4>4
      <3> QED BY <2>6, <2>7, <3>2, <3>3, <3>4 DEF Storable
    <2>12. /\ Excused(y, s) /\ Kept(y, s) /\ Restored(y, p.x, a)
           /\ w = "null" => y.ptr[a] = "null" \/ y.ptr[a] = p.x.ptr[a]
           /\ w # "null" \/ how.fails = "flag" => a \in y.flags /\ y.ptr[a] = w
      BY <1>5, <2>4, <2>10, <2>11, StoreKeeps
    <2>13. \A b \in Attrs \ {a} : /\ Untouched(p.x, b) => Untouched(y, b)
                                  /\ Arrived(p.x, b, s) => Arrived(y, b, s)
      BY <2>12 DEF Restored, Untouched, Arrived
    <2>14. ~ q.stop => Arrived(y, a, s)
      <3> SUFFICES ASSUME ~ q.stop
                   PROVE  (a \in y.flags /\ y.ptr[a] = "block") \/ (a \in Unchecked /\ "nomem" \in s)
        BY DEF Arrived
      <3>1. CASE w = "block"
        BY <2>12, <3>1
      <3>2. CASE w = "null"
        <4>1. how.fails \in {"flag", "ignore"}
          BY <2>5, <2>6, <2>7, <3>2 DEF HowOK, Outcomes
        <4> QED BY <2>6, <2>7, <3>2, <4>1 DEF ParseOK
      <3>3. CASE w \notin {"block", "null"}
        <4>1. a = "DEVICES"
          BY <2>7, <3>3 DEF Outcomes
        <4> QED BY <2>6, <2>7, <3>3, <4>1 DEF HowOK
      <3> QED BY <3>1, <3>2, <3>3
    <2>15. Linked(y, s) /\ y.live
      BY <2>10, <2>12 DEF Restored, Linked
    <2>16. q.stop /\ kind \in Expressions => \A b \in Attrs : Holds(y, b) => Losing(b) \cap s # {}
      <3> SUFFICES ASSUME q.stop, kind \in Expressions, NEW b \in Attrs PROVE ~ Holds(y, b)
        OBVIOUS
      <3>1. w = "null" /\ b = a
        BY <2>5, <2>6 DEF ParseOK
      <3>2. ~ Holds(o, a)
        BY <2>6 DEF Reading, Fresh
      <3> QED BY <2>9, <2>12, <3>1, <3>2 DEF Holds
    <2>17. ASSUME NEW j \in DOMAIN ops[kind].parse, NEW b, b = ops[kind].parse[j].attr
           PROVE  /\ j > i + 1 /\ b \in Attrs /\ ~ q.stop => Untouched(q.x, b)
                  /\ j <= i + 1 /\ b \in Attrs \cap DOMAIN v /\ ~ q.stop => Arrived(q.x, b, s)
      <3>1. j > i + 1 /\ b \in Attrs => Untouched(y, b)
        BY <1>7, <1>12, <2>13, <2>17 DEF Midway
      <3>2. j <= i /\ b \in Attrs \cap DOMAIN v => Arrived(y, b, s)
        BY <1>9, <1>12, <2>13, <2>17 DEF Midway
      <3> QED BY <1>8, <2>5, <2>14, <2>17, <3>1, <3>2
    <2>18. q.stop \in BOOLEAN
      BY <2>5
    <2> QED BY <2>5, <2>12, <2>15, <2>16, <2>17, <2>18 DEF Midway
  <1> QED BY <1>10, <1>11, <1>12

\* So the whole message is read.
LEMMA MessageKeeps ==
    ASSUME IInv, o.live, TablesAgree, NEW v, NEW s, Reading(v, s), NEW p, p = Parsed(v)
    PROVE  Midway(p, Len(ops[kind].parse), v, s)
  <1>1. PICK n \in Nat : n = Len(ops[kind].parse) /\ DOMAIN ops[kind].parse = 1..n
    BY DEF TablesAgree, ParseOnce
  <1>2. PICK g : ParseSteps(v, n, g) /\ p = g[n]
    BY <1>1, ParsedIs
  <1>3. /\ kind \in Kinds /\ used \subseteq Attrs /\ o \in Obj
        /\ Excused(o, seen) /\ Kept(o, seen) /\ Linked(o, seen) /\ seen \subseteq s
    BY DEF IInv, Inv, Excused, Reading
  <1>4. Excused(o, s) /\ Kept(o, s) /\ Linked(o, s)
    BY <1>3, HabitsAdd
  <1>5. \A a \in Attrs : Holds(o, a) => a \in o.flags \/ Losing(a) \cap seen # {}
    BY <1>3 DEF Kept
  <1> DEFINE z == [x |-> o, stop |-> FALSE]
             F(i, q) == ParseAttr(v, q, ops[kind].parse[i])
             T == {i \in Nat : i \in 0..n => Midway(g[i], i, v, s)}
  <1>6. g = [i \in 0..n |-> IF i = 0 THEN z ELSE F(i, g[i - 1])]
    BY <1>2 DEF ParseSteps
  <1>7. z.x = o /\ z.stop = FALSE
    OBVIOUS
  <1> HIDE DEF z, F
  <1>8. g[0] = z
    BY <1>6
  <1>9. \A i \in 1..n : g[i] = F(i, g[i - 1])
    BY <1>6
  <1>10. 0 \in T
    <2>1. \A a \in Attrs : Untouched(o, a)
      BY DEF Untouched
    <2>2. \A j \in DOMAIN ops[kind].parse : ~ j <= 0
      BY <1>1
    <2>3. Midway(z, 0, v, s)
      BY <1>4, <1>7, <2>1, <2>2 DEF Midway
    <2> QED BY <1>8, <2>3
  <1>11. ASSUME NEW i \in Nat, i \in T PROVE i + 1 \in T
    <2> SUFFICES ASSUME i + 1 \in 0..n PROVE Midway(g[i + 1], i + 1, v, s)
      OBVIOUS
    <2>1. i \in 0..n /\ i + 1 \in 1..n /\ (i + 1) - 1 = i
      BY <1>11
    <2>2. PICK q : q = g[i]
      OBVIOUS
    <2>3. PICK r : r = g[i + 1]
      OBVIOUS
    <2>4. r = ParseAttr(v, q, ops[kind].parse[i + 1])
      BY <1>9, <2>1, <2>2, <2>3 DEF F
    <2>5. Midway(q, i, v, s) /\ i + 1 \in DOMAIN ops[kind].parse
      BY <1>1, <1>11, <2>1, <2>2
    <2>6. Midway(r, i + 1, v, s)
      BY <1>3, <1>5, <2>4, <2>5, PartKeeps
    <2> QED BY <2>3, <2>6
  <1> HIDE DEF T
  <1>12. Nat \subseteq T
    BY <1>10, <1>11, SetInduction
  <1>13. Midway(g[n], n, v, s)
    BY <1>12 DEF T
  <1> QED BY <1>1, <1>2, <1>13

-------------------------------------------------------------------------------
(* The calls.                                                              *)

\* What every step leaves: the kind and the attributes in use are what they
\* were, so it is enough to look at the object, the promise and the habits.
LEMMA SameKeeps ==
    ASSUME UNCHANGED <<kind, used>>, Inv(o', told', seen')
    PROVE  IInv'
  <1>1. kind' = kind /\ used' = used
    OBVIOUS
  <1>2. Attrs' = Attrs /\ Unsafe' = Unsafe /\ Unchecked' = Unchecked
    BY <1>1 DEF Attrs, Unsafe, Unchecked, NoMemAgain
  <1>3. \A a : Losing(a)' = Losing(a)
    BY <1>1 DEF Losing
  <1>4. Obj' = Obj /\ Pointers' = Pointers /\ Kinds' = Kinds /\ Unsetters' = Unsetters
    BY <1>1, <1>2 DEF Obj, Pointers, Kinds, Unsetters
  <1> USE DEF Inv, Excused, Kept, Linked, True, Arrived, Pardoned, Holds
  <1>5. Excused(o', seen') = Excused(o, seen)'
    BY <1>1, <1>2, <1>3, <1>4
  <1> QED BY <1>1, <1>2, <1>3, <1>4, <1>5 DEF IInv

\* A call that stores nothing touches the list, the mode or the bit of the list.
Beside(y, x, s) ==
  /\ y = [live |-> TRUE, flags |-> y.flags, ptr |-> x.ptr, list |-> y.list,
          mode |-> y.mode, leak |-> x.leak, fault |-> y.fault]
  /\ y.flags \subseteq used \cup {"EXPR"} /\ y.flags \cap Attrs = x.flags \cap Attrs
  /\ y.list \in {"none", "live", "dead"} /\ y.mode \in BOOLEAN /\ y.fault \in BOOLEAN
  /\ y.fault \/ y.list = "dead" => Pardoned(s)

\* Such a call keeps the invariant.
LEMMA BesideKeeps ==
    ASSUME NEW x, NEW t, NEW r, NEW s, NEW y, Inv(x, t, r), x.live, r \subseteq s,
           s \subseteq Habits, Beside(y, x, s)
    PROVE  Inv(y, {}, s)
  <1>1. Excused(x, s) /\ Kept(x, s) /\ x \in Obj
    BY HabitsAdd DEF Inv, Excused
  <1>2. /\ y = [live |-> TRUE, flags |-> y.flags, ptr |-> x.ptr, list |-> y.list,
                mode |-> y.mode, leak |-> x.leak, fault |-> y.fault]
        /\ y.flags \subseteq used \cup {"EXPR"} /\ y.flags \cap Attrs = x.flags \cap Attrs
        /\ y.list \in {"none", "live", "dead"} /\ y.mode \in BOOLEAN /\ y.fault \in BOOLEAN
        /\ y.fault \/ y.list = "dead" => Pardoned(s)
    BY DEF Beside
  <1>3. y.live = TRUE /\ y.ptr = x.ptr /\ y.leak = x.leak
    BY <1>2
  <1>4. x.ptr \in [Attrs -> Pointers] /\ x.leak \in SUBSET used
    BY <1>1 DEF Obj
  <1>5. y \in Obj
    <2>1. y.flags \in SUBSET (used \cup {"EXPR"}) /\ y.ptr \in [Attrs -> Pointers]
          /\ y.leak \in SUBSET used /\ y.live \in BOOLEAN
      BY <1>2, <1>3, <1>4
    <2>2. y = [live |-> y.live, flags |-> y.flags, ptr |-> y.ptr, list |-> y.list,
               mode |-> y.mode, leak |-> y.leak, fault |-> y.fault]
      BY <1>2, <1>3
    <2> QED BY <1>2, <2>1, <2>2 DEF Obj
  <1>6. Excused(y, s)
    BY <1>1, <1>2, <1>3, <1>5 DEF Excused, Holds
  <1>7. Kept(y, s)
    BY <1>1, <1>2, <1>3 DEF Kept, Holds
  <1> QED BY <1>2, <1>6, <1>7 DEF Inv, Linked, True

\* Setting an attribute.
LEMMA SetKeeps ==
    ASSUME IInv, TablesAgree, NEW a \in used, NEW v, set_data(a, v)
    PROVE  IInv'
  <1>1. PICK how : how = ops[kind].set[a]
    OBVIOUS
  <1>2. PICK s : s = seen'
    OBVIOUS
  <1>3. PICK y : y = o'
    OBVIOUS
  <1>4. /\ o.live /\ v \in Outcomes(a, how) /\ y = Store(o, a, how, v)
        /\ told' = {} \/ (v # "null" /\ told' = {a})
        /\ s = seen \cup If(a \in o.flags, "reset") \cup If(v # "block", "nomem")
    BY <1>1, <1>2, <1>3 DEF set_data, Running, Noting
  <1>5. /\ seen \subseteq s /\ s \subseteq Habits
        /\ a \in o.flags => "reset" \in s
        /\ v # "block" => "nomem" \in s
    BY <1>4 DEF If, Inv, IInv, Habits
  <1>6. /\ kind \in Kinds /\ used \subseteq Attrs /\ o \in Obj /\ a \in Attrs
        /\ Excused(o, seen) /\ Kept(o, seen) /\ Linked(o, seen)
    BY <1>4 DEF IInv, Inv, Excused
  <1>7. "EXPR" \notin Attrs /\ SetOK(a, how) /\ HowOK(a, how)
    BY <1>1, <1>6 DEF TablesAgree, SettersAgree, SetOK
  <1>8. Excused(o, s) /\ Kept(o, s) /\ Linked(o, s)
    BY <1>5, <1>6, HabitsAdd
  <1>9. Storable(o, a, how, v, s)
    <2>1. how.frees \in {"never", "mode"} /\ Holds(o, a) => Losing(a) \cap s # {}
      <3>1. CASE a \in o.flags
        BY <1>5, <1>7, <3>1 DEF SetOK
      <3>2. CASE a \notin o.flags
        BY <1>6, <1>8, <3>2 DEF Kept
      <3> QED BY <3>1, <3>2
    <2>2. v # "block" => how.fails # "never" \/ a = "DEVICES"
      BY <1>4 DEF Outcomes
    <2>3. v # "block" /\ a \in o.flags => Pardoned(s)
      BY <1>5, <1>7, <2>2 DEF SetOK, HowOK, Pardoned
    <2>4. v # "block" /\ v # "null" => a = "DEVICES"
      BY <1>4 DEF Outcomes
    <2>5. v # "block" /\ (v # "null" \/ how.fails = "flag") => Pardoned(s)
      BY <1>5, <1>7, <2>4 DEF HowOK, Pardoned
    <2> QED BY <1>4, <1>5, <1>7, <2>1, <2>3, <2>5 DEF Storable
  <1>10. /\ Excused(y, s) /\ Kept(y, s) /\ Restored(y, o, a)
         /\ v # "null" \/ how.fails = "flag" => a \in y.flags /\ y.ptr[a] = v
    BY <1>4, <1>6, <1>7, <1>8, <1>9, StoreKeeps
  <1>11. Linked(y, s)
    BY <1>8, <1>10 DEF Restored, Linked
  <1>12. v # "null" => Arrived(y, a, s)
    <2>1. v # "null" /\ v # "block" => a = "DEVICES"
      BY <1>4 DEF Outcomes
    <2> QED BY <1>5, <1>7, <1>10, <2>1 DEF Arrived, HowOK
  <1>13. PICK t : t = told'
    OBVIOUS
  <1>14. t \subseteq used /\ True(y, t, s)
    BY <1>4, <1>12, <1>13 DEF True
  <1>15. Inv(y, t, s)
    BY <1>5, <1>6, <1>10, <1>11, <1>14 DEF Inv
  <1>16. UNCHANGED <<kind, used>> /\ Inv(o', told', seen')
    BY <1>2, <1>3, <1>13, <1>15 DEF set_data, Same
  <1> QED BY <1>16, SameKeeps

\* What a step beside the attributes leaves.
LEMMA BesideStep ==
    ASSUME IInv, o.live, UNCHANGED <<kind, used>>, told' = {},
           seen \subseteq seen', seen' \subseteq Habits, Beside(o', o, seen')
    PROVE  IInv'
  <1>1. PICK y : y = o'
    OBVIOUS
  <1>2. PICK s : s = seen'
    OBVIOUS
  <1>3. Inv(y, {}, s)
    BY <1>1, <1>2, BesideKeeps DEF IInv
  <1> QED BY <1>1, <1>2, <1>3, SameKeeps

\* Setting the list of expressions frees what it holds and keeps it linked.
LEMMA SetExprKeeps == IInv /\ TablesAgree /\ set_expr => IInv'
  <1> SUFFICES ASSUME IInv, TablesAgree, set_expr PROVE IInv'
    OBVIOUS
  <1>1. PICK y : y = o'
    OBVIOUS
  <1>2. PICK s : s = seen'
    OBVIOUS
  <1>3. PICK r : r = FreeListed(o)
    OBVIOUS
  <1>4. PICK q : q = Link(r)
    OBVIOUS
  <1>5. /\ o.live /\ ~ o.fault /\ y = [q EXCEPT !.flags = q.flags \cup {"EXPR"}]
        /\ UNCHANGED <<kind, used>> /\ told' = {}
        /\ s = seen \cup If(o.list # "none", "swap")
        /\ "EXPR" \in DOMAIN ops[kind].set
    BY <1>1, <1>2, <1>3, <1>4 DEF set_expr, Running, Noting, Same
  <1>6. seen \subseteq s /\ s \subseteq Habits /\ (o.list # "none" => "swap" \in s)
    BY <1>5 DEF If, IInv, Inv, Habits
  <1>7. {"swap"} \in Unsafe /\ "EXPR" \notin Attrs
    BY <1>5 DEF TablesAgree, SettersAgree
  <1>8. o.list # "none" => Pardoned(s)
    BY <1>6, <1>7 DEF Pardoned
  <1>9. o \in Obj
    BY DEF IInv, Inv, Excused
  <1>10. PICK l : l = IF o.list = "none" THEN "none" ELSE "dead"
    OBVIOUS
  <1>11. r = [live |-> TRUE, flags |-> o.flags, ptr |-> o.ptr, list |-> l,
              mode |-> o.mode, leak |-> o.leak, fault |-> o.list = "dead"]
    <2>1. r = [o EXCEPT !.fault = o.fault \/ o.list = "dead", !.list = l]
      BY <1>3, <1>10 DEF FreeListed
    <2> QED BY <1>5, <1>9, <2>1 DEF Obj
  <1>12. PICK f : f = (o.list = "dead" \/ l = "dead")
    OBVIOUS
  <1>13. q = [live |-> TRUE, flags |-> o.flags, ptr |-> o.ptr, list |-> "live",
              mode |-> o.mode, leak |-> o.leak, fault |-> f]
    <2>1. q = [r EXCEPT !.fault = f, !.list = "live"]
      BY <1>4, <1>11, <1>12 DEF Link
    <2> QED BY <1>11, <2>1
  <1>14. y = [live |-> TRUE, flags |-> o.flags \cup {"EXPR"}, ptr |-> o.ptr, list |-> "live",
              mode |-> o.mode, leak |-> o.leak, fault |-> f]
    BY <1>5, <1>13
  <1>15. f => o.list # "none"
    BY <1>10, <1>12
  <1>16. o.flags \subseteq used \cup {"EXPR"} /\ o.mode \in BOOLEAN /\ f \in BOOLEAN
    BY <1>9, <1>12 DEF Obj
  <1>17. Beside(y, o, s)
    <2>1. /\ y.flags = o.flags \cup {"EXPR"} /\ y.list = "live" /\ y.mode = o.mode
          /\ y.fault = f
      BY <1>14
    <2>2. y.flags \subseteq used \cup {"EXPR"} /\ y.flags \cap Attrs = o.flags \cap Attrs
      BY <1>7, <1>16, <2>1
    <2>3. y = [live |-> TRUE, flags |-> y.flags, ptr |-> o.ptr, list |-> y.list,
               mode |-> y.mode, leak |-> o.leak, fault |-> y.fault]
      BY <1>14, <2>1
    <2> QED BY <1>8, <1>15, <1>16, <2>1, <2>2, <2>3 DEF Beside
  <1> QED BY <1>1, <1>2, <1>5, <1>6, <1>17, BesideStep

\* Setting the value that a later release depends on.
LEMMA SetModeKeeps ==
    ASSUME IInv, NEW m \in BOOLEAN, set_mode(m)
    PROVE  IInv'
  <1>1. PICK y : y = o'
    OBVIOUS
  <1>2. /\ o.live /\ ~ o.fault /\ y = [o EXCEPT !.mode = m]
        /\ UNCHANGED <<kind, used>> /\ told' = {} /\ seen' = seen
    BY <1>1 DEF set_mode, Running, Same
  <1>3. o \in Obj /\ Linked(o, seen) /\ seen \subseteq Habits
    BY <1>2 DEF IInv, Inv, Excused
  <1>4. Beside(y, o, seen)
    <2>1. y = [live |-> TRUE, flags |-> o.flags, ptr |-> o.ptr, list |-> o.list,
               mode |-> m, leak |-> o.leak, fault |-> FALSE]
      BY <1>2, <1>3 DEF Obj
    <2>2. /\ y.flags = o.flags /\ y.list = o.list /\ y.mode = m /\ y.fault = FALSE
      BY <2>1
    <2>3. o.flags \subseteq used \cup {"EXPR"} /\ o.list \in {"none", "live", "dead"}
      BY <1>3 DEF Obj
    <2>4. o.list = "dead" => Pardoned(seen)
      BY <1>3 DEF Linked
    <2> QED BY <2>1, <2>2, <2>3, <2>4 DEF Beside
  <1> QED BY <1>1, <1>2, <1>3, <1>4, BesideStep

\* Getting an attribute whose bit is set.
LEMMA GetKeeps ==
    ASSUME IInv, NEW a \in used, get(a)
    PROVE  IInv'
  <1>1. PICK y : y = o'
    OBVIOUS
  <1>2. /\ o.live /\ ~ o.fault /\ a \in o.flags /\ y = [o EXCEPT !.fault = ~ Holds(o, a)]
        /\ UNCHANGED <<kind, used>> /\ told' = {} /\ seen' = seen
    BY <1>1 DEF get, Running, Same
  <1>3. /\ o \in Obj /\ Linked(o, seen) /\ Kept(o, seen) /\ seen \subseteq Habits
        /\ used \subseteq Attrs
    BY <1>2 DEF IInv, Inv, Excused
  <1>4. ~ Holds(o, a) => Pardoned(seen)
    BY <1>2, <1>3 DEF Kept, Holds
  <1>5. Beside(y, o, seen)
    <2>1. y = [live |-> TRUE, flags |-> o.flags, ptr |-> o.ptr, list |-> o.list,
               mode |-> o.mode, leak |-> o.leak, fault |-> ~ Holds(o, a)]
      BY <1>2, <1>3 DEF Obj
    <2>2. /\ y.flags = o.flags /\ y.list = o.list /\ y.mode = o.mode
          /\ y.fault = ~ Holds(o, a)
      BY <2>1
    <2>3. o.flags \subseteq used \cup {"EXPR"} /\ o.list \in {"none", "live", "dead"}
          /\ o.mode \in BOOLEAN
      BY <1>3 DEF Obj
    <2>4. o.list = "dead" => Pardoned(seen)
      BY <1>3 DEF Linked
    <2>5. y.fault \in BOOLEAN
      BY <2>2
    <2> QED BY <1>4, <2>1, <2>2, <2>3, <2>4, <2>5 DEF Beside
  <1> QED BY <1>1, <1>2, <1>3, <1>5, BesideStep

\* Building a message reads every block whose bit is set.
LEMMA BuildKeeps == IInv /\ build => IInv'
  <1> SUFFICES ASSUME IInv, build PROVE IInv'
    OBVIOUS
  <1>1. PICK y : y = o'
    OBVIOUS
  <1>2. PICK sent : sent = (o.flags \cap ops[kind].build \cap Attrs)
                             \ If(kind = "chain" /\ "DEV" \in o.flags, "DEVICES")
    OBVIOUS
  <1>3. PICK bad : bad = (\/ \E a \in sent : o.ptr[a] # "block"
                          \/ o.list = "dead")
    OBVIOUS
  <1>4. /\ o.live /\ ~ o.fault /\ y = [o EXCEPT !.fault = bad]
        /\ UNCHANGED <<kind, used>> /\ told' = {} /\ seen' = seen
    BY <1>1, <1>2, <1>3 DEF build, Running, Same
  <1>5. /\ o \in Obj /\ Linked(o, seen) /\ Kept(o, seen) /\ seen \subseteq Habits
    BY <1>4 DEF IInv, Inv, Excused
  <1>6. bad \in BOOLEAN /\ (bad => Pardoned(seen))
    BY <1>2, <1>3, <1>5 DEF Kept, Linked
  <1>7. Beside(y, o, seen)
    <2>1. y = [live |-> TRUE, flags |-> o.flags, ptr |-> o.ptr, list |-> o.list,
               mode |-> o.mode, leak |-> o.leak, fault |-> bad]
      BY <1>4, <1>5 DEF Obj
    <2>2. y.flags = o.flags /\ y.list = o.list /\ y.mode = o.mode /\ y.fault = bad
      BY <2>1
    <2>3. o.flags \subseteq used \cup {"EXPR"} /\ o.list \in {"none", "live", "dead"}
          /\ o.mode \in BOOLEAN
      BY <1>5 DEF Obj
    <2>4. o.list = "dead" => Pardoned(seen)
      BY <1>5 DEF Linked
    <2> QED BY <1>6, <2>1, <2>2, <2>3, <2>4 DEF Beside
  <1> QED BY <1>1, <1>4, <1>5, <1>7, BesideStep

\* Adding an expression to the list, and taking one out.
LEMMA ExprKeeps == IInv /\ (add_expr \/ del_expr) => IInv'
  <1> SUFFICES ASSUME IInv, add_expr \/ del_expr PROVE IInv'
    OBVIOUS
  <1>1. PICK y : y = o'
    OBVIOUS
  <1>2. /\ o.live /\ ~ o.fault /\ UNCHANGED <<kind, used>> /\ told' = {} /\ seen' = seen
    BY DEF add_expr, del_expr, Running, Same
  <1>3. o \in Obj /\ Linked(o, seen) /\ seen \subseteq Habits
    BY <1>2 DEF IInv, Inv, Excused
  <1>4. PICK l, f : /\ y = [o EXCEPT !.fault = f, !.list = l] /\ f \in BOOLEAN
                    /\ l \in {"none", "live"} /\ (f => o.list = "dead")
    <2>1. CASE add_expr
      <3>1. y = [o EXCEPT !.fault = o.fault \/ o.list = "dead", !.list = "live"]
        BY <1>1, <2>1 DEF add_expr, Link
      <3> QED BY <1>2, <3>1
    <2>2. CASE del_expr
      <3>1. PICK l \in {"none", "live"} : y = [o EXCEPT !.list = l]
        BY <1>1, <2>2 DEF del_expr
      <3>2. y = [o EXCEPT !.fault = FALSE, !.list = l]
        BY <1>2, <1>3, <3>1 DEF Obj
      <3> QED BY <3>2
    <2> QED BY <2>1, <2>2
  <1>5. Beside(y, o, seen)
    <2>1. y = [live |-> TRUE, flags |-> o.flags, ptr |-> o.ptr, list |-> l,
               mode |-> o.mode, leak |-> o.leak, fault |-> f]
      BY <1>2, <1>3, <1>4 DEF Obj
    <2>2. y.flags = o.flags /\ y.list = l /\ y.mode = o.mode /\ y.fault = f
      BY <2>1
    <2>3. o.flags \subseteq used \cup {"EXPR"} /\ o.mode \in BOOLEAN
      BY <1>3 DEF Obj
    <2>4. f => Pardoned(seen)
      BY <1>3, <1>4 DEF Linked
    <2> QED BY <1>4, <2>1, <2>2, <2>3, <2>4 DEF Beside
  <1> QED BY <1>1, <1>2, <1>3, <1>5, BesideStep

\* Destroying the object.
LEMMA FreeKeeps == IInv /\ TablesAgree /\ free => IInv'
  <1> SUFFICES ASSUME IInv, TablesAgree, free PROVE IInv'
    OBVIOUS
  <1>1. PICK y : y = o'
    OBVIOUS
  <1>2. PICK s : s = seen'
    OBVIOUS
  <1>3. /\ o.live /\ y = Destroy(o) /\ UNCHANGED <<kind, used>> /\ told' = {}
        /\ s = seen \cup If(kind = "immediate" /\ ~ o.mode, "mismatch")
    BY <1>1, <1>2 DEF free, Running, Noting, Same
  <1>4. /\ seen \subseteq s /\ s \subseteq Habits
        /\ kind = "immediate" => o.mode \/ "mismatch" \in s
    BY <1>3 DEF If, IInv, Inv, Habits
  <1>5. kind \in Kinds /\ used \subseteq Attrs /\ Excused(o, s) /\ Kept(o, s) /\ Linked(o, s)
    BY <1>3, <1>4, HabitsAdd DEF IInv, Inv
  <1>6. Excused(y, s) /\ ~ y.live
    BY <1>3, <1>4, <1>5, DestroyKeeps
  <1>7. Inv(y, {}, s)
    BY <1>4, <1>5, <1>6 DEF Inv
  <1> QED BY <1>1, <1>2, <1>3, <1>7, SameKeeps

\* Unsetting an attribute forgets its bit, its block, both or neither.
LEMMA UnsetKeeps ==
    ASSUME IInv, TablesAgree, NEW a \in used \cup {"EXPR"}, unset(a)
    PROVE  IInv'
  <1>1. PICK y : y = o'
    OBVIOUS
  <1>2. PICK s : s = seen'
    OBVIOUS
  <1>3. PICK does : does = ops[kind].unset[a]
    OBVIOUS
  <1>4. PICK r : r = IF does # "free" THEN o
                     ELSE IF a = "EXPR" THEN FreeListed(o) ELSE Release(o, a)
    OBVIOUS
  <1>5. PICK fl : fl = IF does = "keep" THEN o.flags ELSE o.flags \ {a}
    OBVIOUS
  <1>6. /\ o.live /\ ~ o.fault /\ a \in o.flags /\ UNCHANGED <<kind, used>> /\ told' = {}
        /\ s = seen \cup {IF a = "EXPR" THEN "drop" ELSE "unset"}
        /\ a \in DOMAIN ops[kind].unset
    BY <1>2 DEF unset, Running, Noting, Same
  <1>7. y = [r EXCEPT !.flags = IF does = "keep" THEN @ ELSE @ \ {a}]
    BY <1>1, <1>3, <1>4 DEF unset
  <1>8. seen \subseteq s /\ s \subseteq Habits
    BY <1>6 DEF IInv, Inv, Habits
  <1>9. /\ kind \in Kinds /\ used \subseteq Attrs /\ o \in Obj
        /\ Excused(o, s) /\ Kept(o, s) /\ Linked(o, s)
    BY <1>6, <1>8, HabitsAdd DEF IInv, Inv, Excused
  <1>10. UnsetOK(a, does) /\ "EXPR" \notin Attrs
    BY <1>3, <1>6 DEF TablesAgree, UnsettersAgree, SettersAgree
  <1>11. o.flags \subseteq used \cup {"EXPR"} /\ o.mode \in BOOLEAN /\ o.ptr \in [Attrs -> Pointers]
         /\ o.list \in {"none", "live", "dead"} /\ o.leak \in SUBSET used
    BY <1>9 DEF Obj
  <1>12. CASE a = "EXPR"
    <2>1. does = "free" /\ Pardoned(s)
      BY <1>6, <1>10, <1>12 DEF UnsetOK, Pardoned
    <2>2. PICK l : l = IF o.list = "none" THEN "none" ELSE "dead"
      OBVIOUS
    <2>3. PICK f : f = (o.list = "dead")
      OBVIOUS
    <2>4. r = [live |-> TRUE, flags |-> o.flags, ptr |-> o.ptr, list |-> l,
               mode |-> o.mode, leak |-> o.leak, fault |-> f]
      <3>1. r = [o EXCEPT !.fault = o.fault \/ o.list = "dead", !.list = l]
        BY <1>4, <1>12, <2>1, <2>2 DEF FreeListed
      <3> QED BY <1>6, <1>9, <2>3, <3>1 DEF Obj
    <2>5. y = [live |-> TRUE, flags |-> fl, ptr |-> o.ptr, list |-> l,
               mode |-> o.mode, leak |-> o.leak, fault |-> f]
      <3>1. y = [r EXCEPT !.flags = o.flags \ {a}] /\ fl = o.flags \ {a}
        BY <1>5, <1>7, <2>1, <2>4
      <3> QED BY <2>4, <3>1
    <2>6. fl \subseteq used \cup {"EXPR"} /\ fl \cap Attrs = o.flags \cap Attrs
      BY <1>5, <1>10, <1>11, <1>12
    <2>7. y.flags = fl /\ y.list = l /\ y.mode = o.mode /\ y.fault = f
      BY <2>5
    <2>8. l \in {"none", "live", "dead"} /\ f \in BOOLEAN
      BY <2>2, <2>3
    <2>9. Beside(y, o, s)
      BY <1>11, <2>1, <2>5, <2>6, <2>7, <2>8 DEF Beside
    <2> QED BY <1>1, <1>2, <1>6, <1>8, <2>9, BesideStep
  <1>13. CASE a # "EXPR"
    <2>1. a \in Attrs /\ kind \in Unsetters /\ (does = "forget" => Losing(a) \cap s # {})
      BY <1>6, <1>10, <1>13 DEF UnsetOK
    <2>2. PICK f : f = (does = "free" /\ BadFree(o, a))
      OBVIOUS
    <2>3. PICK p : p = IF does = "free" THEN [o.ptr EXCEPT ![a] = IF @ = "null" THEN @ ELSE "freed"]
                       ELSE o.ptr
      OBVIOUS
    <2>4. r = [live |-> TRUE, flags |-> o.flags, ptr |-> p, list |-> o.list,
               mode |-> o.mode, leak |-> o.leak, fault |-> f]
      <3>1. CASE does = "free"
        <4>1. r = [o EXCEPT !.fault = f, !.ptr = p]
          BY <1>4, <1>6, <1>9, <1>13, <2>2, <2>3, <3>1 DEF Release, Obj
        <4> QED BY <1>6, <1>9, <4>1 DEF Obj
      <3>2. CASE does # "free"
        BY <1>4, <1>6, <1>9, <2>2, <2>3, <3>2 DEF Obj
      <3> QED BY <3>1, <3>2
    <2>5. y = [live |-> TRUE, flags |-> fl, ptr |-> p, list |-> o.list,
               mode |-> o.mode, leak |-> o.leak, fault |-> f]
      <3>1. y = [r EXCEPT !.flags = fl]
        BY <1>5, <1>7, <2>4
      <3> QED BY <2>4, <3>1
    <2>6. /\ y.live = TRUE /\ y.flags = fl /\ y.ptr = p /\ y.list = o.list /\ y.leak = o.leak
          /\ y.fault = f
      BY <2>5
    <2>7. /\ \A b \in Attrs \ {a} : p[b] = o.ptr[b] /\ (b \in fl <=> b \in o.flags)
          /\ does # "free" => p[a] = o.ptr[a]
          /\ does = "free" => p[a] \in {"null", "freed"}
          /\ p[a] # "freed" => p[a] = o.ptr[a]
          /\ does # "keep" => a \notin fl
          /\ p \in [Attrs -> Pointers]
      <3>1. does \in {"free", "forget", "keep"}
        BY <1>10 DEF UnsetOK
      <3>2. CASE does = "free"
        <4>1. p = [o.ptr EXCEPT ![a] = IF o.ptr[a] = "null" THEN "null" ELSE "freed"]
          BY <2>3, <3>2
        <4>2. p[a] = IF o.ptr[a] = "null" THEN "null" ELSE "freed"
          BY <1>11, <2>1, <4>1
        <4>3. \A b \in Attrs \ {a} : p[b] = o.ptr[b]
          BY <1>11, <4>1
        <4>4. p \in [Attrs -> Pointers]
          BY <1>11, <4>1 DEF Pointers
        <4> QED BY <1>5, <3>2, <4>2, <4>3, <4>4
      <3>3. CASE does # "free"
        <4>1. p = o.ptr /\ o.ptr[a] \in Pointers
          BY <1>11, <2>1, <2>3, <3>3
        <4>2. does = "keep" => p[a] # "freed" \/ p[a] = o.ptr[a]
          BY <4>1
        <4> QED BY <1>5, <1>11, <3>3, <4>1
      <3> QED BY <3>2, <3>3
    <2>8. f => Pardoned(s)
      BY <1>6, <1>9, <2>1, <2>2 DEF Kept, BadFree, Holds
    <2>9. fl \subseteq o.flags
      BY <1>5
    <2>10. Kept(y, s)
      <3>1. \A b \in fl \cap Attrs : p[b] = o.ptr[b]
        <4>1. a \in fl => does = "keep"
          BY <2>7
        <4> QED BY <2>7, <4>1
      <3>2. /\ \A b \in fl \cap Attrs : Holds(y, b) \/ (p[b] = "null" /\ "nomem" \in s)
            /\ Pardoned(s) \/ \A b \in fl \cap Attrs : p[b] = "block"
        BY <1>9, <2>6, <2>9, <3>1 DEF Kept, Holds
      <3>3. \A b \in Attrs : Holds(y, b) => b \in fl \/ Losing(b) \cap s # {}
        <4> SUFFICES ASSUME NEW b \in Attrs, Holds(y, b) PROVE b \in fl \/ Losing(b) \cap s # {}
          OBVIOUS
        <4>1. CASE b # a
          BY <1>9, <2>6, <2>7, <4>1 DEF Kept, Holds
        <4>2. CASE b = a
          <5>1. does # "free"
            BY <2>6, <2>7, <4>2 DEF Holds
          <5> QED BY <1>5, <1>6, <1>10, <2>1, <4>2, <5>1 DEF UnsetOK
        <4> QED BY <4>1, <4>2
      <3> QED BY <2>1, <2>6, <3>2, <3>3 DEF Kept
    <2>11. y \in Obj
      <3>1. y.flags \in SUBSET (used \cup {"EXPR"})
        BY <1>11, <2>6, <2>9
      <3>2. /\ y.ptr \in [Attrs -> Pointers] /\ y.leak \in SUBSET used /\ y.live \in BOOLEAN
            /\ y.list \in {"none", "live", "dead"}
        BY <1>11, <2>6, <2>7
      <3>3. y.mode \in BOOLEAN /\ y.fault \in BOOLEAN
        BY <1>11, <2>2, <2>5
      <3>4. y = [live |-> y.live, flags |-> y.flags, ptr |-> y.ptr, list |-> y.list,
                 mode |-> y.mode, leak |-> y.leak, fault |-> y.fault]
        BY <2>5
      <3> QED BY <3>1, <3>2, <3>3, <3>4 DEF Obj
    <2>12. \A b \in Attrs : Holds(y, b) => b \in used
      <3>1. \A b \in Attrs : Holds(y, b) => Holds(o, b)
        BY <2>6, <2>7 DEF Holds
      <3> QED BY <1>9, <3>1 DEF Excused
    <2>13. Excused(y, s)
      BY <1>9, <2>6, <2>8, <2>11, <2>12 DEF Excused
    <2>14. Linked(y, s) /\ True(y, {}, s)
      BY <1>9, <2>6 DEF Linked, True
    <2>15. Inv(y, {}, s)
      BY <1>8, <1>9, <2>10, <2>13, <2>14 DEF Inv
    <2> QED BY <1>1, <1>2, <1>6, <2>15, SameKeeps
  <1> QED BY <1>12, <1>13

\* The invariant does not look at the mode.
LEMMA ModeKeeps ==
    ASSUME NEW x, NEW t, NEW s, Inv(x, t, s), NEW m \in BOOLEAN,
           NEW y, y = [x EXCEPT !.mode = @ \/ m]
    PROVE  Inv(y, t, s)
  <1>1. x \in Obj
    BY DEF Inv, Excused
  <1>2. PICK n \in BOOLEAN : n = (x.mode \/ m)
    OBVIOUS
  <1>3. y = [x EXCEPT !.mode = n]
    BY <1>2
  <1>4. y \in Obj
    BY <1>1, <1>3 DEF Obj
  <1>5. /\ y.live = x.live /\ y.flags = x.flags /\ y.ptr = x.ptr /\ y.list = x.list
        /\ y.leak = x.leak /\ y.fault = x.fault
    BY <1>1, <1>3 DEF Obj
  <1>6. Excused(y, s) <=> Excused(x, s)
    BY <1>1, <1>4, <1>5 DEF Excused, Holds
  <1>7. Kept(y, s) <=> Kept(x, s)
    BY <1>5 DEF Kept, Holds
  <1>8. Linked(y, s) = Linked(x, s) /\ True(y, t, s) = True(x, t, s)
    BY <1>5 DEF Linked, True, Arrived
  <1> QED BY <1>5, <1>6, <1>7, <1>8 DEF Inv

\* Parsing a message, to the end or to the part that fails.
LEMMA ParseKeeps ==
    ASSUME IInv, TablesAgree, NEW v \in Messages, NEW m \in BOOLEAN, parse(v, m)
    PROVE  IInv'
  <1>1. PICK y : y = o'
    OBVIOUS
  <1>2. PICK s : s = seen'
    OBVIOUS
  <1>3. PICK t : t = told'
    OBVIOUS
  <1>4. PICK p : p = Parsed(v)
    OBVIOUS
  <1>5. PICK q : q = AfterParse(p)
    OBVIOUS
  <1>6. /\ o.live /\ y = [q EXCEPT !.mode = @ \/ m] /\ UNCHANGED <<kind, used>>
        /\ t = IF p.stop THEN {} ELSE DOMAIN v \ {"EXPR"}
        /\ kind \in Fresh => o.flags = {} /\ seen = {}
        /\ s = seen \cup If(o.flags # {} \/ o.list # "none", "reparse")
                    \cup If(\E a \in DOMAIN v \ {"EXPR"} : v[a] # "block", "nomem")
                    \cup If("EXPR" \in DOMAIN v /\ v["EXPR"] # "block", "unknown")
    BY <1>1, <1>2, <1>3, <1>4, <1>5 DEF parse, Running, Noting, Same
  <1>7. /\ seen \subseteq s /\ s \subseteq Habits
        /\ o.flags # {} => "reparse" \in s
        /\ \A a \in DOMAIN v \ {"EXPR"} : v[a] # "block" => "nomem" \in s
        /\ "EXPR" \in DOMAIN v /\ v["EXPR"] # "block" => "unknown" \in s
    BY <1>6 DEF If, IInv, Inv, Habits
  <1>8. kind \in Kinds /\ used \subseteq Attrs /\ Kept(o, seen)
    BY <1>6 DEF IInv, Inv
  <1>9. kind \in Fresh => \A a \in Attrs : ~ Holds(o, a)
    BY <1>6, <1>8 DEF Kept
  <1>10. Reading(v, s)
    BY <1>6, <1>7, <1>9, MessageOf DEF Reading
  <1>11. PICK n \in Nat : n = Len(ops[kind].parse) /\ DOMAIN ops[kind].parse = 1..n
    BY DEF TablesAgree, ParseOnce
  <1>12. Midway(p, n, v, s)
    BY <1>4, <1>6, <1>10, <1>11, MessageKeeps
  <1>13. PICK x : x = p.x
    OBVIOUS
  <1>14. Excused(x, s) /\ Kept(x, s) /\ x.live /\ x \in Obj
    BY <1>12, <1>13 DEF Midway, Excused
  <1>15. CASE p.stop /\ kind = "elem"
    <2>1. q = Destroy(x) /\ t = {}
      BY <1>5, <1>6, <1>13, <1>15 DEF AfterParse, Expressions
    <2>2. Linked(x, s) /\ kind # "immediate"
      BY <1>12, <1>13, <1>15 DEF Midway, Expressions
    <2>3. Excused(q, s) /\ ~ q.live
      BY <1>8, <1>14, <2>1, <2>2, DestroyKeeps
    <2>4. Inv(q, t, s)
      BY <1>7, <1>8, <2>1, <2>3 DEF Inv
    <2> QED BY <1>1, <1>2, <1>3, <1>6, <2>4, ModeKeeps, SameKeeps
  <1>16. CASE p.stop /\ kind \in Expressions
    <2>1. PICK k : k = x.leak \cup {a \in Attrs : Holds(x, a)}
      OBVIOUS
    <2>2. q = [x EXCEPT !.live = FALSE, !.leak = k] /\ t = {}
      BY <1>5, <1>6, <1>13, <1>16, <2>1 DEF AfterParse, Expressions
    <2>3. \A a \in k : a \in used /\ Losing(a) \cap s # {}
      BY <1>12, <1>13, <1>14, <1>16, <2>1 DEF Midway, Excused, Obj
    <2>4. /\ q.live = FALSE /\ q.leak = k /\ q.ptr = x.ptr /\ q.fault = x.fault
      BY <1>14, <2>2 DEF Obj
    <2>5. q \in Obj
      <3>1. k \in SUBSET used
        BY <2>3
      <3> QED BY <1>14, <2>2, <3>1 DEF Obj
    <2>6. Excused(q, s)
      BY <1>14, <2>3, <2>4, <2>5 DEF Excused, Holds
    <2>7. Inv(q, t, s)
      BY <1>7, <1>8, <2>2, <2>4, <2>6 DEF Inv
    <2> QED BY <1>1, <1>2, <1>3, <1>6, <2>7, ModeKeeps, SameKeeps
  <1>17. CASE ~ (p.stop /\ (kind = "elem" \/ kind \in Expressions))
    <2>1. q = x
      BY <1>5, <1>13, <1>17 DEF AfterParse
    <2>2. Linked(x, s)
      BY <1>12, <1>13, <1>17 DEF Midway
    <2>3. t \subseteq used
      BY <1>6, MessageOf
    <2>4. ASSUME NEW a \in t PROVE Arrived(x, a, s)
      <3>1. ~ p.stop /\ a \in DOMAIN v /\ a \in Attrs
        BY <1>6, <1>8, <2>3, <2>4
      <3>2. PICK j \in 1..n : ops[kind].parse[j].attr = a
        BY <1>11, <3>1, MessageOf
      <3>3. j <= n /\ j \in DOMAIN ops[kind].parse
        BY <1>11
      <3> QED BY <1>12, <1>13, <3>1, <3>2, <3>3 DEF Midway
    <2>5. Inv(q, t, s)
      BY <1>7, <1>8, <1>14, <2>1, <2>2, <2>3, <2>4 DEF Inv, True
    <2> QED BY <1>1, <1>2, <1>3, <1>6, <2>5, ModeKeeps, SameKeeps
  <1> QED BY <1>15, <1>16, <1>17

\* A new object holds nothing.
LEMMA InitKeeps == Init => IInv
  <1> SUFFICES ASSUME Init PROVE IInv
    OBVIOUS
  <1>1. kind \in Kinds /\ used \subseteq Attrs /\ told = {} /\ seen = {}
    BY DEF Init
  <1>2. /\ o.live = TRUE /\ o.flags = {} /\ o.ptr = [a \in Attrs |-> "null"] /\ o.list = "none"
        /\ o.leak = {} /\ o.fault = FALSE
    BY DEF Init
  <1>3. o \in Obj
    BY DEF Init, Obj, Pointers
  <1>4. \A a \in Attrs : o.ptr[a] = "null"
    BY <1>2
  <1>5. Excused(o, seen)
    BY <1>2, <1>3, <1>4 DEF Excused, Holds
  <1>6. Kept(o, seen)
    BY <1>2, <1>4 DEF Kept, Holds
  <1> QED BY <1>1, <1>2, <1>5, <1>6 DEF IInv, Inv, Linked, True

\* No step of a program breaks the invariant.
LEMMA NextKeeps == IInv /\ [Next]_vars => IInv'
  <1> SUFFICES ASSUME IInv, [Next]_vars PROVE IInv'
    OBVIOUS
  <1>1. TablesAgree
    BY AllAgree DEF IInv, Inv
  <1>2. ASSUME NEW a \in used, NEW v, set_data(a, v) PROVE IInv'
    BY <1>1, <1>2, SetKeeps
  <1>3. CASE set_expr
    BY <1>1, <1>3, SetExprKeeps
  <1>4. ASSUME NEW m \in BOOLEAN, set_mode(m) PROVE IInv'
    BY <1>4, SetModeKeeps
  <1>5. ASSUME NEW a \in used \cup {"EXPR"}, unset(a) PROVE IInv'
    BY <1>1, <1>5, UnsetKeeps
  <1>6. ASSUME NEW v \in Messages, NEW m \in BOOLEAN, parse(v, m) PROVE IInv'
    BY <1>1, <1>6, ParseKeeps
  <1>7. ASSUME NEW a \in used, get(a) PROVE IInv'
    BY <1>7, GetKeeps
  <1>8. CASE build
    BY <1>8, BuildKeeps
  <1>9. CASE add_expr \/ del_expr
    BY <1>9, ExprKeeps
  <1>10. CASE free
    BY <1>1, <1>10, FreeKeeps
  <1>11. CASE UNCHANGED vars
    <2>1. UNCHANGED <<kind, used>> /\ Inv(o', told', seen')
      BY <1>11 DEF vars, IInv
    <2> QED BY <2>1, SameKeeps
  <1> QED BY <1>2, <1>3, <1>4, <1>5, <1>6, <1>7, <1>8, <1>9, <1>10, <1>11 DEF Next

-------------------------------------------------------------------------------
(* What it says of the library.                                            *)

\* The invariant holds in every reachable state.
THEOREM Invariant == Spec => []IInv
  <1>1. Init => IInv
    BY InitKeeps
  <1>2. IInv /\ [Next]_vars => IInv'
    BY NextKeeps
  <1> QED BY <1>1, <1>2, PTL DEF Spec

\* No order of calls makes the library free a block twice or follow a pointer
\* to nothing, unless the program did one of the things that this kind of
\* object does not take (set.c:108, table.c:107, ...): of every kind, with
\* however many of its attributes.
THEOREM FaultsAreExcused == Spec => []NoFault
  <1>1. IInv => NoFault
    BY DEF IInv, Inv, Excused, Pardoned, NoFault
  <1> QED BY <1>1, Invariant, PTL

\* Of a living object a set bit means that memory is there, or that memory
\* ran out: what every getter and builder relies on (rule.c:213).
THEOREM FlagsMeanMemory == Spec => []FlagMeansMemory
  <1>1. IInv => FlagMeansMemory
    <2> SUFFICES ASSUME IInv PROVE FlagMeansMemory
      OBVIOUS
    <2>1. kind \in Kinds /\ used \subseteq Attrs /\ told \subseteq used /\ seen \subseteq Habits
          /\ o \in Obj
      BY DEF IInv, Inv, Excused
    <2>2. TypeOK
      BY <2>1 DEF TypeOK, Obj, Pointers
    <2>3. o.live => Kept(o, seen)
      BY DEF IInv, Inv
    <2> QED BY <2>2, <2>3 DEF FlagMeansMemory, Kept
  <1> QED BY <1>1, Invariant, PTL

\* A block is lost only where the code is known to lose it: table.c:84,
\* chain.c:727, object.c:310, lookup.c:46, expr.c:267.
THEOREM LeaksAreExplained == Spec => []LeaksOnly
  <1>1. IInv => LeaksOnly
    BY DEF IInv, Inv, Excused, LeaksOnly
  <1> QED BY <1>1, Invariant, PTL

\* What a call said it stored is there, but for the allocations that nobody
\* checks (chain.c:687, object.c:310).
THEOREM ToldIsTrue == Spec => []ToldTruth
  <1>1. IInv => ToldTruth
    BY DEF IInv, Inv, True, Arrived, ToldTruth
  <1> QED BY <1>1, Invariant, PTL

===============================================================================

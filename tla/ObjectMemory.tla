---------------------------- MODULE ObjectMemory ----------------------------
(***************************************************************************)
(* One object of any kind, from its allocation to its destruction, in the  *)
(* hands of a program that makes any sequence of calls on it: the memory   *)
(* behind its attributes and its list of expressions.  The program may be  *)
(* careless: it sets an attribute twice, parses a message into an object   *)
(* that holds something, runs out of memory.  seen records which of these  *)
(* it did, and the properties say what each kind of object makes of it.    *)
(*                                                                         *)
(* A block has one owner, the pointer in the object, so a block is lost    *)
(* when that pointer is overwritten or the object goes away, and the       *)
(* states of a pointer are enough: null, block, holes (an array of names   *)
(* of which one could not be copied), freed.  The expressions of a list    *)
(* are released all together, hence three states: none, live, dead (still  *)
(* linked, already freed).                                                 *)
(***************************************************************************)
EXTENDS ObjectKinds, SequencesExt, FiniteSets, Integers

CONSTANT MaxUsed        \* attributes the program uses on the object
ASSUME MaxUsedAssumption == MaxUsed \in Nat \ {0}

VARIABLES
  kind,     \* what the object is
  used,     \* the attributes the program works with
  o,        \* the object
  told,     \* what the last call told the program it had stored
  seen      \* what the program, or its luck, has done so far

vars == <<kind, used, o, told, seen>>

Attrs   == DOMAIN ops[kind].free
Lists   == "EXPR" \in ops[kind].build        \* kinds with expressions
Habits  == {"reset", "reparse", "unset", "drop", "swap", "nomem",
            "unknown", "mismatch"}

Init ==
  /\ kind \in Kinds
  /\ used \in {u \in SUBSET Attrs : Cardinality(u) \in 1..MaxUsed}
  /\ o = [live |-> TRUE, flags |-> {}, ptr |-> [a \in Attrs |-> "null"],
          list |-> "none", mode |-> FALSE, leak |-> {}, fault |-> FALSE]
  /\ told = {} /\ seen = {}

-----------------------------------------------------------------------------
(* Memory *)

Holds(x, a) == x.ptr[a] \in {"block", "holes"}

Frees(how, x, a) ==
  \/ how = "always"
  \/ how = "flagged" /\ a \in x.flags
  \/ how = "mode" /\ x.mode

\* free(NULL) is nothing, but the names of a device array are released
\* through the array.
BadFree(x, a) == x.ptr[a] = "freed" \/ (a = "DEVICES" /\ x.ptr[a] = "null")

Release(x, a) ==
  [x EXCEPT !.fault = @ \/ BadFree(x, a),
            !.ptr[a] = IF @ = "null" THEN @ ELSE "freed"]

\* Mutant: the new block is allocated and not kept.
Overwrite_nowhere(x, a, v) ==
  [x EXCEPT !.leak = IF Holds(x, a) THEN @ \cup {a} ELSE @]

\* Put a new pointer in place of the old one.
Overwrite(x, a, v) ==
  [x EXCEPT !.leak = IF Holds(x, a) THEN @ \cup {a} ELSE @, !.ptr[a] = v]

\* Replace the block of an attribute; v is what the allocation gave.
Store(x, a, how, v) ==
  LET r == IF Frees(how.frees, x, a) THEN Release(x, a) ELSE x
      w == IF v = "null" /\ how.fails = "keep" THEN r ELSE Overwrite(r, a, v)
  IN  IF v = "null" /\ how.fails # "flag" THEN w
      ELSE [w EXCEPT !.flags = @ \cup {a}]

Outcomes(a, how) ==
  {"block"} \cup (IF how.fails = "never" THEN {} ELSE {"null"})
            \cup (IF a = "DEVICES" THEN {"holes"} ELSE {})

\* Release every expression of the list, leaving the list as it is.
FreeListed(x) ==
  [x EXCEPT !.fault = @ \/ x.list = "dead",
            !.list = IF @ = "none" THEN @ ELSE "dead"]

\* Link one more expression: the neighbour in the list is written to.
Link(x) == [x EXCEPT !.fault = @ \/ x.list = "dead", !.list = "live"]

\* The destructor.
Destroy(x) ==
  LET freed == {a \in Attrs : Frees(ops[kind].free[a], x, a)}
      r     == FreeListed(x)
  IN  [r EXCEPT !.live  = FALSE,
                !.fault = @ \/ \E a \in freed : BadFree(x, a),
                !.leak  = @ \cup {a \in Attrs \ freed : Holds(x, a)},
                !.ptr   = [a \in Attrs |->
                             IF a \in freed THEN "freed" ELSE x.ptr[a]]]

-----------------------------------------------------------------------------
(* The calls a program makes.  None after a fault: the process is gone.    *)

Running == o.live /\ ~o.fault
Noting(habits) == seen' = seen \cup habits
If(condition, habit) == IF condition THEN {habit} ELSE {}
Same == UNCHANGED <<kind, used>>

set_data(a, v) ==
  /\ Running
  /\ LET how == ops[kind].set[a] IN
       /\ v \in Outcomes(a, how)
       /\ o' = Store(o, a, how, v)
       /\ told' = IF kind = "obj" \/ v = "null" THEN {} ELSE {a}
  /\ Noting(If(a \in o.flags, "reset") \cup If(v # "block", "nomem"))
  /\ Same

\* NFTNL_X_EXPR: what the list holds is freed, not unlinked, and the new
\* expression is linked after it.
set_expr ==
  /\ Running
  /\ "EXPR" \in DOMAIN ops[kind].set
  /\ o' = [Link(FreeListed(o)) EXCEPT !.flags = @ \cup {"EXPR"}]
  /\ told' = {}
  /\ Noting(If(o.list # "none", "swap"))
  /\ Same

\* The value a later release depends on: NFTNL_EXPR_LOG_FLAGS with the bit
\* numbered NFTNL_EXPR_LOG_PREFIX in it, or NFTNL_EXPR_IMM_VERDICT with a jump.
set_mode(m) ==
  /\ Running
  /\ kind \in {"log", "immediate"}
  /\ o' = [o EXCEPT !.mode = m]
  /\ told' = {}
  /\ Same /\ UNCHANGED seen

unset(a) ==
  /\ Running
  /\ a \in DOMAIN ops[kind].unset
  /\ a \in o.flags
  /\ LET does == ops[kind].unset[a]
         r == IF does # "free" THEN o
              ELSE IF a = "EXPR" THEN FreeListed(o) ELSE Release(o, a)
     IN o' = [r EXCEPT !.flags = IF does = "keep" THEN @ ELSE @ \ {a}]
  /\ told' = {}
  /\ Noting({IF a = "EXPR" THEN "drop" ELSE "unset"})
  /\ Same

\* The expressions of a message: all of them, none, or the first and then one
\* that cannot be parsed (unknown to the library, or no memory for it).
ParseListed(x, fails, v) ==
  LET r == IF v = "null" THEN x ELSE Link(x)
  IN  IF v = "block" THEN [r EXCEPT !.flags = @ \cup {"EXPR"}]
      ELSE IF fails = "free" THEN FreeListed(r) ELSE r

ParseAttr(v, p, e) ==
  IF p.stop \/ e.attr \notin DOMAIN v THEN p
  ELSE IF e.attr = "EXPR"
  THEN [x    |-> ParseListed(p.x, e.how.fails, v["EXPR"]),
        stop |-> v["EXPR"] # "block"]
  ELSE [x    |-> Store(p.x, e.attr, e.how, v[e.attr]),
        stop |-> v[e.attr] = "null" /\ e.how.fails \in {"error", "keep"}]

Parsed(v) ==
  LET order == ops[kind].parse
      upto[i \in 0..Len(order)] ==
        IF i = 0 THEN [x |-> o, stop |-> FALSE]
        ELSE ParseAttr(v, upto[i - 1], order[i])
  IN  upto[Len(order)]

ParseOutcomes(e) ==
  IF e.attr = "EXPR" THEN {"block", "part", "null"} ELSE Outcomes(e.attr, e.how)

\* What a message may hold, and how storing each part of it goes.
Messages ==
  LET order  == ToSet(ops[kind].parse)
      usable == {e \in order : e.attr \in used \cup {"EXPR"}}
  IN  UNION {{v \in [{e.attr : e \in s} -> {"block", "holes", "part", "null"}] :
                \A e \in s : v[e.attr] \in ParseOutcomes(e)}
             : s \in SUBSET usable}

\* A parser that fails leaves the object to the program, except that a set
\* element is destroyed and of an expression only the structure is freed.
AfterParse(p) ==
  CASE p.stop /\ kind = "elem"         -> Destroy(p.x)
    [] p.stop /\ kind \in Expressions  ->
         [p.x EXCEPT !.live = FALSE, !.leak = @ \cup {a \in Attrs : Holds(p.x, a)}]
    [] OTHER                           -> p.x

parse(v, m) ==
  /\ Running
  /\ kind \in Fresh => o.flags = {} /\ o.list = "none" /\ ~o.mode /\ seen = {}
  /\ m => kind \in {"log", "immediate"}
  /\ kind = "immediate" => m = ("CHAIN" \in DOMAIN v)
  /\ LET p == Parsed(v) IN
       /\ o' = [AfterParse(p) EXCEPT !.mode = @ \/ m]
       /\ told' = IF p.stop THEN {} ELSE DOMAIN v \ {"EXPR"}
  /\ Noting(If(o.flags # {} \/ o.list # "none", "reparse")
            \cup If(\E a \in DOMAIN v \ {"EXPR"} : v[a] # "block", "nomem")
            \cup If("EXPR" \in DOMAIN v /\ v["EXPR"] # "block", "unknown"))
  /\ Same

get(a) ==
  /\ Running
  /\ a \in o.flags \cap ops[kind].get
  /\ o' = [o EXCEPT !.fault = ~Holds(o, a)]
  /\ told' = {}
  /\ Same /\ UNCHANGED seen

\* Build a message.  Attributes that are sent only beside a scalar one (the
\* devices of a chain beside its hook, the chain of a verdict) are sent: the
\* program has set that scalar.
build ==
  /\ Running
  /\ LET sent == (o.flags \cap ops[kind].build \cap Attrs)
                   \ If(kind = "chain" /\ "DEV" \in o.flags, "DEVICES")
     IN o' = [o EXCEPT !.fault = \/ \E a \in sent : o.ptr[a] # "block"
                                 \/ o.list = "dead"]
  /\ told' = {}
  /\ Same /\ UNCHANGED seen

add_expr ==
  /\ Running
  /\ Lists
  /\ o' = Link(o)
  /\ told' = {}
  /\ Same /\ UNCHANGED seen

\* nftnl_rule_del_expr: an expression, maybe the last, goes back to the caller.
del_expr ==
  /\ Running
  /\ kind = "rule" /\ o.list = "live"
  /\ \E l \in {"none", "live"} : o' = [o EXCEPT !.list = l]
  /\ told' = {}
  /\ Same /\ UNCHANGED seen

free ==
  /\ Running
  /\ o' = Destroy(o)
  /\ told' = {}
  /\ Noting(If(kind = "immediate" /\ ~o.mode, "mismatch"))
  /\ Same

Next ==
  \/ \E a \in used, v \in {"block", "holes", "null"} : set_data(a, v)
  \/ set_expr
  \/ \E m \in BOOLEAN : set_mode(m)
  \/ \E a \in used \cup {"EXPR"} : unset(a)
  \/ \E v \in Messages, m \in BOOLEAN : parse(v, m)
  \/ \E a \in used : get(a)
  \/ build
  \/ add_expr
  \/ del_expr
  \/ free

Spec == Init /\ [][Next]_vars

-----------------------------------------------------------------------------
(* Properties *)

TypeOK ==
  /\ kind \in Kinds /\ used \subseteq Attrs
  /\ told \subseteq used /\ seen \subseteq Habits
  /\ o \in [live : BOOLEAN, flags : SUBSET (used \cup {"EXPR"}),
            ptr : [Attrs -> {"null", "block", "holes", "freed"}],
            list : {"none", "live", "dead"}, mode : BOOLEAN,
            leak : SUBSET used, fault : BOOLEAN]

\* The sets of habits that are unsafe with a kind of object, each alone enough.
NoMemAgain == {{"nomem", "reset"}, {"nomem", "reparse"}}
Unsafe ==
  CASE kind \in {"table", "rule"}        -> NoMemAgain
    [] kind \in {"chain", "flowtable", "obj", "objref"} -> {{"nomem"}}
    [] kind = "set"     -> NoMemAgain \cup {{"drop"}, {"swap"}, {"unknown"}}
    [] kind = "elem"    -> {{"nomem", "reset"}, {"drop"}, {"swap"}}
    [] kind = "dynset"  -> {{"nomem", "reset"}, {"swap"}}
    [] kind \in {"log", "lookup", "immediate", "flow"} -> {{"nomem", "reset"}}
    [] kind \in {"match", "target"}      -> {}

\* No sequence of calls frees a block twice, follows a pointer to freed memory
\* or a null one, unless the program did one of the things this kind of object
\* does not support: above all, expressions freed while they stay linked
\* (set.c:108, 213, 745) and bits left set when memory runs out (table.c:107).
NoFault == o.fault => \E h \in Unsafe : h \subseteq seen

\* While the object lives, a set bit means memory behind the attribute: never a
\* freed block, and NULL only after an allocation failed.
FlagMeansMemory ==
  /\ TypeOK
  /\ o.live => \A a \in o.flags \cap Attrs :
                  Holds(o, a) \/ (o.ptr[a] = "null" /\ "nomem" \in seen)

\* What can make a kind of object lose the block of an attribute.
Losing(a) ==
  CASE kind = "table" /\ a = "USERDATA"                     -> {"unset"}
    [] kind = "chain" /\ a \in {"DEV", "DEVICES"}           -> {"reparse"}
    [] kind = "flowtable" /\ a = "DEVICES"                  -> {"reparse"}
    [] kind = "obj" /\ a \in {"TABLE", "NAME"}              -> {"reparse"}
    [] kind = "dynset"                                      -> {"reset", "unknown"}
    [] kind \in {"log", "lookup", "objref", "flow"}         -> {"reset"}
    [] kind = "immediate"                                   -> {"mismatch"}
    [] OTHER                                                -> {}

\* No block is ever lost, by any order of calls, except where the code loses
\* it: table.c:84 (unset), the parsers that store over what they find
\* (chain.c:727, object.c:310), the setters of expressions that do
\* (lookup.c:46), and the structure freed alone at expr.c:267.
LeaksOnly == \A a \in o.leak : Losing(a) \cap seen # {}

\* When a call says it succeeded, what it was given is there: the exceptions
\* need an allocation to fail that nobody checks.
Unchecked ==
  CASE kind = "chain"     -> {"DEVICES", "USERDATA"}
    [] kind = "flowtable" -> {"DEVICES"}
    [] kind = "obj"       -> {"TABLE", "NAME", "USERDATA"}
    [] kind = "objref"    -> {"IMM_NAME", "SET_NAME"}
    [] OTHER              -> {}
ToldTruth ==
  o.live => \A a \in told :
              \/ a \in o.flags /\ o.ptr[a] = "block"
              \/ a \in Unchecked /\ "nomem" \in seen
=============================================================================

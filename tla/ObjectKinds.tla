---------------------------- MODULE ObjectKinds ----------------------------
(***************************************************************************)
(* What each kind of object does with the memory behind its attributes.    *)
(* The library repeats one scheme by hand in every file: a word of flags,  *)
(* a pointer for each attribute of variable size, and a switch per         *)
(* operation.  The switches differ, and this module is the record of how:  *)
(* one definition per function, over the attributes that own memory (the   *)
(* others are copied in and out by value and own nothing).                 *)
(*                                                                         *)
(* X_free      when the destructor releases the attribute                  *)
(* X_unset     what unsetting a set attribute does with its memory         *)
(* X_set       when the setter releases the old block, and how it fails    *)
(* X_get       the attributes whose memory the getter dereferences         *)
(* X_build     the attributes whose memory the message builder reads       *)
(* X_parse     the attributes in the order the parser stores them          *)
(*                                                                         *)
(* "EXPR" stands for the list of expressions the object owns, under the    *)
(* attribute bit EXPR or EXPRESSIONS.                                      *)
(***************************************************************************)
EXTENDS Sequences

\* When the block an attribute holds is released:
\*   flagged  if the attribute's bit is set        always  whatever the bit
\*   never    not at all                           mode    see ObjectMemory
\* What happens if the new block cannot be had:
\*   error    pointer NULL, bit unchanged, -1      keep    nothing stored, -1
\*   flag     pointer NULL, bit set, success       never   cannot happen
\*   ignore   pointer NULL, bit unchanged, success
How(frees, fails) == [frees |-> frees, fails |-> fails]
Renew == How("flagged", "error")
Lose  == How("never", "error")

Entry(a, frees, fails) == [attr |-> a, how |-> How(frees, fails)]
Renewed(a) == Entry(a, "flagged", "error")
Listed(fails) == Entry("EXPR", "never", fails)

-----------------------------------------------------------------------------
(* table.c *)
table_free  == [NAME |-> "flagged", USERDATA |-> "flagged"]
table_unset == [NAME |-> "free", USERDATA |-> "forget"]
table_set   == [NAME |-> Renew, USERDATA |-> Renew]
table_get   == {"NAME"}
table_build == {"NAME", "USERDATA"}
\* Mutant: the parser does not look at what strdup returned.
table_parse_unchecked == <<Entry("NAME", "flagged", "flag"),
                           Renewed("USERDATA")>>
table_parse == <<Renewed("NAME"), Renewed("USERDATA")>>

(* chain.c: unset returns early for USERDATA, its bit stays; the parser    *)
(* stores the devices over what the chain had                              *)
chain_free  == [NAME |-> "flagged", TABLE |-> "flagged", TYPE |-> "flagged",
                DEV |-> "flagged", USERDATA |-> "flagged",
                DEVICES |-> "flagged"]
chain_unset == [NAME |-> "free", TABLE |-> "free", TYPE |-> "free",
                DEV |-> "free", DEVICES |-> "free", USERDATA |-> "keep"]
chain_set   == [NAME |-> Renew, TABLE |-> Renew, TYPE |-> Renew,
                DEV |-> Renew, DEVICES |-> Renew, USERDATA |-> Renew]
chain_get   == {"NAME", "TABLE", "DEV"}
chain_build == {"TABLE", "NAME", "DEV", "DEVICES", "TYPE", "USERDATA"}
chain_parse_hook == <<Entry("DEV", "never", "error"),
                      Entry("DEVICES", "never", "keep")>>
chain_parse == <<Renewed("NAME"), Renewed("TABLE")>> \o chain_parse_hook
               \o <<Renewed("TYPE"), Entry("USERDATA", "flagged", "ignore")>>

(* rule.c *)
\* Mutant: the destructor does not look at the bits.
rule_free_always == [TABLE |-> "always", CHAIN |-> "always",
                     USERDATA |-> "always"]
rule_free  == [TABLE |-> "flagged", CHAIN |-> "flagged",
               USERDATA |-> "flagged"]
rule_unset == [TABLE |-> "free", CHAIN |-> "free", USERDATA |-> "free"]
rule_set   == [TABLE |-> Renew, CHAIN |-> Renew, USERDATA |-> Renew]
rule_get   == {"TABLE", "CHAIN"}
rule_build == {"TABLE", "CHAIN", "USERDATA", "EXPR"}
rule_parse_expr == Listed("keep")
\* Mutant: the parser stores the user data over the old.
rule_parse_over == <<Renewed("TABLE"), Renewed("CHAIN"), rule_parse_expr,
                     Entry("USERDATA", "never", "error")>>
rule_parse == <<Renewed("TABLE"), Renewed("CHAIN"), rule_parse_expr,
                Renewed("USERDATA")>>

(* set.c: expressions are freed where they are, and stay linked            *)
set_free  == [TABLE |-> "flagged", NAME |-> "flagged",
              USERDATA |-> "flagged"]
set_unset == [TABLE |-> "free", NAME |-> "free", USERDATA |-> "free",
              EXPR |-> "free"]
set_set   == [TABLE |-> Renew, NAME |-> Renew, USERDATA |-> Renew,
              EXPR |-> How("always", "never")]
set_get   == {"TABLE", "NAME"}
set_build == {"TABLE", "NAME", "USERDATA", "EXPR"}
set_parse == <<Renewed("TABLE"), Renewed("NAME"), Renewed("USERDATA"),
               Listed("free")>>

(* set_elem.c *)
elem_free  == [CHAIN |-> "flagged", USERDATA |-> "flagged",
               OBJREF |-> "flagged"]
elem_unset == [CHAIN |-> "free", USERDATA |-> "free", OBJREF |-> "free",
               EXPR |-> "free"]
elem_set   == [CHAIN |-> Renew, USERDATA |-> Renew, OBJREF |-> Renew,
               EXPR |-> How("always", "never")]
elem_get   == {"CHAIN", "OBJREF"}
elem_build == {"CHAIN", "USERDATA", "OBJREF", "EXPR"}
elem_parse == <<Entry("CHAIN", "never", "error"), Listed("keep"),
                Renewed("USERDATA"), Entry("OBJREF", "never", "error")>>

(* flowtable.c *)
flowtable_free  == [NAME |-> "flagged", TABLE |-> "flagged",
                    DEVICES |-> "flagged"]
flowtable_unset == [NAME |-> "free", TABLE |-> "free", DEVICES |-> "free"]
flowtable_set   == [NAME |-> Renew, TABLE |-> Renew, DEVICES |-> Renew]
flowtable_get   == {"NAME", "TABLE"}
flowtable_build == {"TABLE", "NAME", "DEVICES"}
flowtable_parse == <<Renewed("NAME"), Renewed("TABLE"),
                     Entry("DEVICES", "never", "keep")>>

(* object.c: nothing unsets an attribute, the setter returns void          *)
obj_free  == [TABLE |-> "flagged", NAME |-> "flagged",
              USERDATA |-> "flagged"]
obj_set   == [TABLE |-> How("always", "flag"), NAME |-> How("always", "flag"),
              USERDATA |-> How("flagged", "ignore")]
obj_get   == {}
obj_build == {"TABLE", "NAME", "USERDATA"}
obj_parse == <<Entry("TABLE", "never", "flag"), Entry("NAME", "never", "flag"),
               Entry("USERDATA", "flagged", "ignore")>>

-----------------------------------------------------------------------------
(* The expressions of src/expr that own memory.  None can unset.  The old  *)
(* prefix of a log goes by a bit of the log flags; the chain of a verdict  *)
(* by the verdict; match and target take the block of the caller.          *)
log_free  == [PREFIX |-> "always"]
log_set   == [PREFIX |-> How("mode", "error")]
log_get   == {"PREFIX"}
log_build == {"PREFIX"}
log_parse == <<Entry("PREFIX", "always", "error")>>

lookup_free  == [SET |-> "always"]
lookup_set   == [SET |-> Lose]
lookup_get   == {"SET"}
lookup_build == {"SET"}
lookup_parse == <<Entry("SET", "never", "error")>>

objref_free  == [IMM_NAME |-> "always", SET_NAME |-> "always"]
objref_set   == [IMM_NAME |-> Lose, SET_NAME |-> Lose]
objref_get   == {"IMM_NAME", "SET_NAME"}
objref_build == {"IMM_NAME", "SET_NAME"}
objref_parse == <<Entry("IMM_NAME", "never", "flag"),
                  Entry("SET_NAME", "never", "flag")>>

dynset_free  == [SET_NAME |-> "always"]
dynset_set   == [SET_NAME |-> Lose, EXPR |-> How("always", "never")]
dynset_get   == {"SET_NAME"}
dynset_build == {"SET_NAME", "EXPR"}
dynset_parse == <<Entry("SET_NAME", "never", "error"), Listed("free")>>

match_free  == [INFO |-> "always"]
match_set   == [INFO |-> How("flagged", "never")]
match_build == {"INFO"}
match_parse == <<Renewed("INFO")>>

target_free  == [INFO |-> "always"]
target_set   == [INFO |-> How("flagged", "never")]
target_build == {"INFO"}
target_parse == <<Renewed("INFO")>>

immediate_free  == [CHAIN |-> "mode"]
immediate_set   == [CHAIN |-> Renew]
immediate_get   == {"CHAIN"}
immediate_build == {"CHAIN"}
immediate_parse == <<Entry("CHAIN", "never", "error")>>

flow_free  == [TABLE_NAME |-> "always"]
flow_set   == [TABLE_NAME |-> Lose]
flow_get   == {"TABLE_NAME"}
flow_build == {"TABLE_NAME"}
flow_parse == <<Entry("TABLE_NAME", "never", "error")>>

-----------------------------------------------------------------------------
NoUnset == [a \in {} |-> "keep"]

Ops(free, unset, set, get, build, parse) ==
  [free |-> free, unset |-> unset, set |-> set, get |-> get,
   build |-> build, parse |-> parse]

\* The functions of each kind, as struct expr_ops gathers those of an
\* expression.
ops ==
  [table     |-> Ops(table_free, table_unset, table_set, table_get,
                     table_build, table_parse),
   chain     |-> Ops(chain_free, chain_unset, chain_set, chain_get,
                     chain_build, chain_parse),
   rule      |-> Ops(rule_free, rule_unset, rule_set, rule_get,
                     rule_build, rule_parse),
   set       |-> Ops(set_free, set_unset, set_set, set_get,
                     set_build, set_parse),
   elem      |-> Ops(elem_free, elem_unset, elem_set, elem_get,
                     elem_build, elem_parse),
   flowtable |-> Ops(flowtable_free, flowtable_unset, flowtable_set,
                     flowtable_get, flowtable_build, flowtable_parse),
   obj       |-> Ops(obj_free, NoUnset, obj_set, obj_get,
                     obj_build, obj_parse),
   log       |-> Ops(log_free, NoUnset, log_set, log_get,
                     log_build, log_parse),
   lookup    |-> Ops(lookup_free, NoUnset, lookup_set, lookup_get,
                     lookup_build, lookup_parse),
   objref    |-> Ops(objref_free, NoUnset, objref_set, objref_get,
                     objref_build, objref_parse),
   dynset    |-> Ops(dynset_free, NoUnset, dynset_set, dynset_get,
                     dynset_build, dynset_parse),
   match     |-> Ops(match_free, NoUnset, match_set, {},
                     match_build, match_parse),
   target    |-> Ops(target_free, NoUnset, target_set, {},
                     target_build, target_parse),
   immediate |-> Ops(immediate_free, NoUnset, immediate_set, immediate_get,
                     immediate_build, immediate_parse),
   flow      |-> Ops(flow_free, NoUnset, flow_set, flow_get,
                     flow_build, flow_parse)]

Kinds == DOMAIN ops
\* What an object is to its parser: an expression or a set element is always
\* parsed into a new one, which goes away if the parser fails.
Expressions == {"log", "lookup", "objref", "dynset", "match", "target",
                "immediate", "flow"}
Fresh == Expressions \cup {"elem"}
=============================================================================

-------------------------------- MODULE Trace --------------------------------
(***************************************************************************)
(* A trace event of the kernel: nftnl_trace is only ever filled by parsing *)
(* a message.  Names and headers are copied into blocks of their own, and  *)
(* the verdict is a nest whose table of attributes is not initialised.  A  *)
(* program may parse one message after another into the same trace.        *)
(*                                                                         *)
(* A value is the number of the message it came with; a block is the       *)
(* attribute it belongs to and that number, and block 0 is NULL.           *)
(***************************************************************************)
EXTENDS Naturals, SequencesExt

CONSTANTS Attrs,      \* attributes to look at, besides ID and TYPE
          MaxReads    \* messages read into one trace

Names   == {"TABLE", "CHAIN", "JUMP_TARGET"}
Headers == {"LL_HEADER", "NETWORK_HEADER", "TRANSPORT_HEADER"}
Owned   == Names \cup Headers
Numbers == {"IIFTYPE", "IIF", "OIFTYPE", "OIF", "MARK", "RULE_HANDLE", "NFPROTO",
            "POLICY"}
Heads   == {"FAMILY", "TYPE", "ID"}
TraceAssumption ==
  /\ Attrs \subseteq {"TABLE", "CHAIN", "VERDICT"} \cup Headers \cup Numbers
  /\ MaxReads \in Nat \ {0}

VARIABLES
  t,        \* the trace
  heap,     \* blocks that are allocated
  reads,    \* messages read into it
  said,     \* the last message, and the blocks that could not be had for it; those
            \* that could not be had for any, and the last message for each
  result,   \* what the parser told
  fault     \* NULL was taken for a name

vars == <<t, heap, reads, said, result, fault>>

New  == [flags |-> {}, val |-> [a \in Numbers \cup Heads |-> 0], verdict |-> "none",
         ptr |-> [a \in Owned |-> 0]]
None == [attrs |-> {}, verdict |-> "none", fails |-> {},
         failed |-> {}, last |-> [a \in Owned |-> 0]]

Init ==
  /\ t = New /\ heap = {} /\ reads = 0 /\ said = None
  /\ result = "none" /\ fault = FALSE

-----------------------------------------------------------------------------
(* Parsing.  r: the trace, the heap, and how it goes; m: the message, of    *)
(* number m.n.                                                              *)

Mark(r, a) == [r EXCEPT !.t.flags = @ \cup {a}]
Block(r, a, m) == IF a \in m.fails THEN [r EXCEPT !.t.ptr[a] = 0]
                  ELSE [r EXCEPT !.t.ptr[a] = m.n, !.heap = @ \cup {<<a, m.n>>}]

Number(r, a, m) == Mark([r EXCEPT !.t.val[a] = m.n], a)
\* strdup is looked at.
Name(r, a, m) == IF a \in m.fails THEN [Block(r, a, m) EXCEPT !.result = "fail"]
                 ELSE Mark(Block(r, a, m), a)
\* nftnl_trace_nlmsg_parse_hdrdata: without memory it is as if there were none.
Header(r, a, m) == IF a \in m.fails THEN Block(r, a, m) ELSE Mark(Block(r, a, m), a)

\* Mutant: the target is copied first, and the verdict only marked with it.
Verdict_late(r, m) ==
  LET kept == [r EXCEPT !.t.verdict = m.verdict]
  IN  IF m.verdict # "JUMP" THEN Mark(kept, "VERDICT")
      ELSE LET named == Name(kept, "JUMP_TARGET", m)
           IN  IF named.result = "ok" THEN Mark(named, "VERDICT") ELSE named
\* nftnl_trace_parse_verdict, of a verdict with a code, and a jump with a chain.
Verdict(r, m) ==
  LET marked == Mark([r EXCEPT !.t.verdict = m.verdict], "VERDICT")
  IN  IF m.verdict = "JUMP" THEN Name(marked, "JUMP_TARGET", m) ELSE marked

\* In the order of nftnl_trace_nlmsg_parse.
Order == <<"FAMILY", "TYPE", "ID", "TABLE", "CHAIN", "IIFTYPE", "IIF", "OIFTYPE",
  "OIF", "MARK", "RULE_HANDLE", "VERDICT", "LL_HEADER", "NETWORK_HEADER",
  "TRANSPORT_HEADER", "NFPROTO", "POLICY">>
Store(r, a, m) ==
  IF r.result # "ok" \/ a \notin m.attrs \cup Heads THEN r
  ELSE CASE a \in Names   -> Name(r, a, m)
         [] a \in Headers -> Header(r, a, m)
         [] a = "VERDICT" -> Verdict(r, m)
         [] OTHER         -> Number(r, a, m)

Parse(m) ==
  LET after[i \in 0..Len(Order)] ==
        IF i = 0 THEN [t |-> t, heap |-> heap, result |-> "ok"]
        ELSE Store(after[i - 1], Order[i], m)
  IN  after[Len(Order)]

Running == ~fault /\ result \in {"none", "ok", "fail"} /\ reads < MaxReads

Gives(attrs, verdict) ==
  /\ attrs \subseteq Attrs
  /\ "VERDICT" \in attrs <=> verdict # "none"
Blocks(attrs, verdict) ==
  (attrs \cap Owned) \cup (IF verdict = "JUMP" THEN {"JUMP_TARGET"} ELSE {})

parse(attrs, verdict, fails) ==
  /\ Running
  /\ Gives(attrs, verdict) /\ fails \subseteq Blocks(attrs, verdict)
  /\ LET m == [attrs |-> attrs, verdict |-> verdict, fails |-> fails, n |-> reads + 1]
         r == Parse(m)
     IN  t' = r.t /\ heap' = r.heap /\ result' = r.result
  /\ said' = [attrs |-> attrs, verdict |-> verdict, fails |-> fails,
              failed |-> said.failed \cup fails,
              last |-> [a \in Owned |-> IF a \in Blocks(attrs, verdict) THEN reads + 1
                                        ELSE said.last[a]]]
  /\ reads' = reads + 1
  /\ UNCHANGED fault

\* No ID, no TYPE, an empty header or an attribute of another length: the
\* process ends before anything is stored.  A verdict without its code, or a
\* jump without its chain: it ends, or goes on with what the stack holds.
parse_bad(how) ==
  /\ Running
  /\ result' \in (IF how = "verdict" THEN {"exit", "wild"} ELSE {"exit"})
  /\ UNCHANGED <<t, heap, reads, said, fault>>

\* nftnl_trace_get_data of a name.
get(a) ==
  /\ ~fault /\ result \in {"ok", "fail"}
  /\ a \in Names \cap t.flags
  /\ fault' = (t.ptr[a] = 0)
  /\ UNCHANGED <<t, heap, reads, said, result>>

\* Whatever the flags say; what is not reached is lost.
free ==
  /\ ~fault /\ result \in {"none", "ok", "fail"}
  /\ heap' = heap \ {<<a, t.ptr[a]>> : a \in Owned}
  /\ t' = New /\ result' = "freed"
  /\ UNCHANGED <<reads, said, fault>>

\* Another trace: in this process, or in the next one.
renew ==
  /\ fault \/ result \in {"freed", "exit", "wild"}
  /\ t' = New /\ heap' = {} /\ reads' = 0 /\ said' = None
  /\ result' = "none" /\ fault' = FALSE

Next ==
  \/ \E attrs \in SUBSET Attrs, verdict \in {"none", "ACCEPT", "JUMP"} :
       \E fails \in SUBSET Blocks(attrs, verdict) : parse(attrs, verdict, fails)
  \/ \E how \in {"head", "verdict"} : parse_bad(how)
  \/ \E a \in Names : get(a)
  \/ free
  \/ renew

Spec == Init /\ [][Next]_vars

-----------------------------------------------------------------------------
(* Properties *)

\* The shape of the state.  A block that the trace points to is allocated.
TypeOK ==
  /\ t.flags \subseteq Numbers \cup Heads \cup Owned \cup {"VERDICT"}
  /\ \A a \in Numbers \cup Heads : t.val[a] \in 0..MaxReads
  /\ \A a \in Owned : t.ptr[a] # 0 => <<a, t.ptr[a]>> \in heap
  /\ result \in {"none", "ok", "fail", "freed", "exit", "wild"}

Whole == (said.attrs \cup Heads) \cup
         (IF said.verdict = "JUMP" THEN {"JUMP_TARGET"} ELSE {})
Before(a) == {Order[i] : i \in {j \in DOMAIN Order : \A k \in 1..j : Order[k] # a}}
FirstName == IF "TABLE" \in said.fails THEN "TABLE"
             ELSE IF "CHAIN" \in said.fails THEN "CHAIN" ELSE "VERDICT"

\* A new trace has what the message has, but for headers there was no memory
\* for; if there was none for a name, what comes before it.  Of a jump that
\* includes the verdict, without its target.
Exact ==
  reads = 1 =>
    CASE result = "ok"   -> t.flags = Whole \ (said.fails \cap Headers)
      [] result = "fail" -> t.flags = (Whole \cap Before(FirstName))
                              \cup ({"VERDICT"} \cap {FirstName})
      [] OTHER           -> TRUE

\* In a trace that is read into again, the target of a jump stays from the
\* earlier message if the verdict is none now: only for a new trace does the
\* target belong to the verdict.
TargetIsOfVerdict ==
  "JUMP_TARGET" \in t.flags /\ t.verdict # "JUMP" => reads > 1

\* NULL is taken for a name only where there was no memory for one that the
\* trace already had.
NoFault == fault => reads > 1 /\ said.failed \cap Names # {}

\* What is marked is there: a name or header for which there is no memory is not
\* marked, unless an earlier message marked it.
MarkedIsThere ==
  \A a \in Owned \cap t.flags : t.ptr[a] = 0 => reads > 1 /\ a \in said.failed

\* What is lost is what a message brought and a later one brings again.
LeaksOnly ==
  \A b \in heap : t.ptr[b[1]] = b[2] \/ b[2] < said.last[b[1]]
=============================================================================

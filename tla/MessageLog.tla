------------------------------- MODULE MessageLog -------------------------------
(***************************************************************************)
(* What a batch promises its caller, without a page: each message written  *)
(* and accepted is appended to a log once and in order, an update that     *)
(* fails leaves the message pending so that it can be tried again, and     *)
(* what is handed to the socket is the whole log.  The fine print: an      *)
(* accepted message that no page can hold is not in the log.               *)
(***************************************************************************)

EXTENDS Integers, Sequences

CONSTANTS Msgs, NULL,
          Holdable   \* the messages a page can hold

VARIABLES pending, log, shown, ret

vars == << pending, log, shown, ret >>

Init == pending = NULL /\ log = <<>> /\ shown = <<>> /\ ret = 0

Write(m) ==
    /\ pending' = m
    /\ UNCHANGED << log, shown, ret >>

Accept ==
    /\ pending # NULL
    /\ log' = IF pending \in Holdable THEN Append(log, pending) ELSE log
    /\ pending' = NULL /\ ret' = 0
    /\ UNCHANGED shown

Refuse ==
    /\ pending # NULL
    /\ ret' = -1
    /\ UNCHANGED << pending, log, shown >>

Show ==
    /\ shown' = log
    /\ UNCHANGED << pending, log, ret >>

Free == pending' = NULL /\ log' = <<>> /\ shown' = <<>> /\ ret' = 0

Next == (\E m \in Msgs : Write(m)) \/ Accept \/ Refuse \/ Show \/ Free

Spec == Init /\ [][Next]_vars
=================================================================================

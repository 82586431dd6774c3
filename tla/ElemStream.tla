------------------------------ MODULE ElemStream ------------------------------
(***************************************************************************)
(* What dumping a set to the kernel promises: the elements go out in the   *)
(* order of the set, in chunks of at least one, none twice and none left   *)
(* behind, and the dump ends, unless it comes to an element that every     *)
(* message refuses: there it stays.  Elements may be appended while it     *)
(* runs; a dump that began on an empty set does not see them.              *)
(***************************************************************************)

EXTENDS Naturals, SequencesExt

CONSTANTS
    Elems,
    Unsendable  \* those that every message refuses

VARIABLES
    elems,  \* the elements of the set, in order
    out,    \* those sent so far
    phase   \* "none", "dumping", "blind" (begun on an empty set), "done"

vars == << elems, out, phase >>

Init == elems = <<>> /\ out = <<>> /\ phase = "none"

Grow(e) ==
    /\ e \notin ToSet(elems)
    /\ elems' = Append(elems, e)
    /\ UNCHANGED << out, phase >>

Start ==
    /\ phase = "none"
    /\ phase' = IF elems = <<>> THEN "blind" ELSE "dumping"
    /\ UNCHANGED << elems, out >>

\* A message with the next elements, the last message perhaps.
Send ==
    /\ phase = "dumping"
    /\ \E n \in Len(out) + 1 .. Len(elems) :
          /\ \A i \in Len(out) + 1 .. n : elems[i] \notin Unsendable
          /\ out' = SubSeq(elems, 1, n)
    /\ phase' \in {"dumping"} \cup {p \in {"done"} : out' = elems}
    /\ UNCHANGED elems

\* A message without elements.
SendNone ==
    /\ phase = "blind" /\ phase' = "done"
    /\ UNCHANGED << elems, out >>

Stop ==
    /\ phase = "done" /\ phase' = "none" /\ out' = <<>>
    /\ UNCHANGED elems

Next ==
    \/ \E e \in Elems : Grow(e)
    \/ Start \/ Send \/ SendNone \/ Stop

Spec == Init /\ [][Next]_vars /\ WF_vars(Send \/ SendNone)
===============================================================================

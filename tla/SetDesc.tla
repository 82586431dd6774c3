------------------------------- MODULE SetDesc -------------------------------
(***************************************************************************)
(* The description of a concatenation: the lengths of the fields of the key*)
(* of a set, and their number.  The number is counted by whoever writes the*)
(* lengths: setting the attribute looks for the first length that is zero, *)
(* from the old number on; reading a message adds one length after another.*)
(*                                                                         *)
(* desc.field_len, desc.field_count behind it and the padding of the struct*)
(* are one array of bytes here: both writers run past the first.  What is  *)
(* behind the padding is not part of desc: touching it is a fault.         *)
(***************************************************************************)
EXTENDS Integers, SequencesExt

CONSTANTS N,          \* NFT_REG32_COUNT
          Lengths,    \* lengths that fields have
          MaxTimes,   \* how often a description is set, to bound the search
          MaxReads    \* how often a set is read into
DescAssumption ==
  /\ N \in Nat \ {0} /\ Lengths \subseteq Nat \ {0}
  /\ MaxTimes \in Nat /\ MaxReads \in Nat

VARIABLES
  mine,     \* the set of the program: its bytes, and its bits of flags
  theirs,   \* the set a reader parses into
  told,     \* what the program set last, and the reader read last
  times     \* how often each set was written

vars == <<mine, theirs, told, times>>

Padding == 3
Count   == N                              \* the byte with field_count
Bytes   == 0..(N + Padding)
Fresh   == [bytes |-> [i \in Bytes |-> 0], flags |-> {}, fault |-> FALSE]
Fault(s) == [s EXCEPT !.fault = TRUE]

Init ==
  /\ mine = Fresh /\ theirs = Fresh
  /\ told = [mine |-> <<>>, theirs |-> <<>>] /\ times = [mine |-> 0, theirs |-> 0]

-----------------------------------------------------------------------------
(* Writing *)

\* Mutant: counted from the front, as if there were always a zero in the array.
CountOn_front(bytes) ==
  LET zeros == {i \in 0..(N - 1) : bytes[i] = 0}
      count == IF zeros = {} THEN 0
               ELSE CHOOSE i \in zeros : \A j \in zeros : i <= j
  IN  [bytes |-> [bytes EXCEPT ![Count] = count], fault |-> FALSE]

\* while (field_len[++field_count]);
\* The number, which is itself behind the array, counts as a length.
CountOn(bytes) ==
  LET after == {i \in bytes[Count] + 1 .. N + Padding :
                  i # Count /\ bytes[i] = 0}
      count == CHOOSE i \in after : \A j \in after : i <= j
  IN  IF after = {} THEN [bytes |-> bytes, fault |-> TRUE]
      ELSE [bytes |-> [bytes EXCEPT ![Count] = count], fault |-> FALSE]

SetConcat(s, data) ==
  LET copied  == [i \in Bytes |-> IF i < Len(data) THEN data[i + 1]
                                  ELSE s.bytes[i]]
      counted == CountOn(copied)
  IN  [bytes |-> counted.bytes, flags |-> s.flags \cup {"CONCAT"},
       fault |-> s.fault \/ counted.fault]

\* nftnl_set_set_data: data_len tells how many lengths there are.
set_concat(data) ==
  /\ ~mine.fault /\ times.mine < MaxTimes
  /\ mine' = SetConcat(mine, data)
  /\ told' = [told EXCEPT !.mine = data]
  /\ times' = [times EXCEPT !.mine = @ + 1]
  /\ UNCHANGED theirs

set_size ==
  /\ ~mine.fault
  /\ mine' = [mine EXCEPT !.flags = @ \cup {"SIZE"}]
  /\ UNCHANGED <<theirs, told, times>>

\* The bytes stay.
unset(attr) ==
  /\ ~mine.fault
  /\ mine' = [mine EXCEPT !.flags = @ \ {attr}]
  /\ UNCHANGED <<theirs, told, times>>

\* nftnl_set_free and nftnl_set_alloc.
renew ==
  /\ mine' = Fresh /\ told' = [told EXCEPT !.mine = <<>>]
  /\ times' = [times EXCEPT !.mine = 0]
  /\ UNCHANGED theirs

-----------------------------------------------------------------------------
(* Sending *)

\* At most as many as there can be.
Fields(s) == [i \in 1..(IF s.bytes[Count] < N THEN s.bytes[Count] ELSE N)
                |-> s.bytes[i - 1]]

\* The nest NFTA_SET_DESC, or none.
HasDesc(s)   == s.flags # {}
HasConcat(s) == "CONCAT" \in s.flags

-----------------------------------------------------------------------------
(* Reading *)

\* One length: written at the place the number tells, and counted.
AddField(s, len) ==
  LET at    == s.bytes[Count]
      wrote == [s.bytes EXCEPT ![at] = len]
  IN  IF s.fault \/ at \notin Bytes THEN Fault(s)
      ELSE [s EXCEPT !.bytes = [wrote EXCEPT ![Count] = @ + 1]]

AddFields(s, lens) ==
  LET after[i \in 0..Len(lens)] ==
        IF i = 0 THEN s ELSE AddField(after[i - 1], lens[i])
  IN  after[Len(lens)]

\* A message is built from mine and read at once: mine may be written between
\* two messages, and theirs may have been read into before.
parse ==
  /\ ~mine.fault /\ HasDesc(mine)
  /\ ~theirs.fault /\ times.theirs < MaxReads
  /\ LET given == [theirs EXCEPT !.flags = @ \cup mine.flags]
     IN  IF HasConcat(mine)
         THEN /\ theirs' = AddFields(given, Fields(mine))
              /\ told' = [told EXCEPT !.theirs = Fields(mine)]
              /\ times' = [times EXCEPT !.theirs = @ + 1]
         ELSE theirs' = given /\ UNCHANGED <<told, times>>
  /\ UNCHANGED mine

renew_reader ==
  /\ theirs' = Fresh /\ told' = [told EXCEPT !.theirs = <<>>]
  /\ times' = [times EXCEPT !.theirs = 0]
  /\ UNCHANGED mine

Data == UNION {[1..n -> Lengths] : n \in 1..N}

Next ==
  \/ \E data \in Data : set_concat(data)
  \/ set_size
  \/ \E attr \in {"SIZE", "CONCAT"} : unset(attr)
  \/ renew
  \/ parse
  \/ renew_reader

Spec == Init /\ [][Next]_vars

-----------------------------------------------------------------------------
(* Properties *)

\* The shape of the state.
TypeOK ==
  /\ \A s \in {mine, theirs} :
       /\ DOMAIN s.bytes = Bytes /\ \A i \in Bytes : s.bytes[i] \in Nat
       /\ s.flags \subseteq {"SIZE", "CONCAT"}
  /\ ~mine.fault => Len(Fields(mine)) <= N /\ 0 \notin DOMAIN Fields(mine)

\* A description that is set once for a set, and read into a new set, arrives:
\* all of its fields and no others, up to the largest number of fields, though
\* the count of those is one too many.
OnceExact ==
  /\ times.mine = 1 => Fields(mine) = told.mine
  /\ times.theirs = 1 => Fields(theirs) = told.theirs

\* One that is set again, for the same set, is sent with fields that nobody
\* set behind it; what was set last still comes first.
AgainStarts == "CONCAT" \in mine.flags /\ ~mine.fault =>
                 IsPrefix(told.mine, Fields(mine))

\* Nothing behind desc is touched, unless a description is set once more for
\* each byte of the padding, or a set is read into twice.
NoFault ==
  /\ mine.fault => times.mine > Padding
  /\ theirs.fault => times.theirs > 1
=============================================================================

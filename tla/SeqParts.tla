-------------------------------- MODULE SeqParts --------------------------------
(***************************************************************************)
(* Two operators on sequences, as recursive functions.                     *)
(***************************************************************************)

EXTENDS Integers, Sequences

\* The entries of the sequence s that are in the set T, in the order of s.
Only(s, T) ==
    LET upto[i \in 0 .. Len(s)] ==
          IF i = 0 THEN <<>>
          ELSE IF s[i] \in T THEN Append(upto[i - 1], s[i]) ELSE upto[i - 1]
    IN  upto[Len(s)]

\* The sequences of ss one after the other.
Flat(ss) ==
    LET upto[i \in 0 .. Len(ss)] ==
          IF i = 0 THEN <<>> ELSE upto[i - 1] \o ss[i]
    IN  upto[Len(ss)]
=================================================================================

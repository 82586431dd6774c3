------------------------------ MODULE ListLemmas ------------------------------
(***************************************************************************)
(* Facts about numbers, sequences and linked lists that the proofs of      *)
(* several components need.                                                *)
(*                                                                         *)
(* Sequences: induction; inserting an entry and removing one; the part of  *)
(* a sequence that is in a set (Only); sequences that hold each element of *)
(* a set once (Enumerates); sequences of sequences joined (Flat).          *)
(*                                                                         *)
(* Lists: what the operations of LinuxList do to well-formed rings and hash*)
(* chains, for every set of nodes.  First the links alone (Ring), then     *)
(* which sequence of entries hangs together from a head (IsList) or from   *)
(* the first pointer of a bucket (Chained), and what an insertion and a    *)
(* deletion make of the sequence.                                          *)
(*                                                                         *)
(* The theorems of the library take what is to be proved by induction as   *)
(* an operator; here it is a set, the numbers or the sequences that have   *)
(* the property, so that they can be cited by name.  A recursive function  *)
(* is unfolded by a predicate that says what its steps are (OnlySteps,     *)
(* FlatSteps, FollowSteps): there is one such function, so it is the one   *)
(* that the definition chooses.                                            *)
(***************************************************************************)

EXTENDS LinuxList, SequencesExt, WellFoundedInduction, FiniteSetTheorems, SequenceTheorems, TLAPS

\* A set of numbers has a least one.
LEMMA LeastOf ==
    ASSUME NEW U \in SUBSET Nat, U # {}
    PROVE  \E x \in U : \A y \in U : x <= y
  <1> DEFINE R == OpToRel(<, Nat)
  <1>1. PICK x \in U : \A y \in U : ~ (<<y, x>> \in R)
    <2>1. IsWellFoundedOn(R, Nat)
      BY NatLessThanWellFounded
    <2> HIDE DEF R
    <2> QED BY <2>1, WFMin
  <1>2. \A y \in U : ~ (y < x)
    BY <1>1 DEF OpToRel
  <1> HIDE DEF R
  <1> QED BY <1>2

\* A set that holds 0 and the successor of each number in it holds them all.
LEMMA SetInduction ==
    ASSUME NEW T, 0 \in T, \A n \in Nat : n \in T => n + 1 \in T
    PROVE  Nat \subseteq T
  <1> DEFINE U == Nat \ T
  <1> SUFFICES ASSUME U # {} PROVE FALSE
    OBVIOUS
  <1>1. PICK x \in U : \A y \in U : x <= y
    BY LeastOf
  <1>2. x \in Nat /\ x # 0 /\ x - 1 \in Nat
    OBVIOUS
  <1>3. x - 1 \in T
    BY <1>1, <1>2
  <1> QED BY <1>2, <1>3

\* The sequence without its last element, and that element.
LEMMA LastOff ==
    ASSUME NEW S, NEW s \in Seq(S), NEW n \in Nat, Len(s) = n + 1
    PROVE  \E t \in Seq(S), e \in S : s = Append(t, e) /\ Len(t) = n
  <1>1. s # <<>>
    OBVIOUS
  <1>2. PICK t \in Seq(S), e \in S : s = Append(t, e)
    BY <1>1, SequenceEmptyOrAppend
  <1>3. Len(s) = Len(t) + 1 /\ Len(t) \in Nat
    BY <1>2
  <1> QED BY <1>2, <1>3

\* A set that holds <<>> and, with a sequence, each that is one element
\* longer, holds every sequence.
LEMMA SeqInduction ==
    ASSUME NEW S, NEW Q,
           <<>> \in Q,
           \A s \in Seq(S), e \in S : s \in Q => Append(s, e) \in Q
    PROVE  Seq(S) \subseteq Q
  <1> DEFINE T == {n \in Nat : \A s \in Seq(S) : Len(s) = n => s \in Q}
  <1>1. 0 \in T
    BY EmptySeq
  <1>2. ASSUME NEW n \in Nat, n \in T PROVE n + 1 \in T
    <2> SUFFICES ASSUME NEW s \in Seq(S), Len(s) = n + 1 PROVE s \in Q
      OBVIOUS
    <2>1. PICK t \in Seq(S), e \in S : s = Append(t, e) /\ Len(t) = n
      BY LastOff
    <2>2. t \in Q
      BY <1>2, <2>1
    <2> QED BY <2>1, <2>2
  <1> HIDE DEF T
  <1>3. Nat \subseteq T
    BY <1>1, <1>2, SetInduction
  <1> QED BY <1>3 DEF T

\* Append moves through a concatenation.
LEMMA AppendConcat ==
    ASSUME NEW S, NEW s \in Seq(S), NEW t \in Seq(S), NEW e \in S
    PROVE  s \o Append(t, e) = Append(s \o t, e)
  <1>1. /\ Append(t, e) = t \o << e >> /\ Append(s \o t, e) = (s \o t) \o << e >>
        /\ << e >> \in Seq(S)
    BY AppendIsConcat, ConcatProperties
  <1> QED BY <1>1, ConcatAssociative

\* The first entry of one sequence becomes the last of the one before it.
LEMMA MoveOver ==
    ASSUME NEW S, NEW s \in Seq(S), NEW e \in S, NEW t \in Seq(S)
    PROVE  Append(s, e) \o t = s \o (<< e >> \o t)
  <1>1. Append(s, e) = s \o << e >> /\ << e >> \in Seq(S)
    BY AppendIsConcat
  <1> QED BY <1>1, ConcatAssociative

\* An entry of a sequence over S is in S.
LEMMA EntryOf ==
    ASSUME NEW S, NEW s \in Seq(S), NEW i \in DOMAIN s
    PROVE  s[i] \in S
  OBVIOUS

\* Concatenation, part by part.
LEMMA Joined ==
    ASSUME NEW S, NEW a \in Seq(S), NEW b \in Seq(S)
    PROVE  /\ a \o b \in Seq(S)
           /\ Len(a \o b) = Len(a) + Len(b)
           /\ \A j \in 1 .. Len(a) : (a \o b)[j] = a[j]
           /\ \A j \in Len(a) + 1 .. Len(a) + Len(b) : (a \o b)[j] = b[j - Len(a)]
  BY ConcatProperties

\* Part of a sequence.
LEMMA Part ==
    ASSUME NEW S, NEW s \in Seq(S),
           NEW m \in 1 .. Len(s) + 1, NEW n \in m - 1 .. Len(s)
    PROVE  /\ SubSeq(s, m, n) \in Seq(S)
           /\ Len(SubSeq(s, m, n)) = n - m + 1
           /\ \A j \in 1 .. n - m + 1 : SubSeq(s, m, n)[j] = s[m + j - 1]
  <1>1. m \in Int /\ n \in Int /\ \A j \in m .. n : s[j] \in S
    OBVIOUS
  <1>2. /\ SubSeq(s, m, n) \in Seq(S)
        /\ Len(SubSeq(s, m, n)) = IF m <= n THEN n - m + 1 ELSE 0
        /\ \A j \in 1 .. n - m + 1 : SubSeq(s, m, n)[j] = s[m + j - 1]
    BY <1>1, SubSeqProperties
  <1> QED BY <1>2

\* A sequence is the part before a position and the rest.
LEMMA SplitAt ==
    ASSUME NEW S, NEW s \in Seq(S), NEW i \in 1 .. Len(s) + 1
    PROVE  s = SubSeq(s, 1, i - 1) \o SubSeq(s, i, Len(s))
  <1> DEFINE a == SubSeq(s, 1, i - 1)
             b == SubSeq(s, i, Len(s))
             ab == a \o b
  <1>1. Len(s) \in Nat /\ i \in Int /\ 1 <= i /\ i <= Len(s) + 1
    OBVIOUS
  <1>2. a \in Seq(S) /\ Len(a) = i - 1 /\ \A j \in 1 .. i - 1 : a[j] = s[j]
    <2>1. 1 \in 1 .. Len(s) + 1 /\ i - 1 \in 0 .. Len(s)
      BY <1>1
    <2> QED BY <1>1, <2>1, Part
  <1>3. /\ b \in Seq(S) /\ Len(b) = Len(s) - i + 1
        /\ \A j \in 1 .. Len(s) - i + 1 : b[j] = s[i + j - 1]
    <2>1. Len(s) \in i - 1 .. Len(s)
      BY <1>1
    <2> QED BY <2>1, Part
  <1> HIDE DEF a, b
  <1>4. /\ ab \in Seq(S) /\ Len(ab) = Len(a) + Len(b)
        /\ \A j \in 1 .. Len(a) : ab[j] = a[j]
        /\ \A j \in Len(a) + 1 .. Len(a) + Len(b) : ab[j] = b[j - Len(a)]
    BY <1>2, <1>3, Joined
  <1> HIDE DEF ab
  <1>5. ASSUME NEW j \in 1 .. Len(s) PROVE ab[j] = s[j]
    <2>1. CASE j <= i - 1
      BY <1>1, <1>2, <1>4, <2>1
    <2>2. CASE j > i - 1
      <3>1. /\ j \in Len(a) + 1 .. Len(a) + Len(b)
            /\ j - (i - 1) \in 1 .. Len(s) - i + 1
            /\ i + (j - (i - 1)) - 1 = j
        BY <1>1, <1>2, <1>3, <2>2
      <3> QED BY <1>2, <1>3, <1>4, <3>1
    <2> QED BY <1>1, <2>1, <2>2
  <1>6. Len(ab) = Len(s)
    BY <1>1, <1>2, <1>3, <1>4
  <1>7. ab = s
    BY <1>4, <1>5, <1>6, SeqEqual
  <1> QED BY <1>7 DEF ab, a, b

\* t is the sequence s with e at the position i.
Inserted(t, s, i, e) ==
    /\ Len(t) = Len(s) + 1
    /\ \A j \in 1 .. i - 1 : t[j] = s[j]
    /\ t[i] = e
    /\ \A j \in i + 1 .. Len(s) + 1 : t[j] = s[j - 1]

\* What InsertAt returns.
LEMMA InsertAtProperties ==
    ASSUME NEW S, NEW s \in Seq(S), NEW e \in S, NEW i \in 1 .. Len(s) + 1
    PROVE  /\ InsertAt(s, i, e) \in Seq(S)
           /\ Inserted(InsertAt(s, i, e), s, i, e)
  <1> DEFINE a == SubSeq(s, 1, i - 1)
             b == SubSeq(s, i, Len(s))
             one == << e >>
             ae == a \o one
  <1>1. Len(s) \in Nat /\ i \in Int /\ 1 <= i /\ i <= Len(s) + 1
    OBVIOUS
  <1>2. a \in Seq(S) /\ Len(a) = i - 1 /\ \A j \in 1 .. i - 1 : a[j] = s[j]
    <2>1. 1 \in 1 .. Len(s) + 1 /\ i - 1 \in 0 .. Len(s)
      BY <1>1
    <2> QED BY <1>1, <2>1, Part
  <1>3. /\ b \in Seq(S) /\ Len(b) = Len(s) - i + 1
        /\ \A j \in 1 .. Len(s) - i + 1 : b[j] = s[i + j - 1]
    <2>1. Len(s) \in i - 1 .. Len(s)
      BY <1>1
    <2> QED BY <2>1, Part
  <1>4. InsertAt(s, i, e) = ae \o b
    BY DEF InsertAt
  <1>5. one \in Seq(S) /\ Len(one) = 1 /\ one[1] = e
    OBVIOUS
  <1> HIDE DEF a, b, one
  <1>6. /\ ae \in Seq(S) /\ Len(ae) = i
        /\ \A j \in 1 .. i - 1 : ae[j] = s[j]
        /\ ae[i] = e
    <2>1. /\ ae \in Seq(S) /\ Len(ae) = Len(a) + Len(one)
          /\ \A j \in 1 .. Len(a) : ae[j] = a[j]
          /\ \A j \in Len(a) + 1 .. Len(a) + Len(one) : ae[j] = one[j - Len(a)]
      BY <1>2, <1>5, Joined
    <2> HIDE DEF ae
    <2>2. ae[i] = one[1]
      BY <1>1, <1>2, <1>5, <2>1
    <2>3. Len(ae) = i
      BY <1>1, <1>2, <1>5, <2>1
    <2>4. \A j \in 1 .. i - 1 : ae[j] = s[j]
      BY <1>2, <2>1
    <2> QED BY <1>5, <2>1, <2>2, <2>3, <2>4
  <1> HIDE DEF ae
  <1>7. /\ ae \o b \in Seq(S) /\ Len(ae \o b) = i + (Len(s) - i + 1)
        /\ \A j \in 1 .. i : (ae \o b)[j] = ae[j]
        /\ \A j \in i + 1 .. i + (Len(s) - i + 1) : (ae \o b)[j] = b[j - i]
    <2>1. /\ ae \o b \in Seq(S) /\ Len(ae \o b) = Len(ae) + Len(b)
          /\ \A j \in 1 .. Len(ae) : (ae \o b)[j] = ae[j]
          /\ \A j \in Len(ae) + 1 .. Len(ae) + Len(b) : (ae \o b)[j] = b[j - Len(ae)]
      BY <1>3, <1>6, Joined
    <2> QED BY <1>3, <1>6, <2>1
  <1>8. ASSUME NEW j \in i + 1 .. Len(s) + 1 PROVE (ae \o b)[j] = s[j - 1]
    <2>1. j - i \in 1 .. Len(s) - i + 1 /\ i + (j - i) - 1 = j - 1
      BY <1>1
    <2>2. b[j - i] = s[j - 1]
      BY <1>3, <2>1
    <2>3. j \in i + 1 .. i + (Len(s) - i + 1)
      BY <1>1
    <2> QED BY <1>7, <2>2, <2>3
  <1>9. (ae \o b)[i] = e /\ \A j \in 1 .. i - 1 : (ae \o b)[j] = s[j]
    BY <1>1, <1>6, <1>7
  <1>10. Len(ae \o b) = Len(s) + 1
    BY <1>1, <1>7
  <1>11. Inserted(ae \o b, s, i, e)
    BY <1>8, <1>9, <1>10 DEF Inserted
  <1> QED BY <1>4, <1>7, <1>11

\* t is the sequence s without the position i.
Removed(t, s, i) ==
    /\ Len(t) = Len(s) - 1
    /\ \A j \in 1 .. i - 1 : t[j] = s[j]
    /\ \A j \in i .. Len(s) - 1 : t[j] = s[j + 1]

\* What RemoveAt returns.
LEMMA RemoveAtProperties ==
    ASSUME NEW S, NEW s \in Seq(S), NEW i \in 1 .. Len(s)
    PROVE  /\ RemoveAt(s, i) \in Seq(S)
           /\ Removed(RemoveAt(s, i), s, i)
  <1> DEFINE a == SubSeq(s, 1, i - 1)
             b == SubSeq(s, i + 1, Len(s))
  <1>1. Len(s) \in Nat /\ i \in Int /\ 1 <= i /\ i <= Len(s)
    OBVIOUS
  <1>2. a \in Seq(S) /\ Len(a) = i - 1 /\ \A j \in 1 .. i - 1 : a[j] = s[j]
    <2>1. 1 \in 1 .. Len(s) + 1 /\ i - 1 \in 0 .. Len(s)
      BY <1>1
    <2> QED BY <1>1, <2>1, Part
  <1>3. /\ b \in Seq(S) /\ Len(b) = Len(s) - (i + 1) + 1
        /\ \A j \in 1 .. Len(s) - (i + 1) + 1 : b[j] = s[(i + 1) + j - 1]
    <2>1. i + 1 \in 1 .. Len(s) + 1 /\ Len(s) \in (i + 1) - 1 .. Len(s)
      BY <1>1
    <2> QED BY <2>1, Part
  <1>4. RemoveAt(s, i) = a \o b
    BY DEF RemoveAt
  <1> HIDE DEF a, b
  <1>5. /\ a \o b \in Seq(S) /\ Len(a \o b) = (i - 1) + (Len(s) - i)
        /\ \A j \in 1 .. i - 1 : (a \o b)[j] = a[j]
        /\ \A j \in (i - 1) + 1 .. (i - 1) + (Len(s) - i) : (a \o b)[j] = b[j - (i - 1)]
    <2>1. /\ a \o b \in Seq(S) /\ Len(a \o b) = Len(a) + Len(b)
          /\ \A j \in 1 .. Len(a) : (a \o b)[j] = a[j]
          /\ \A j \in Len(a) + 1 .. Len(a) + Len(b) : (a \o b)[j] = b[j - Len(a)]
      BY <1>2, <1>3, Joined
    <2>2. Len(b) = Len(s) - i
      BY <1>1, <1>3
    <2> QED BY <1>2, <2>1, <2>2
  <1>6. ASSUME NEW j \in i .. Len(s) - 1 PROVE (a \o b)[j] = s[j + 1]
    <2>1. /\ j - (i - 1) \in 1 .. Len(s) - (i + 1) + 1
          /\ (i + 1) + (j - (i - 1)) - 1 = j + 1
      BY <1>1
    <2>2. b[j - (i - 1)] = s[j + 1]
      BY <1>3, <2>1
    <2>3. j \in (i - 1) + 1 .. (i - 1) + (Len(s) - i)
      BY <1>1
    <2> QED BY <1>5, <2>2, <2>3
  <1>7. Len(a \o b) = Len(s) - 1 /\ \A j \in 1 .. i - 1 : (a \o b)[j] = s[j]
    BY <1>1, <1>2, <1>5
  <1>8. Removed(a \o b, s, i)
    BY <1>6, <1>7 DEF Removed
  <1> QED BY <1>4, <1>5, <1>8

\* Inserting e at the position i, as seen from the rest that began at the
\* position k.
RestInserted(t, rest, k, i, e) ==
    /\ i <= k => SubSeq(t, k + 1, Len(t)) = rest
    /\ i > k => /\ i - k + 1 \in 1 .. Len(rest) + 1
                /\ SubSeq(t, k, Len(t)) = InsertAt(rest, i - k + 1, e)

\* Inserting before or after the position k.
LEMMA InsertAtRest ==
    ASSUME NEW S, NEW s \in Seq(S), NEW e \in S, NEW i \in 1 .. Len(s) + 1,
           NEW k \in 1 .. Len(s),
           NEW t, t = InsertAt(s, i, e),
           NEW rest, rest = SubSeq(s, k, Len(s))
    PROVE  RestInserted(t, rest, k, i, e)
  <1>1. /\ Len(s) \in Nat /\ i \in Int /\ k \in Int
        /\ 1 <= k /\ k <= Len(s) /\ 1 <= i /\ i <= Len(s) + 1
    OBVIOUS
  <1>2. /\ t \in Seq(S) /\ Len(t) = Len(s) + 1
        /\ \A j \in 1 .. i - 1 : t[j] = s[j]
        /\ t[i] = e
        /\ \A j \in i + 1 .. Len(s) + 1 : t[j] = s[j - 1]
    <2>1. t \in Seq(S) /\ Inserted(t, s, i, e)
      BY InsertAtProperties
    <2> QED BY <2>1 DEF Inserted
  <1>3. /\ rest \in Seq(S) /\ Len(rest) = Len(s) - k + 1
        /\ \A j \in 1 .. Len(s) - k + 1 : rest[j] = s[k + j - 1]
    <2>1. Len(s) \in k - 1 .. Len(s) /\ k \in 1 .. Len(s) + 1
      BY <1>1
    <2> QED BY <2>1, Part
  <1>4. ASSUME i <= k PROVE SubSeq(t, k + 1, Len(t)) = rest
    <2> DEFINE u == SubSeq(t, k + 1, Len(t))
    <2>1. /\ u \in Seq(S) /\ Len(u) = Len(t) - (k + 1) + 1
          /\ \A j \in 1 .. Len(t) - (k + 1) + 1 : u[j] = t[(k + 1) + j - 1]
      <3>1. k + 1 \in 1 .. Len(t) + 1 /\ Len(t) \in (k + 1) - 1 .. Len(t)
        BY <1>1, <1>2
      <3> QED BY <1>2, <3>1, Part
    <2> HIDE DEF u
    <2>2. ASSUME NEW j \in 1 .. Len(s) - k + 1 PROVE u[j] = rest[j]
      <3>1. j \in 1 .. Len(t) - (k + 1) + 1 /\ (k + 1) + j - 1 = k + j
        BY <1>1, <1>2
      <3>2. k + j \in i + 1 .. Len(s) + 1 /\ (k + j) - 1 = k + j - 1
        BY <1>1, <1>4
      <3>3. u[j] = t[k + j] /\ t[k + j] = s[k + j - 1]
        BY <1>2, <2>1, <3>1, <3>2
      <3> QED BY <1>3, <3>3
    <2>3. Len(u) = Len(rest)
      BY <1>1, <1>2, <1>3, <2>1
    <2>4. u = rest
      BY <1>3, <2>1, <2>2, <2>3, SeqEqual
    <2> QED BY <2>4 DEF u
  <1>5. ASSUME i > k PROVE i - k + 1 \in 1 .. Len(rest) + 1
    BY <1>1, <1>3, <1>5
  <1>6. ASSUME i > k PROVE SubSeq(t, k, Len(t)) = InsertAt(rest, i - k + 1, e)
    <2> DEFINE u == SubSeq(t, k, Len(t))
               v == InsertAt(rest, i - k + 1, e)
               d == i - k + 1
    <2>1. /\ u \in Seq(S) /\ Len(u) = Len(t) - k + 1
          /\ \A j \in 1 .. Len(t) - k + 1 : u[j] = t[k + j - 1]
      <3>1. k \in 1 .. Len(t) + 1 /\ Len(t) \in k - 1 .. Len(t)
        BY <1>1, <1>2
      <3> QED BY <1>2, <3>1, Part
    <2>2. /\ v \in Seq(S) /\ Len(v) = Len(rest) + 1
          /\ \A j \in 1 .. d - 1 : v[j] = rest[j]
          /\ v[d] = e
          /\ \A j \in d + 1 .. Len(rest) + 1 : v[j] = rest[j - 1]
      <3>1. rest \in Seq(S) /\ d \in 1 .. Len(rest) + 1
        BY <1>3, <1>5, <1>6
      <3> HIDE DEF d
      <3>2. v = InsertAt(rest, d, e)
        BY DEF d
      <3> HIDE DEF v
      <3>3. v \in Seq(S) /\ Inserted(v, rest, d, e)
        BY <3>1, <3>2, InsertAtProperties
      <3> QED BY <3>3 DEF Inserted
    <2> HIDE DEF u, v
    <2>3. ASSUME NEW j \in 1 .. Len(s) - k + 2 PROVE u[j] = v[j]
      <3>1. u[j] = t[k + j - 1] /\ j \in Int /\ j >= 1 /\ j <= Len(s) - k + 2
        BY <1>1, <1>2, <2>1
      <3>2. CASE j < d
        <4>1. j \in 1 .. d - 1 /\ j \in 1 .. Len(s) - k + 1 /\ k + j - 1 \in 1 .. i - 1
          BY <1>1, <3>1, <3>2
        <4>2. v[j] = rest[j] /\ rest[j] = s[k + j - 1] /\ t[k + j - 1] = s[k + j - 1]
          BY <1>2, <1>3, <2>2, <4>1
        <4> QED BY <3>1, <4>2
      <3>3. CASE j = d
        <4>1. k + j - 1 = i
          BY <1>1, <3>3
        <4> QED BY <1>2, <2>2, <3>1, <3>3, <4>1
      <3>4. CASE j > d
        <4>1. /\ j \in d + 1 .. Len(rest) + 1 /\ j - 1 \in 1 .. Len(s) - k + 1
              /\ k + j - 1 \in i + 1 .. Len(s) + 1
              /\ k + (j - 1) - 1 = (k + j - 1) - 1
          BY <1>1, <1>3, <1>6, <3>1, <3>4
        <4>2. /\ v[j] = rest[j - 1] /\ rest[j - 1] = s[k + (j - 1) - 1]
              /\ t[k + j - 1] = s[(k + j - 1) - 1]
          BY <1>2, <1>3, <2>2, <4>1
        <4> QED BY <3>1, <4>1, <4>2
      <3>5. j < d \/ j = d \/ j > d
        BY <1>1, <3>1
      <3> QED BY <3>2, <3>3, <3>4, <3>5
    <2>4. Len(u) = Len(v) /\ Len(u) = Len(s) - k + 2
      BY <1>1, <1>2, <1>3, <2>1, <2>2
    <2>5. u = v
      BY <2>1, <2>2, <2>3, <2>4, SeqEqual
    <2> QED BY <2>5 DEF u, v
  <1> QED BY <1>4, <1>5, <1>6 DEF RestInserted

\* Removing the position i, as seen from the rest that began at the position k.
RestRemoved(t, rest, k, i) ==
    /\ i < k => SubSeq(t, k - 1, Len(t)) = rest
    /\ i > k => /\ i - k + 1 \in 1 .. Len(rest)
                /\ SubSeq(t, k, Len(t)) = RemoveAt(rest, i - k + 1)

\* Removing before or after the position k.
LEMMA RemoveAtRest ==
    ASSUME NEW S, NEW s \in Seq(S), NEW i \in 1 .. Len(s), NEW k \in 1 .. Len(s),
           NEW t, t = RemoveAt(s, i),
           NEW rest, rest = SubSeq(s, k, Len(s))
    PROVE  RestRemoved(t, rest, k, i)
  <1>1. /\ Len(s) \in Nat /\ i \in Int /\ k \in Int
        /\ 1 <= k /\ k <= Len(s) /\ 1 <= i /\ i <= Len(s)
    OBVIOUS
  <1>2. /\ t \in Seq(S) /\ Len(t) = Len(s) - 1
        /\ \A j \in 1 .. i - 1 : t[j] = s[j]
        /\ \A j \in i .. Len(s) - 1 : t[j] = s[j + 1]
    <2>1. t \in Seq(S) /\ Removed(t, s, i)
      BY RemoveAtProperties
    <2> QED BY <2>1 DEF Removed
  <1>3. /\ rest \in Seq(S) /\ Len(rest) = Len(s) - k + 1
        /\ \A j \in 1 .. Len(s) - k + 1 : rest[j] = s[k + j - 1]
    <2>1. Len(s) \in k - 1 .. Len(s) /\ k \in 1 .. Len(s) + 1
      BY <1>1
    <2> QED BY <2>1, Part
  <1>4. ASSUME i < k PROVE SubSeq(t, k - 1, Len(t)) = rest
    <2> DEFINE u == SubSeq(t, k - 1, Len(t))
    <2>1. /\ u \in Seq(S) /\ Len(u) = Len(t) - (k - 1) + 1
          /\ \A j \in 1 .. Len(t) - (k - 1) + 1 : u[j] = t[(k - 1) + j - 1]
      <3>1. k - 1 \in 1 .. Len(t) + 1 /\ Len(t) \in (k - 1) - 1 .. Len(t)
        BY <1>1, <1>2, <1>4
      <3> QED BY <1>2, <3>1, Part
    <2> HIDE DEF u
    <2>2. ASSUME NEW j \in 1 .. Len(s) - k + 1 PROVE u[j] = rest[j]
      <3>1. j \in 1 .. Len(t) - (k - 1) + 1
        BY <1>1, <1>2
      <3>2. (k - 1) + j - 1 \in i .. Len(s) - 1 /\ ((k - 1) + j - 1) + 1 = k + j - 1
        BY <1>1, <1>4
      <3>3. u[j] = t[(k - 1) + j - 1] /\ t[(k - 1) + j - 1] = s[((k - 1) + j - 1) + 1]
        BY <1>2, <2>1, <3>1, <3>2
      <3> QED BY <1>3, <3>2, <3>3
    <2>3. Len(u) = Len(rest)
      BY <1>1, <1>2, <1>3, <2>1
    <2>4. u = rest
      BY <1>3, <2>1, <2>2, <2>3, SeqEqual
    <2> QED BY <2>4 DEF u
  <1>5. ASSUME i > k PROVE i - k + 1 \in 1 .. Len(rest)
    BY <1>1, <1>3, <1>5
  <1>6. ASSUME i > k PROVE SubSeq(t, k, Len(t)) = RemoveAt(rest, i - k + 1)
    <2> DEFINE u == SubSeq(t, k, Len(t))
               v == RemoveAt(rest, i - k + 1)
               d == i - k + 1
    <2>1. /\ u \in Seq(S) /\ Len(u) = Len(t) - k + 1
          /\ \A j \in 1 .. Len(t) - k + 1 : u[j] = t[k + j - 1]
      <3>1. k \in 1 .. Len(t) + 1 /\ Len(t) \in k - 1 .. Len(t)
        BY <1>1, <1>2, <1>6
      <3> QED BY <1>2, <3>1, Part
    <2>2. /\ v \in Seq(S) /\ Len(v) = Len(rest) - 1
          /\ \A j \in 1 .. d - 1 : v[j] = rest[j]
          /\ \A j \in d .. Len(rest) - 1 : v[j] = rest[j + 1]
      <3>1. rest \in Seq(S) /\ d \in 1 .. Len(rest)
        BY <1>3, <1>5, <1>6
      <3> HIDE DEF d
      <3>2. v = RemoveAt(rest, d)
        BY DEF d
      <3> HIDE DEF v
      <3>3. v \in Seq(S) /\ Removed(v, rest, d)
        BY <3>1, <3>2, RemoveAtProperties
      <3> QED BY <3>3 DEF Removed
    <2> HIDE DEF u, v
    <2>3. ASSUME NEW j \in 1 .. Len(s) - k PROVE u[j] = v[j]
      <3>1. u[j] = t[k + j - 1] /\ j \in Int /\ j >= 1 /\ j <= Len(s) - k
        BY <1>1, <1>2, <2>1
      <3>2. CASE j < d
        <4>1. j \in 1 .. d - 1 /\ j \in 1 .. Len(s) - k + 1 /\ k + j - 1 \in 1 .. i - 1
          BY <1>1, <3>1, <3>2
        <4>2. v[j] = rest[j] /\ rest[j] = s[k + j - 1] /\ t[k + j - 1] = s[k + j - 1]
          BY <1>2, <1>3, <2>2, <4>1
        <4> QED BY <3>1, <4>2
      <3>3. CASE j >= d
        <4>1. /\ j \in d .. Len(rest) - 1 /\ j + 1 \in 1 .. Len(s) - k + 1
              /\ k + j - 1 \in i .. Len(s) - 1
              /\ k + (j + 1) - 1 = (k + j - 1) + 1
          BY <1>1, <1>3, <1>6, <3>1, <3>3
        <4>2. /\ v[j] = rest[j + 1] /\ rest[j + 1] = s[k + (j + 1) - 1]
              /\ t[k + j - 1] = s[(k + j - 1) + 1]
          BY <1>2, <1>3, <2>2, <4>1
        <4> QED BY <3>1, <4>1, <4>2
      <3> QED BY <1>1, <3>1, <3>2, <3>3
    <2>4. Len(u) = Len(v) /\ Len(u) = Len(s) - k
      BY <1>1, <1>2, <1>3, <2>1, <2>2
    <2>5. u = v
      BY <2>1, <2>2, <2>3, <2>4, SeqEqual
    <2> QED BY <2>5 DEF u, v
  <1> QED BY <1>4, <1>5, <1>6 DEF RestRemoved

\* A sequence that holds every element of a finite set, each once, is as long
\* as the set is large.
LEMMA EnumerationLength ==
    ASSUME NEW R, NEW s \in Seq(R), R \subseteq ToSet(s), IsInjective(s)
    PROVE  /\ Len(s) = Cardinality(R)
           /\ ToSet(s) = R
  <1>1. s \in [1 .. Len(s) -> R] /\ DOMAIN s = 1 .. Len(s) /\ Len(s) \in Nat
    BY LenProperties
  <1>2. ToSet(s) = R
    BY <1>1 DEF ToSet
  <1>3. s \in Bijection(1 .. Len(s), R)
    BY <1>1, <1>2 DEF Bijection, Injection, Surjection, ToSet
  <1>4. ExistsBijection(1 .. Len(s), R)
    BY <1>3 DEF ExistsBijection
  <1> QED BY <1>1, <1>2, <1>4, FS_CountingElements

-------------------------------------------------------------------------------
(* The operator Only.                                                      *)

\* What Only has gathered after each entry of s.
OnlySteps(s, T, upto) ==
    upto = [i \in 0 .. Len(s) |->
              IF i = 0 THEN <<>>
              ELSE IF s[i] \in T THEN Append(upto[i - 1], s[i]) ELSE upto[i - 1]]

\* There is one sequence of steps.
LEMMA OnlyUnique ==
    ASSUME NEW S, NEW s \in Seq(S), NEW T,
           NEW g, OnlySteps(s, T, g), NEW h, OnlySteps(s, T, h)
    PROVE  g = h
  <1> DEFINE U == {i \in Nat : i \in 0 .. Len(s) => g[i] = h[i]}
  <1>1. 0 \in U
    BY DEF OnlySteps
  <1>2. ASSUME NEW i \in Nat, i \in U PROVE i + 1 \in U
    <2> SUFFICES ASSUME i + 1 \in 0 .. Len(s) PROVE g[i + 1] = h[i + 1]
      OBVIOUS
    <2>1. g[i] = h[i] /\ i + 1 # 0 /\ (i + 1) - 1 = i
      BY <1>2
    <2>2. \A j \in 0 .. Len(s) : j # 0 =>
             /\ g[j] = IF s[j] \in T THEN Append(g[j - 1], s[j]) ELSE g[j - 1]
             /\ h[j] = IF s[j] \in T THEN Append(h[j - 1], s[j]) ELSE h[j - 1]
      BY DEF OnlySteps
    <2> QED BY <2>1, <2>2
  <1> HIDE DEF U
  <1>3. Nat \subseteq U
    BY <1>1, <1>2, SetInduction
  <1>4. \A i \in 0 .. Len(s) : g[i] = h[i]
    BY <1>3 DEF U
  <1>5. /\ g = [i \in 0 .. Len(s) |-> g[i]]
        /\ h = [i \in 0 .. Len(s) |-> h[i]]
    BY DEF OnlySteps
  <1> QED BY <1>4, <1>5

\* Only is where its steps end.
LEMMA OnlyIs ==
    ASSUME NEW S, NEW s \in Seq(S), NEW T, NEW g, OnlySteps(s, T, g)
    PROVE  Only(s, T) = g[Len(s)]
  <1>1. \A h : OnlySteps(s, T, h) => h = g
    BY OnlyUnique
  <1> QED BY <1>1 DEF Only, OnlySteps

\* The steps of a sequence are those of its beginning and one more.
LEMMA OnlyStepsAppend ==
    ASSUME NEW S, NEW s \in Seq(S), NEW e \in S, NEW T, NEW g, OnlySteps(s, T, g),
           NEW h, h = [i \in 0 .. Len(s) + 1 |->
                          IF i <= Len(s) THEN g[i]
                          ELSE IF e \in T THEN Append(g[Len(s)], e) ELSE g[Len(s)]]
    PROVE  OnlySteps(Append(s, e), T, h)
  <1> DEFINE a == Append(s, e)
             n == Len(s)
  <1>1. n \in Nat /\ Len(a) = n + 1 /\ a[n + 1] = e /\ \A i \in 1 .. n : a[i] = s[i]
    BY AppendProperties
  <1>2. /\ g[0] = <<>>
        /\ \A i \in 0 .. n : i # 0 =>
              g[i] = IF s[i] \in T THEN Append(g[i - 1], s[i]) ELSE g[i - 1]
    <2>1. OnlySteps(s, T, g) /\ n \in Nat
      BY <1>1
    <2>2. g[0] = <<>>
      BY <2>1 DEF OnlySteps
    <2>3. \A i \in 0 .. Len(s) : i # 0 =>
             g[i] = IF s[i] \in T THEN Append(g[i - 1], s[i]) ELSE g[i - 1]
      BY DEF OnlySteps
    <2> QED BY <2>2, <2>3
  <1>3. /\ \A i \in 0 .. n : h[i] = g[i]
        /\ h[n + 1] = IF e \in T THEN Append(g[n], e) ELSE g[n]
    BY <1>1
  <1> HIDE DEF a, n
  <1>4. ASSUME NEW i \in 0 .. n + 1
        PROVE  h[i] = IF i = 0 THEN <<>>
                      ELSE IF a[i] \in T THEN Append(h[i - 1], a[i]) ELSE h[i - 1]
    <2>1. CASE i = 0
      BY <1>1, <1>2, <1>3, <2>1
    <2>2. CASE i \in 1 .. n
      <3>1. i # 0 /\ i \in 0 .. n /\ i - 1 \in 0 .. n
        BY <1>1, <2>2
      <3>2. h[i] = g[i] /\ h[i - 1] = g[i - 1] /\ a[i] = s[i]
        BY <1>1, <1>3, <2>2, <3>1
      <3> QED BY <1>2, <3>1, <3>2
    <2>3. CASE i = n + 1
      <3>1. i # 0 /\ i - 1 = n /\ n \in 0 .. n
        BY <1>1, <2>3
      <3>2. h[i - 1] = g[n] /\ a[i] = e
        BY <1>1, <1>3, <2>3, <3>1
      <3> QED BY <1>3, <2>3, <3>1, <3>2
    <2> QED BY <1>1, <2>1, <2>2, <2>3
  <1>5. h = [i \in 0 .. n + 1 |-> h[i]]
    BY DEF n
  <1>6. h = [i \in 0 .. Len(a) |->
               IF i = 0 THEN <<>>
               ELSE IF a[i] \in T THEN Append(h[i - 1], a[i]) ELSE h[i - 1]]
    BY <1>1, <1>4, <1>5
  <1> QED BY <1>6 DEF a, OnlySteps

\* Every sequence has its steps.
LEMMA OnlyDefined ==
    ASSUME NEW S, NEW s \in Seq(S), NEW T
    PROVE  \E g : OnlySteps(s, T, g)
  <1> DEFINE Q == {t \in Seq(S) : \E g : OnlySteps(t, T, g)}
  <1>1. <<>> \in Q
    <2>1. OnlySteps(<<>>, T, [i \in 0 .. 0 |-> <<>>])
      BY DEF OnlySteps
    <2> QED BY <2>1
  <1>2. ASSUME NEW t \in Seq(S), NEW e \in S, t \in Q PROVE Append(t, e) \in Q
    <2>1. PICK g : OnlySteps(t, T, g)
      BY <1>2
    <2>2. \E h : OnlySteps(Append(t, e), T, h)
      BY <2>1, OnlyStepsAppend
    <2> QED BY <2>2
  <1> HIDE DEF Q
  <1>3. s \in Q
    BY <1>1, <1>2, SeqInduction
  <1> QED BY <1>3 DEF Q

\* Only, one entry at a time.
LEMMA OnlyOfEmpty == \A T : Only(<<>>, T) = <<>>
  <1> TAKE T
  <1>1. <<>> \in Seq({}) /\ Len(<<>>) = 0
    OBVIOUS
  <1>2. OnlySteps(<<>>, T, [i \in 0 .. 0 |-> <<>>])
    BY DEF OnlySteps
  <1>3. Only(<<>>, T) = [i \in 0 .. 0 |-> <<>>][0]
    BY <1>1, <1>2, OnlyIs
  <1> QED BY <1>3

\* The last entry is kept if it is in T.
LEMMA OnlyAppend ==
    ASSUME NEW S, NEW s \in Seq(S), NEW e \in S, NEW T
    PROVE  Only(Append(s, e), T) = IF e \in T THEN Append(Only(s, T), e) ELSE Only(s, T)
  <1>1. PICK g : OnlySteps(s, T, g)
    BY OnlyDefined
  <1> DEFINE h == [i \in 0 .. Len(s) + 1 |->
                     IF i <= Len(s) THEN g[i]
                     ELSE IF e \in T THEN Append(g[Len(s)], e) ELSE g[Len(s)]]
  <1>2. Only(s, T) = g[Len(s)]
    BY <1>1, OnlyIs
  <1>3. h[Len(s) + 1] = IF e \in T THEN Append(g[Len(s)], e) ELSE g[Len(s)]
    OBVIOUS
  <1>4. Append(s, e) \in Seq(S) /\ Len(Append(s, e)) = Len(s) + 1
    BY AppendProperties
  <1>5. OnlySteps(Append(s, e), T, h)
    BY <1>1, OnlyStepsAppend
  <1> HIDE DEF h
  <1>6. Only(Append(s, e), T) = h[Len(s) + 1]
    BY <1>4, <1>5, OnlyIs
  <1> QED BY <1>2, <1>3, <1>6

\* Only keeps entries of the sequence, and only those in T.
LEMMA OnlyType ==
    ASSUME NEW S, NEW s \in Seq(S), NEW T
    PROVE  Only(s, T) \in Seq(S \cap T) /\ Only(s, T) \in Seq(S)
  <1> DEFINE Q == {t \in Seq(S) : Only(t, T) \in Seq(S \cap T)}
  <1>1. <<>> \in Q
    <2>1. <<>> \in Seq(S) /\ <<>> \in Seq(S \cap T)
      BY EmptySeq
    <2> QED BY <2>1, OnlyOfEmpty
  <1>2. ASSUME NEW t \in Seq(S), NEW e \in S, t \in Q PROVE Append(t, e) \in Q
    <2>1. Append(t, e) \in Seq(S) /\ Only(t, T) \in Seq(S \cap T)
      BY <1>2, AppendProperties
    <2>2. e \in T => Append(Only(t, T), e) \in Seq(S \cap T)
      BY <2>1, AppendProperties
    <2>3. Only(Append(t, e), T) = IF e \in T THEN Append(Only(t, T), e) ELSE Only(t, T)
      BY OnlyAppend
    <2> QED BY <2>1, <2>2, <2>3
  <1> HIDE DEF Q
  <1>3. s \in Q
    BY <1>1, <1>2, SeqInduction
  <1>4. Only(s, T) \in Seq(S \cap T)
    BY <1>3 DEF Q
  <1>5. Only(s, T) \in Seq(S)
    BY <1>4, SeqMonotonic
  <1> QED BY <1>4, <1>5

\* Only works on the two parts of a sequence one after the other.
LEMMA OnlyConcat ==
    ASSUME NEW S, NEW s \in Seq(S), NEW t \in Seq(S), NEW T
    PROVE  Only(s \o t, T) = Only(s, T) \o Only(t, T)
  <1> DEFINE Q == {u \in Seq(S) : Only(s \o u, T) = Only(s, T) \o Only(u, T)}
  <1>1. <<>> \in Q
    <2>1. Only(s, T) \in Seq(S)
      BY OnlyType
    <2> QED BY <2>1, OnlyOfEmpty, ConcatEmptySeq
  <1>2. ASSUME NEW u \in Seq(S), NEW e \in S, u \in Q PROVE Append(u, e) \in Q
    <2>1. /\ s \o Append(u, e) = Append(s \o u, e)
          /\ s \o u \in Seq(S) /\ Append(u, e) \in Seq(S)
      BY AppendConcat, ConcatProperties, AppendProperties
    <2>2. Only(s \o u, T) = Only(s, T) \o Only(u, T)
      BY <1>2
    <2>3. Only(s, T) \in Seq(S) /\ Only(u, T) \in Seq(S)
      BY OnlyType
    <2>4. Only(Append(u, e), T) = IF e \in T THEN Append(Only(u, T), e) ELSE Only(u, T)
      BY OnlyAppend
    <2>5. Only(Append(s \o u, e), T)
            = IF e \in T THEN Append(Only(s \o u, T), e) ELSE Only(s \o u, T)
      BY <2>1, OnlyAppend
    <2>6. Append(Only(s, T) \o Only(u, T), e) = Only(s, T) \o Append(Only(u, T), e)
      <3> DEFINE p == Only(s, T)
                 q == Only(u, T)
      <3>1. p \in Seq(S) /\ q \in Seq(S)
        BY <2>3
      <3> HIDE DEF p, q
      <3>2. p \o Append(q, e) = Append(p \o q, e)
        BY <3>1, AppendConcat
      <3> QED BY <3>2 DEF p, q
    <2>7. Only(s \o Append(u, e), T) = Only(s, T) \o Only(Append(u, e), T)
      BY <2>1, <2>2, <2>4, <2>5, <2>6
    <2> QED BY <2>1, <2>7
  <1> HIDE DEF Q
  <1>3. t \in Q
    BY <1>1, <1>2, SeqInduction
  <1> QED BY <1>3 DEF Q

\* What Only keeps of one entry.
LEMMA OnlyOne ==
    ASSUME NEW S, NEW e \in S, NEW T
    PROVE  Only(<< e >>, T) = IF e \in T THEN << e >> ELSE <<>>
  <1>1. << e >> = Append(<<>>, e) /\ <<>> \in Seq(S)
    OBVIOUS
  <1>2. Only(Append(<<>>, e), T) = IF e \in T THEN Append(Only(<<>>, T), e)
                                   ELSE Only(<<>>, T)
    BY <1>1, OnlyAppend
  <1> QED BY <1>1, <1>2, OnlyOfEmpty

\* Sets with the same elements in S keep the same entries.
LEMMA OnlySame ==
    ASSUME NEW S, NEW s \in Seq(S), NEW T, NEW U, S \cap T = S \cap U
    PROVE  Only(s, T) = Only(s, U)
  <1> DEFINE Q == {t \in Seq(S) : Only(t, T) = Only(t, U)}
  <1>1. <<>> \in Q
    BY OnlyOfEmpty
  <1>2. ASSUME NEW t \in Seq(S), NEW e \in S, t \in Q PROVE Append(t, e) \in Q
    <2>1. Append(t, e) \in Seq(S) /\ (e \in T <=> e \in U)
      BY AppendProperties
    <2>2. /\ Only(Append(t, e), T) = IF e \in T THEN Append(Only(t, T), e) ELSE Only(t, T)
          /\ Only(Append(t, e), U) = IF e \in U THEN Append(Only(t, U), e) ELSE Only(t, U)
      BY OnlyAppend
    <2> QED BY <1>2, <2>1, <2>2
  <1> HIDE DEF Q
  <1>3. s \in Q
    BY <1>1, <1>2, SeqInduction
  <1> QED BY <1>3 DEF Q

\* Selecting twice selects what is in both sets.
LEMMA OnlyTwice ==
    ASSUME NEW S, NEW s \in Seq(S), NEW T, NEW U
    PROVE  Only(Only(s, T), U) = Only(s, T \cap U)
  <1> DEFINE Q == {t \in Seq(S) : Only(Only(t, T), U) = Only(t, T \cap U)}
  <1>1. <<>> \in Q
    BY OnlyOfEmpty
  <1>2. ASSUME NEW t \in Seq(S), NEW e \in S, t \in Q PROVE Append(t, e) \in Q
    <2>1. Only(t, T) \in Seq(S)
      BY OnlyType
    <2>2. Only(Append(t, e), T) = IF e \in T THEN Append(Only(t, T), e) ELSE Only(t, T)
      BY OnlyAppend
    <2>3. Only(Append(t, e), T \cap U)
            = IF e \in T \cap U THEN Append(Only(t, T \cap U), e) ELSE Only(t, T \cap U)
      BY OnlyAppend
    <2>4. Only(Append(Only(t, T), e), U)
            = IF e \in U THEN Append(Only(Only(t, T), U), e) ELSE Only(Only(t, T), U)
      BY <2>1, OnlyAppend
    <2>5. Append(t, e) \in Seq(S)
      BY AppendProperties
    <2>6. Only(Only(t, T), U) = Only(t, T \cap U)
      BY <1>2
    <2>7. Only(Only(Append(t, e), T), U) = Only(Append(t, e), T \cap U)
      <3>1. CASE e \in T
        <4>1. Only(Append(t, e), T) = Append(Only(t, T), e)
          BY <2>2, <3>1
        <4>2. Only(Append(t, e), T \cap U)
                = IF e \in U THEN Append(Only(Only(t, T), U), e) ELSE Only(Only(t, T), U)
          BY <2>3, <2>6, <3>1
        <4> QED BY <2>4, <4>1, <4>2
      <3>2. CASE e \notin T
        BY <2>2, <2>3, <2>6, <3>2
      <3> QED BY <3>1, <3>2
    <2> QED BY <2>5, <2>7
  <1> HIDE DEF Q
  <1>3. s \in Q
    BY <1>1, <1>2, SeqInduction
  <1> QED BY <1>3 DEF Q

\* All entries are kept if they all are in T.
LEMMA OnlyAll ==
    ASSUME NEW S, NEW s \in Seq(S), NEW T, S \subseteq T
    PROVE  Only(s, T) = s
  <1> DEFINE Q == {t \in Seq(S) : Only(t, T) = t}
  <1>1. <<>> \in Q
    BY OnlyOfEmpty
  <1>2. ASSUME NEW t \in Seq(S), NEW e \in S, t \in Q PROVE Append(t, e) \in Q
    <2>1. Append(t, e) \in Seq(S) /\ e \in T
      BY AppendProperties
    <2>2. Only(Append(t, e), T) = IF e \in T THEN Append(Only(t, T), e) ELSE Only(t, T)
      BY OnlyAppend
    <2> QED BY <1>2, <2>1, <2>2
  <1> HIDE DEF Q
  <1>3. s \in Q
    BY <1>1, <1>2, SeqInduction
  <1> QED BY <1>3 DEF Q

\* Putting in or taking out an entry that is not in T changes nothing.
LEMMA OnlyInsert ==
    ASSUME NEW S, NEW s \in Seq(S), NEW e \in S, NEW i \in 1 .. Len(s) + 1,
           NEW T, e \notin T
    PROVE  Only(InsertAt(s, i, e), T) = Only(s, T)
  <1> DEFINE a == SubSeq(s, 1, i - 1)
             b == SubSeq(s, i, Len(s))
             one == << e >>
  <1>1. Len(s) \in Nat /\ i \in Int /\ 1 <= i /\ i <= Len(s) + 1
    OBVIOUS
  <1>2. a \in Seq(S) /\ b \in Seq(S) /\ one \in Seq(S)
    <2>1. 1 \in 1 .. Len(s) + 1 /\ i - 1 \in 1 - 1 .. Len(s) /\ Len(s) \in i - 1 .. Len(s)
      BY <1>1
    <2> QED BY <2>1, Part
  <1>3. s = a \o b
    BY <1>1, SplitAt
  <1>4. InsertAt(s, i, e) = (a \o one) \o b
    BY DEF InsertAt
  <1>5. Only(one, T) = <<>>
    BY OnlyOne
  <1> HIDE DEF a, b, one
  <1>6. Only((a \o one) \o b, T) = (Only(a, T) \o <<>>) \o Only(b, T)
    <2>1. a \o one \in Seq(S)
      BY <1>2, ConcatProperties
    <2>2. Only((a \o one) \o b, T) = Only(a \o one, T) \o Only(b, T)
      <3> DEFINE c == a \o one
      <3>1. c \in Seq(S)
        BY <2>1
      <3> HIDE DEF c
      <3>2. Only(c \o b, T) = Only(c, T) \o Only(b, T)
        <4>1. \A x, y \in Seq(S) : Only(x \o y, T) = Only(x, T) \o Only(y, T)
          BY OnlyConcat
        <4> QED BY <1>2, <3>1, <4>1
      <3> QED BY <3>2 DEF c
    <2>3. Only(a \o one, T) = Only(a, T) \o Only(one, T)
      BY <1>2, OnlyConcat
    <2> QED BY <1>5, <2>2, <2>3
  <1>7. Only(s, T) = Only(a, T) \o Only(b, T)
    BY <1>2, <1>3, OnlyConcat
  <1>8. Only(a, T) \o <<>> = Only(a, T)
    <2>1. Only(a, T) \in Seq(S)
      BY <1>2, OnlyType
    <2> QED BY <2>1, ConcatEmptySeq
  <1> QED BY <1>4, <1>6, <1>7, <1>8

\* The same for an entry taken out.
LEMMA OnlyRemove ==
    ASSUME NEW S, NEW s \in Seq(S), NEW i \in 1 .. Len(s), NEW T, s[i] \notin T
    PROVE  Only(RemoveAt(s, i), T) = Only(s, T)
  <1> DEFINE a == SubSeq(s, 1, i - 1)
             b == SubSeq(s, i, Len(s))
             d == SubSeq(s, i + 1, Len(s))
             one == << s[i] >>
  <1>1. Len(s) \in Nat /\ i \in Int /\ 1 <= i /\ i <= Len(s) /\ s[i] \in S
    OBVIOUS
  <1>2. a \in Seq(S) /\ b \in Seq(S) /\ d \in Seq(S) /\ one \in Seq(S)
    <2>1. /\ 1 \in 1 .. Len(s) + 1 /\ i - 1 \in 1 - 1 .. Len(s)
          /\ i \in 1 .. Len(s) + 1 /\ Len(s) \in i - 1 .. Len(s)
          /\ i + 1 \in 1 .. Len(s) + 1 /\ Len(s) \in (i + 1) - 1 .. Len(s)
      BY <1>1
    <2> QED BY <1>1, <2>1, Part
  <1>3. s = a \o b
    BY <1>1, SplitAt
  <1>4. b = one \o d
    BY <1>1, SubSeqRecursiveFirst
  <1>5. RemoveAt(s, i) = a \o d
    BY DEF RemoveAt
  <1>6. Only(one, T) = <<>>
    BY <1>1, OnlyOne
  <1> HIDE DEF a, b, d, one
  <1>7. /\ Only(a \o d, T) = Only(a, T) \o Only(d, T)
        /\ Only(a \o b, T) = Only(a, T) \o Only(b, T)
        /\ Only(one \o d, T) = Only(one, T) \o Only(d, T)
    <2>1. \A x, y \in Seq(S) : Only(x \o y, T) = Only(x, T) \o Only(y, T)
      BY OnlyConcat
    <2> QED BY <1>2, <2>1
  <1>8. <<>> \o Only(d, T) = Only(d, T)
    <2>1. Only(d, T) \in Seq(S)
      BY <1>2, OnlyType
    <2> QED BY <2>1, ConcatEmptySeq
  <1> QED BY <1>3, <1>4, <1>5, <1>6, <1>7, <1>8

-------------------------------------------------------------------------------
(* Sequences that hold each element of a set once.                         *)

\* The entry c of s, between u and v.
Around(s, u, c, v) == s = u \o (<< c >> \o v)

\* The sequence s holds every element of R exactly once.
Enumerates(s, R) ==
    /\ s \in Seq(R)
    /\ \A c \in R : \E u, v \in Seq(R \ {c}) : Around(s, u, c, v)

\* Such a sequence is injective and as long as R is large.
LEMMA EnumeratesLength ==
    ASSUME NEW R, NEW s, Enumerates(s, R)
    PROVE  Len(s) = Cardinality(R) /\ IsInjective(s)
  <1>1. s \in Seq(R) /\ DOMAIN s = 1 .. Len(s)
    BY DEF Enumerates
  <1>2. ASSUME NEW c \in R PROVE \E k \in DOMAIN s : s[k] = c /\ \A j \in DOMAIN s : s[j] = c => j = k
    <2>1. PICK u, v \in Seq(R \ {c}) : s = u \o (<< c >> \o v)
      BY DEF Enumerates, Around
    <2>2. PICK k \in Nat : k = Len(u)
      OBVIOUS
    <2>3. PICK n \in Nat : n = Len(v)
      OBVIOUS
    <2>4. /\ Len(s) = k + 1 + n /\ s[k + 1] = c
          /\ \A j \in 1 .. k : s[j] = u[j] /\ u[j] # c
          /\ \A j \in 1 .. n : s[k + 1 + j] = v[j] /\ v[j] # c
      BY <2>1, <2>2, <2>3
    <2>5. ASSUME NEW j \in 1 .. k + 1 + n, s[j] = c PROVE j = k + 1
      <3>1. j \notin 1 .. k
        BY <2>4, <2>5
      <3>2. CASE j > k + 1
        <4>1. j - (k + 1) \in 1 .. n /\ j = k + 1 + (j - (k + 1))
          BY <3>2
        <4> QED BY <2>4, <2>5, <4>1
      <3> QED BY <3>1, <3>2
    <2>6. k + 1 \in 1 .. k + 1 + n
      OBVIOUS
    <2> QED BY <1>1, <2>4, <2>5, <2>6
  <1>3. R \subseteq ToSet(s)
    BY <1>2 DEF ToSet
  <1>4. IsInjective(s)
    <2>1. \A j \in DOMAIN s : s[j] \in R
      BY <1>1
    <2> QED BY <1>2, <2>1 DEF IsInjective
  <1> QED BY <1>1, <1>3, <1>4, EnumerationLength

\* Nothing is enumerated by nothing.
LEMMA EnumeratesEmpty == Enumerates(<<>>, {})
  BY DEF Enumerates

\* One element more, in front.
LEMMA EnumeratesPush ==
    ASSUME NEW R, NEW s, Enumerates(s, R), NEW e, e \notin R
    PROVE  Enumerates(<< e >> \o s, R \cup {e})
  <1>1. s \in Seq(R)
    BY DEF Enumerates
  <1>2. << e >> \o s \in Seq(R \cup {e})
    BY <1>1
  <1>3. ASSUME NEW c \in R \cup {e}
        PROVE  \E u, v \in Seq((R \cup {e}) \ {c}) : Around(<< e >> \o s, u, c, v)
    <2>1. CASE c = e
      <3>1. (R \cup {e}) \ {c} = R
        BY <2>1
      <3>2. Around(<< e >> \o s, <<>>, c, s)
        BY <1>2, <2>1, ConcatEmptySeq DEF Around
      <3>3. <<>> \in Seq(R)
        OBVIOUS
      <3> QED BY <1>1, <3>1, <3>2, <3>3, Zenon
    <2>2. CASE c # e
      <3>1. PICK u, v \in Seq(R \ {c}) : s = u \o (<< c >> \o v)
        BY <2>2 DEF Enumerates, Around
      <3>2. PICK D : D = (R \cup {e}) \ {c}
        OBVIOUS
      <3>3. << e >> \in Seq(D) /\ u \in Seq(D) /\ v \in Seq(D)
        BY <2>2, <3>2
      <3>4. << e >> \o u \in Seq(D)
        BY <3>3
      <3>5. << e >> \o (u \o (<< c >> \o v)) = (<< e >> \o u) \o (<< c >> \o v)
        BY <3>3, ConcatAssociative
      <3>6. Around(<< e >> \o s, << e >> \o u, c, v)
        BY <3>1, <3>5, Zenon DEF Around
      <3> QED BY <3>2, <3>3, <3>4, <3>6, Zenon
    <2> QED BY <2>1, <2>2
  <1> QED BY <1>2, <1>3 DEF Enumerates

\* What is selected of a sequence around one of its elements.
LEMMA OnlyAround ==
    ASSUME NEW S, NEW u \in Seq(S), NEW v \in Seq(S), NEW c \in S, NEW T,
           NEW s, Around(s, u, c, v)
    PROVE  /\ c \in T => Around(Only(s, T), Only(u, T), c, Only(v, T))
           /\ c \notin T => Only(s, T) = Only(u, T) \o Only(v, T)
  <1>1. << c >> \in Seq(S) /\ << c >> \o v \in Seq(S)
    OBVIOUS
  <1>2. \A x, y \in Seq(S) : Only(x \o y, T) = Only(x, T) \o Only(y, T)
    BY OnlyConcat
  <1>3. Only(<< c >>, T) = IF c \in T THEN << c >> ELSE <<>>
    BY OnlyOne
  <1>4. <<>> \o Only(v, T) = Only(v, T)
    <2>1. Only(v, T) \in Seq(S)
      BY OnlyType
    <2> QED BY <2>1, ConcatEmptySeq
  <1>5. Only(u \o (<< c >> \o v), T) = Only(u, T) \o (Only(<< c >>, T) \o Only(v, T))
    <2>1. PICK w \in Seq(S) : w = << c >> \o v
      BY <1>1
    <2>2. Only(u \o w, T) = Only(u, T) \o Only(w, T)
      BY <1>2, Zenon
    <2>3. Only(w, T) = Only(<< c >>, T) \o Only(v, T)
      BY <1>1, <1>2, <2>1, Zenon
    <2> QED BY <2>1, <2>2, <2>3, Zenon
  <1> QED BY <1>3, <1>4, <1>5, Zenon DEF Around

\* What is selected is still listed once.
LEMMA EnumeratesOnly ==
    ASSUME NEW R, NEW s, Enumerates(s, R), NEW T
    PROVE  Enumerates(Only(s, T), R \cap T)
  <1>1. s \in Seq(R)
    BY DEF Enumerates
  <1>2. Only(s, T) \in Seq(R \cap T)
    BY <1>1, OnlyType
  <1>3. ASSUME NEW c \in R \cap T
        PROVE  \E u, v \in Seq((R \cap T) \ {c}) : Around(Only(s, T), u, c, v)
    <2>1. PICK u, v \in Seq(R \ {c}) : Around(s, u, c, v)
      BY DEF Enumerates
    <2>2. Around(Only(s, T), Only(u, T), c, Only(v, T))
      <3>1. u \in Seq(R) /\ v \in Seq(R) /\ c \in R
        OBVIOUS
      <3> QED BY <2>1, <3>1, OnlyAround
    <2>3. Only(u, T) \in Seq((R \ {c}) \cap T) /\ Only(v, T) \in Seq((R \ {c}) \cap T)
      BY OnlyType
    <2>4. (R \ {c}) \cap T = (R \cap T) \ {c}
      OBVIOUS
    <2> QED BY <2>2, <2>3, <2>4
  <1> QED BY <1>2, <1>3 DEF Enumerates

-------------------------------------------------------------------------------
(* The operator Flat.                                                      *)

\* What Flat has joined after each sequence of ss.
FlatSteps(ss, upto) ==
    upto = [i \in 0 .. Len(ss) |-> IF i = 0 THEN <<>> ELSE upto[i - 1] \o ss[i]]

\* There is one sequence of steps.
LEMMA FlatUnique ==
    ASSUME NEW ss, Len(ss) \in Nat, NEW g, FlatSteps(ss, g), NEW h, FlatSteps(ss, h)
    PROVE  g = h
  <1>1. PICK n \in Nat : n = Len(ss)
    OBVIOUS
  <1> DEFINE T == {i \in Nat : i \in 0 .. n => g[i] = h[i]}
  <1>2. 0 \in T
    BY <1>1 DEF FlatSteps
  <1>3. ASSUME NEW i \in Nat, i \in T PROVE i + 1 \in T
    <2> SUFFICES ASSUME i + 1 \in 0 .. n PROVE g[i + 1] = h[i + 1]
      OBVIOUS
    <2>1. g[i] = h[i] /\ i + 1 # 0 /\ (i + 1) - 1 = i
      BY <1>3
    <2>2. \A j \in 0 .. n : j # 0 => g[j] = g[j - 1] \o ss[j] /\ h[j] = h[j - 1] \o ss[j]
      BY <1>1 DEF FlatSteps
    <2> QED BY <2>1, <2>2
  <1> HIDE DEF T
  <1>4. Nat \subseteq T
    BY <1>2, <1>3, SetInduction
  <1>5. \A i \in 0 .. n : g[i] = h[i]
    BY <1>4 DEF T
  <1>6. g = [i \in 0 .. n |-> g[i]] /\ h = [i \in 0 .. n |-> h[i]]
    BY <1>1 DEF FlatSteps
  <1> QED BY <1>5, <1>6

\* Flat is where its steps end.
LEMMA FlatIs ==
    ASSUME NEW ss, Len(ss) \in Nat, NEW g, FlatSteps(ss, g)
    PROVE  Flat(ss) = g[Len(ss)]
  <1>1. \A h : FlatSteps(ss, h) => h = g
    BY FlatUnique
  <1> QED BY <1>1 DEF Flat, FlatSteps

\* Nothing to join.
LEMMA FlatOfEmpty == Flat(<<>>) = <<>>
  <1>1. PICK g : g = [i \in 0 .. 0 |-> <<>>]
    OBVIOUS
  <1>2. Len(<<>>) = 0
    OBVIOUS
  <1>3. FlatSteps(<<>>, g)
    BY <1>1, <1>2 DEF FlatSteps
  <1>4. Flat(<<>>) = g[0]
    BY <1>2, <1>3, FlatIs
  <1> QED BY <1>1, <1>4

\* Two parts of a sequence that meet.
LEMMA PartsMeet ==
    ASSUME NEW S, NEW l \in Seq(S), NEW a \in 0 .. Len(l), NEW b \in a .. Len(l)
    PROVE  SubSeq(l, 1, a) \o SubSeq(l, a + 1, b) = SubSeq(l, 1, b)
  <1>0. Len(l) \in Nat /\ a \in Nat /\ b \in Nat /\ a <= b /\ b <= Len(l)
    OBVIOUS
  <1>1. PICK x : x = SubSeq(l, 1, a)
    OBVIOUS
  <1>2. PICK y : y = SubSeq(l, a + 1, b)
    OBVIOUS
  <1>3. PICK z : z = SubSeq(l, 1, b)
    OBVIOUS
  <1>4. x \in Seq(S) /\ Len(x) = a /\ \A j \in 1 .. a : x[j] = l[j]
    <2>1. 1 \in 1 .. Len(l) + 1 /\ a \in 1 - 1 .. Len(l)
      BY <1>0
    <2>2. /\ SubSeq(l, 1, a) \in Seq(S) /\ Len(SubSeq(l, 1, a)) = a - 1 + 1
          /\ \A j \in 1 .. a - 1 + 1 : SubSeq(l, 1, a)[j] = l[1 + j - 1]
      BY <2>1, Part
    <2> QED BY <1>0, <1>1, <2>2
  <1>5. y \in Seq(S) /\ Len(y) = b - a /\ \A j \in 1 .. b - a : y[j] = l[a + j]
    <2>1. a + 1 \in 1 .. Len(l) + 1 /\ b \in (a + 1) - 1 .. Len(l)
      BY <1>0
    <2>2. /\ SubSeq(l, a + 1, b) \in Seq(S) /\ Len(SubSeq(l, a + 1, b)) = b - (a + 1) + 1
          /\ \A j \in 1 .. b - (a + 1) + 1 : SubSeq(l, a + 1, b)[j] = l[a + 1 + j - 1]
      BY <2>1, Part
    <2> QED BY <1>0, <1>2, <2>2
  <1>6. z \in Seq(S) /\ Len(z) = b /\ \A j \in 1 .. b : z[j] = l[j]
    <2>1. 1 \in 1 .. Len(l) + 1 /\ b \in 1 - 1 .. Len(l)
      BY <1>0
    <2>2. /\ SubSeq(l, 1, b) \in Seq(S) /\ Len(SubSeq(l, 1, b)) = b - 1 + 1
          /\ \A j \in 1 .. b - 1 + 1 : SubSeq(l, 1, b)[j] = l[1 + j - 1]
      BY <2>1, Part
    <2> QED BY <1>0, <1>3, <2>2
  <1>7. PICK xy : xy = x \o y
    OBVIOUS
  <1>8. /\ xy \in Seq(S) /\ Len(xy) = Len(x) + Len(y)
        /\ \A j \in 1 .. Len(x) : xy[j] = x[j]
        /\ \A j \in Len(x) + 1 .. Len(x) + Len(y) : xy[j] = y[j - Len(x)]
    BY <1>4, <1>5, <1>7, Joined
  <1>9. Len(xy) = b
    BY <1>0, <1>4, <1>5, <1>8
  <1>10. ASSUME NEW j \in 1 .. b PROVE xy[j] = z[j]
    <2>1. CASE j <= a
      BY <1>0, <1>4, <1>6, <1>8, <2>1
    <2>2. CASE j > a
      <3>1. /\ j \in Len(x) + 1 .. Len(x) + Len(y) /\ j - a \in 1 .. b - a
            /\ a + (j - a) = j
        BY <1>0, <1>4, <1>5, <2>2
      <3> QED BY <1>4, <1>5, <1>6, <1>8, <3>1
    <2> QED BY <1>0, <2>1, <2>2
  <1>11. xy = z
    BY <1>6, <1>8, <1>9, <1>10, SeqEqual
  <1> QED BY <1>1, <1>2, <1>3, <1>7, <1>11

\* A sequence cut into parts is joined again.
LEMMA FlatOfParts ==
    ASSUME NEW S, NEW l \in Seq(S), NEW n \in Nat,
           NEW cut, cut[0] = 0, \A i \in 0 .. n : cut[i] \in 0 .. Len(l),
           \A i \in 1 .. n : cut[i - 1] <= cut[i],
           NEW ss, ss = [i \in 1 .. n |-> SubSeq(l, cut[i - 1] + 1, cut[i])]
    PROVE  Flat(ss) = SubSeq(l, 1, cut[n])
  <1>1. PICK g : g = [i \in 0 .. n |-> SubSeq(l, 1, cut[i])]
    OBVIOUS
  <1>2. Len(ss) = n
    OBVIOUS
  <1>3. ASSUME NEW i \in 0 .. n
        PROVE  g[i] = IF i = 0 THEN <<>> ELSE g[i - 1] \o ss[i]
    <2>1. CASE i = 0
      BY <1>1, <2>1, SubSeqEmpty
    <2>2. CASE i # 0
      <3>1. i \in 1 .. n /\ i - 1 \in 0 .. n
        BY <2>2
      <3>2. cut[i - 1] \in 0 .. Len(l) /\ cut[i] \in cut[i - 1] .. Len(l)
        <4>1. cut[i - 1] \in 0 .. Len(l) /\ cut[i] \in 0 .. Len(l) /\ cut[i - 1] <= cut[i]
          BY <3>1
        <4> QED BY <4>1
      <3>3. SubSeq(l, 1, cut[i - 1]) \o SubSeq(l, cut[i - 1] + 1, cut[i]) = SubSeq(l, 1, cut[i])
        BY <3>2, PartsMeet
      <3>4. g[i] = SubSeq(l, 1, cut[i]) /\ g[i - 1] = SubSeq(l, 1, cut[i - 1])
        BY <1>1, <3>1
      <3>5. ss[i] = SubSeq(l, cut[i - 1] + 1, cut[i])
        BY <3>1
      <3> QED BY <2>2, <3>3, <3>4, <3>5
    <2> QED BY <2>1, <2>2
  <1>4. FlatSteps(ss, g)
    <2>1. g = [i \in 0 .. n |-> g[i]]
      BY <1>1
    <2> QED BY <1>2, <1>3, <2>1 DEF FlatSteps
  <1>5. Flat(ss) = g[Len(ss)]
    BY <1>2, <1>4, FlatIs
  <1>6. g[n] = SubSeq(l, 1, cut[n])
    BY <1>1
  <1> QED BY <1>2, <1>5, <1>6

-------------------------------------------------------------------------------
(* Linked lists *)

\* The links are functions on a set of nodes D.
Links(l, D) == /\ l = [next |-> l.next, prev |-> l.prev]
               /\ l.next = [n \in D |-> l.next[n]]
               /\ l.prev = [n \in D |-> l.prev[n]]

\* __list_add keeps rings well formed: a new node between an entry and its
\* successor joins them and the links of every other node are untouched.
LEMMA AddBetween ==
    ASSUME NEW l, NEW D, NEW S \in SUBSET D, Links(l, D), Ring(l, S),
           NEW new \in D \ S, NEW p \in S,
           NEW m, m = list_add_between(l, new, p, l.next[p])
    PROVE  /\ Links(m, D)
           /\ Ring(m, S \cup {new})
           /\ m.next[new] = l.next[p]
           /\ m.next[p] = new
           /\ \A n \in S \ {p} : m.next[n] = l.next[n]
  <1>1. m.next = [l.next EXCEPT ![new] = l.next[p], ![p] = new]
    BY DEF list_add_between
  <1>2. m.prev = [l.prev EXCEPT ![l.next[p]] = new, ![new] = p]
    BY DEF list_add_between
  <1>3. l.next[p] \in S /\ l.prev[l.next[p]] = p
    BY DEF Ring
  <1>4. Links(m, D)
    BY <1>1, <1>2 DEF Links, list_add_between
  <1>5. /\ m.next[new] = l.next[p]
        /\ m.next[p] = new
        /\ \A n \in S \ {p} : m.next[n] = l.next[n]
    BY <1>1 DEF Links
  <1>6. /\ m.prev[l.next[p]] = new
        /\ m.prev[new] = p
        /\ \A n \in S \ {l.next[p]} : m.prev[n] = l.prev[n]
    BY <1>2, <1>3 DEF Links
  <1>7. Ring(m, S \cup {new})
    <2> SUFFICES ASSUME NEW n \in S \cup {new}
                 PROVE  /\ m.next[n] \in S \cup {new}
                        /\ m.prev[n] \in S \cup {new}
                        /\ m.prev[m.next[n]] = n
                        /\ m.next[m.prev[n]] = n
      BY DEF Ring
    <2>1. CASE n = new
      BY <2>1, <1>3, <1>5, <1>6
    <2>2. CASE n \in S
      <3>1. m.next[n] \in S \cup {new} /\ m.prev[m.next[n]] = n
        BY <2>2, <1>3, <1>5, <1>6 DEF Ring
      <3>2. m.prev[n] \in S \cup {new} /\ m.next[m.prev[n]] = n
        BY <2>2, <1>3, <1>5, <1>6 DEF Ring
      <3> QED BY <3>1, <3>2
    <2> QED BY <2>1, <2>2
  <1> QED BY <1>4, <1>5, <1>7

\* list_del keeps the rings of the remaining nodes well formed.
LEMMA Del ==
    ASSUME NEW l, NEW D, NEW S \in SUBSET D, Links(l, D), Ring(l, S),
           NEW e \in S,
           NEW m, m = list_del(l, e)
    PROVE  /\ Links(m, D)
           /\ Ring(m, S \ {e})
           /\ \A n \in S \ {e} : m.next[n] \in {l.next[n], l.next[l.next[n]]}
  <1>1. m.next = [l.next EXCEPT ![l.prev[e]] = l.next[e], ![e] = POISON1]
    BY DEF list_del
  <1>2. m.prev = [l.prev EXCEPT ![l.next[e]] = l.prev[e], ![e] = POISON2]
    BY DEF list_del
  <1>3. /\ l.next[e] \in S /\ l.prev[e] \in S
        /\ l.prev[l.next[e]] = e /\ l.next[l.prev[e]] = e
    BY DEF Ring
  <1>4. Links(m, D)
    BY <1>1, <1>2 DEF Links, list_del
  <1>5. \A n \in S \ {e} :
           m.next[n] = IF n = l.prev[e] THEN l.next[e] ELSE l.next[n]
    BY <1>1, <1>3 DEF Links
  <1>6. \A n \in S \ {e} :
           m.prev[n] = IF n = l.next[e] THEN l.prev[e] ELSE l.prev[n]
    BY <1>2, <1>3 DEF Links
  <1>7. Ring(m, S \ {e})
    <2> SUFFICES ASSUME NEW n \in S \ {e}
                 PROVE  /\ m.next[n] \in S \ {e} /\ m.prev[m.next[n]] = n
                        /\ m.prev[n] \in S \ {e} /\ m.next[m.prev[n]] = n
      BY DEF Ring
    <2>1. m.next[n] \in S \ {e} /\ m.prev[m.next[n]] = n
      <3>1. CASE n = l.prev[e]
        BY <3>1, <1>3, <1>5, <1>6
      <3>2. CASE n # l.prev[e]
        <4>1. m.next[n] = l.next[n] /\ l.next[n] # e /\ l.next[n] # l.next[e]
          BY <3>2, <1>5 DEF Ring
        <4> QED BY <4>1, <1>6 DEF Ring
      <3> QED BY <3>1, <3>2
    <2>2. m.prev[n] \in S \ {e} /\ m.next[m.prev[n]] = n
      <3>1. CASE n = l.next[e]
        BY <3>1, <1>3, <1>5, <1>6
      <3>2. CASE n # l.next[e]
        <4>1. m.prev[n] = l.prev[n] /\ l.prev[n] # e /\ l.prev[n] # l.prev[e]
          BY <3>2, <1>6 DEF Ring
        <4> QED BY <4>1, <1>5 DEF Ring
      <3> QED BY <3>1, <3>2
    <2> QED BY <2>1, <2>2
  <1>8. \A n \in S \ {e} : m.next[n] \in {l.next[n], l.next[l.next[n]]}
    BY <1>3, <1>5
  <1> QED BY <1>4, <1>7, <1>8

-------------------------------------------------------------------------------
(* Loops over a list.                                                      *)

\* The sequence s is what hangs together from the pointer first to end.
Chained(next, first, s, end) ==
    /\ first = IF s = <<>> THEN end ELSE s[1]
    /\ \A i \in 1 .. Len(s) : next[s[i]] = IF i = Len(s) THEN end ELSE s[i + 1]

\* One step of the loop Follow, and its states, one per number of steps.
After(next, S, s) ==
    IF s[2] \in S THEN << Append(s[1], s[2]), next[s[2]] >> ELSE s

FollowSteps(next, first, S, n, step) ==
    step = [i \in 0 .. n |-> IF i = 0 THEN << <<>>, first >>
                             ELSE After(next, S, step[i - 1])]

\* There is one sequence of states.
LEMMA FollowUnique ==
    ASSUME NEW next, NEW first, NEW S, NEW n \in Nat,
           NEW g, FollowSteps(next, first, S, n, g),
           NEW h, FollowSteps(next, first, S, n, h)
    PROVE  g = h
  <1> DEFINE T == {i \in Nat : i \in 0 .. n => g[i] = h[i]}
  <1>1. 0 \in T
    BY DEF FollowSteps
  <1>2. ASSUME NEW i \in Nat, i \in T PROVE i + 1 \in T
    <2> SUFFICES ASSUME i + 1 \in 0 .. n PROVE g[i + 1] = h[i + 1]
      OBVIOUS
    <2>1. g[i] = h[i] /\ i + 1 # 0 /\ (i + 1) - 1 = i
      BY <1>2
    <2>2. \A j \in 0 .. n : j # 0 => /\ g[j] = After(next, S, g[j - 1])
                                     /\ h[j] = After(next, S, h[j - 1])
      BY DEF FollowSteps
    <2> QED BY <2>1, <2>2
  <1> HIDE DEF T
  <1>3. Nat \subseteq T
    BY <1>1, <1>2, SetInduction
  <1>4. \A i \in 0 .. n : g[i] = h[i]
    BY <1>3 DEF T
  <1>5. g = [i \in 0 .. n |-> g[i]] /\ h = [i \in 0 .. n |-> h[i]]
    BY DEF FollowSteps
  <1> QED BY <1>4, <1>5

\* A loop over nodes that hang together visits them, in order.
LEMMA FollowIs ==
    ASSUME NEW S, NEW next, NEW first, NEW end, end \notin S,
           NEW s \in Seq(S), NEW n \in Nat, Len(s) <= n,
           Chained(next, first, s, end)
    PROVE  Follow(next, first, S, n) = s
  <1> DEFINE g == [i \in 0 .. n |->
                     IF i < Len(s) THEN << SubSeq(s, 1, i), s[i + 1] >>
                     ELSE << s, end >>]
  <1>1. FollowSteps(next, first, S, n, g)
    <2> SUFFICES ASSUME NEW i \in 0 .. n
                 PROVE  g[i] = IF i = 0 THEN << <<>>, first >>
                               ELSE After(next, S, g[i - 1])
      BY DEF FollowSteps
    <2>1. CASE i = 0
      <3>1. SubSeq(s, 1, 0) = <<>>
        BY SubSeqEmpty
      <3>2. CASE s = <<>>
        BY <2>1, <3>2 DEF Chained
      <3>3. CASE s # <<>>
        <4>1. Len(s) > 0
          BY <3>3, EmptySeq
        <4> QED BY <2>1, <3>1, <3>3, <4>1 DEF Chained
      <3> QED BY <3>2, <3>3
    <2>2. CASE i # 0 /\ i <= Len(s)
      <3>1. g[i - 1] = << SubSeq(s, 1, i - 1), s[i] >> /\ s[i] \in S
        BY <2>2
      <3>2. SubSeq(s, 1, i) = Append(SubSeq(s, 1, i - 1), s[i])
        <4>1. SubSeq(s, 1, i) = SubSeq(s, 1, i - 1) \o << s[i] >>
          BY <2>2, SubSeqRecursiveSecond
        <4>2. SubSeq(s, 1, i - 1) \in Seq(S)
          BY <2>2, SubSeqProperties
        <4> QED BY <3>1, <4>1, <4>2, AppendIsConcat
      <3>3. next[s[i]] = IF i = Len(s) THEN end ELSE s[i + 1]
        BY <2>2 DEF Chained
      <3>4. After(next, S, g[i - 1]) = << SubSeq(s, 1, i), next[s[i]] >>
        <4> DEFINE p == SubSeq(s, 1, i - 1)
        <4>1. After(next, S, << p, s[i] >>) = << Append(p, s[i]), next[s[i]] >>
          BY <3>1 DEF After
        <4> HIDE DEF g
        <4> QED BY <3>1, <3>2, <4>1
      <3>5. CASE i = Len(s)
        <4>1. SubSeq(s, 1, i) = s
          BY <3>5, SubSeqFull
        <4>2. g[i] = << s, end >>
          BY <3>5
        <4> QED BY <2>2, <3>3, <3>4, <3>5, <4>1, <4>2
      <3>6. CASE i < Len(s)
        <4>1. g[i] = << SubSeq(s, 1, i), s[i + 1] >>
          BY <3>6
        <4>2. next[s[i]] = s[i + 1]
          BY <3>3, <3>6
        <4> HIDE DEF g
        <4> QED BY <2>2, <3>4, <4>1, <4>2
      <3> QED BY <2>2, <3>5, <3>6
    <2>3. CASE i > Len(s)
      <3>1. g[i - 1] = << s, end >> /\ g[i] = << s, end >> /\ i # 0
        BY <2>3
      <3>2. After(next, S, << s, end >>) = << s, end >>
        BY DEF After
      <3> QED BY <3>1, <3>2
    <2> QED BY <2>1, <2>2, <2>3
  <1>2. g[n][1] = s
    <2>1. Len(s) = n \/ Len(s) < n
      OBVIOUS
    <2> QED BY <2>1
  <1> HIDE DEF g
  <1>3. \A h : FollowSteps(next, first, S, n, h) => h = g
    BY <1>1, FollowUnique
  <1>4. Follow(next, first, S, n) = g[n][1]
    BY <1>1, <1>3 DEF Follow, FollowSteps, After
  <1> QED BY <1>2, <1>4

-------------------------------------------------------------------------------
(* Lists as sequences.                                                     *)

\* The list of the head h consists of the nodes R, each once, in the order of s.
IsList(l, h, s, R) ==
    /\ s \in Seq(R) /\ R \subseteq ToSet(s) /\ IsInjective(s)
    /\ Chained(l.next, l.next[h], s, h)

\* A loop over the list visits exactly that sequence.
LEMMA ListFollowed ==
    ASSUME NEW l, NEW h, NEW s, NEW R \in SUBSET DOMAIN l.next, IsList(l, h, s, R), h \notin R,
           NEW F, IsFiniteSet(F), R \subseteq F
    PROVE  /\ RingFrom(l, h, Cardinality(F)) = s
           /\ Len(s) = Cardinality(R)
           /\ ToSet(s) = R
  <1>1. Len(s) = Cardinality(R) /\ ToSet(s) = R
    BY EnumerationLength DEF IsList
  <1>2. Len(s) <= Cardinality(F) /\ Cardinality(F) \in Nat
    BY <1>1, FS_Subset, FS_CardinalityType
  <1> DEFINE S == DOMAIN l.next \ {h}
             first == l.next[h]
  <1>3. s \in Seq(S)
    <2>1. s \in Seq(R) /\ R \subseteq S
      BY DEF IsList
    <2> HIDE DEF S
    <2> QED BY <2>1, SeqMonotonic
  <1>4. h \notin S /\ Chained(l.next, first, s, h)
    BY DEF IsList
  <1>5. RingFrom(l, h, Cardinality(F)) = Follow(l.next, first, S, Cardinality(F))
    BY DEF RingFrom
  <1> HIDE DEF S, first
  <1>6. Follow(l.next, first, S, Cardinality(F)) = s
    BY <1>2, <1>3, <1>4, FollowIs
  <1> QED BY <1>1, <1>5, <1>6

\* A list is what the links of its own nodes say.
LEMMA ListUnchanged ==
    ASSUME NEW l, NEW h, NEW s, NEW R, IsList(l, h, s, R),
           NEW m, \A n \in R \cup {h} : m.next[n] = l.next[n]
    PROVE  IsList(m, h, s, R)
  <1>1. \A i \in 1 .. Len(s) : s[i] \in R
    BY DEF IsList
  <1>2. Chained(m.next, m.next[h], s, h)
    BY <1>1 DEF IsList, Chained
  <1> QED BY <1>2 DEF IsList

\* A head that points to itself has an empty list.
LEMMA ListEmpty ==
    ASSUME NEW l, NEW h, l.next[h] = h
    PROVE  IsList(l, h, <<>>, {})
  <1>1. <<>> \in Seq({}) /\ Len(<<>>) = 0 /\ DOMAIN <<>> = {}
    BY EmptySeq
  <1> QED BY <1>1 DEF IsList, Chained, IsInjective, ToSet

\* The entry before the position i of a list, which for the first is the head.
Before(h, s, i) == IF i = 1 THEN h ELSE s[i - 1]

\* In a ring, prev leads to the entry before.
LEMMA ListPrev ==
    ASSUME NEW l, NEW h, NEW s, NEW R, IsList(l, h, s, R),
           NEW S, R \cup {h} \subseteq S, Ring(l, S),
           NEW i \in 1 .. Len(s) + 1,
           NEW n, n = IF i = Len(s) + 1 THEN h ELSE s[i]
    PROVE  /\ l.prev[n] = Before(h, s, i)
           /\ l.next[Before(h, s, i)] = n
           /\ Before(h, s, i) \in R \cup {h}
  <1>1. /\ Len(s) \in Nat /\ i \in Nat /\ 1 <= i /\ i <= Len(s) + 1
        /\ \A j \in 1 .. Len(s) : s[j] \in R
    BY DEF IsList
  <1>2. l.next[Before(h, s, i)] = n /\ Before(h, s, i) \in R \cup {h}
    <2>1. CASE i = 1
      <3>1. s = <<>> <=> Len(s) = 0
        BY EmptySeq DEF IsList
      <3>2. l.next[h] = IF s = <<>> THEN h ELSE s[1]
        BY DEF IsList, Chained
      <3> QED BY <1>1, <2>1, <3>1, <3>2 DEF Before
    <2>2. CASE i # 1
      <3>1. /\ i - 1 \in 1 .. Len(s) /\ (i - 1) + 1 = i
            /\ i - 1 = Len(s) <=> i = Len(s) + 1
            /\ Before(h, s, i) = s[i - 1]
        BY <1>1, <2>2 DEF Before
      <3>2. l.next[s[i - 1]] = IF i - 1 = Len(s) THEN h ELSE s[(i - 1) + 1]
        BY <3>1 DEF IsList, Chained
      <3> QED BY <1>1, <3>1, <3>2
    <2> QED BY <2>1, <2>2
  <1>3. l.prev[l.next[Before(h, s, i)]] = Before(h, s, i)
    BY <1>2 DEF Ring
  <1> QED BY <1>2, <1>3

\* A new node linked between an entry and its successor is inserted there.
LEMMA ListInsert ==
    ASSUME NEW l, NEW h, NEW s, NEW R, IsList(l, h, s, R), h \notin R,
           NEW new, new \notin R \cup {h},
           NEW i \in 1 .. Len(s) + 1,
           NEW p, p = Before(h, s, i),
           NEW m, m.next[new] = l.next[p], m.next[p] = new,
           \A n \in (R \cup {h}) \ {p} : m.next[n] = l.next[n]
    PROVE  IsList(m, h, InsertAt(s, i, new), R \cup {new})
  <1> DEFINE t == InsertAt(s, i, new)
             Q == R \cup {new}
  <1>1. /\ s \in Seq(R) /\ s \in Seq(Q) /\ Len(s) \in Nat /\ DOMAIN s = 1 .. Len(s)
        /\ \A j \in 1 .. Len(s) : s[j] \in R
        /\ i \in Int /\ 1 <= i /\ i <= Len(s) + 1
    <2>1. s \in Seq(R) /\ R \subseteq Q
      BY DEF IsList
    <2> QED BY <2>1, SeqMonotonic
  <1>2. t \in Seq(Q) /\ Inserted(t, s, i, new)
    BY <1>1, InsertAtProperties
  <1> HIDE DEF t
  <1>3. /\ Len(t) = Len(s) + 1 /\ DOMAIN t = 1 .. Len(s) + 1
        /\ \A j \in 1 .. i - 1 : t[j] = s[j]
        /\ t[i] = new
        /\ \A j \in i + 1 .. Len(s) + 1 : t[j] = s[j - 1]
    BY <1>2 DEF Inserted
  <1>4. Q \subseteq ToSet(t)
    <2>1. new \in ToSet(t)
      BY <1>1, <1>3 DEF ToSet
    <2>2. ASSUME NEW n \in R PROVE n \in ToSet(t)
      <3>1. PICK j \in 1 .. Len(s) : s[j] = n
        BY <1>1 DEF IsList, ToSet
      <3>2. CASE j < i
        <4>1. j \in 1 .. i - 1 /\ j \in DOMAIN t
          BY <1>1, <1>3, <3>2
        <4> QED BY <1>3, <3>1, <4>1 DEF ToSet
      <3>3. CASE j >= i
        <4>1. j + 1 \in i + 1 .. Len(s) + 1 /\ j + 1 \in DOMAIN t /\ (j + 1) - 1 = j
          BY <1>1, <1>3, <3>3
        <4>2. t[j + 1] = n
          BY <1>3, <3>1, <4>1
        <4> QED BY <4>1, <4>2 DEF ToSet
      <3> QED BY <1>1, <3>2, <3>3
    <2> QED BY <2>1, <2>2
  <1>5. \A j, k \in 1 .. Len(s) : s[j] = s[k] => j = k
    BY <1>1 DEF IsList, IsInjective
  <1>6. ASSUME NEW j \in 1 .. Len(s) + 1
        PROVE  \/ j < i /\ j \in 1 .. Len(s) /\ t[j] = s[j]
               \/ j = i /\ t[j] = new
               \/ j > i /\ j - 1 \in 1 .. Len(s) /\ t[j] = s[j - 1]
    BY <1>1, <1>3
  <1>7. IsInjective(t)
    <2>1. ASSUME NEW j \in 1 .. Len(s) + 1, NEW k \in 1 .. Len(s) + 1, t[j] = t[k]
          PROVE  j = k
      <3>1. j = i <=> t[j] = new
        BY <1>1, <1>6
      <3>2. k = i <=> t[k] = new
        BY <1>1, <1>6
      <3>3. CASE t[j] = new
        BY <2>1, <3>1, <3>2, <3>3
      <3>4. CASE j < i /\ k < i
        BY <1>5, <1>6, <2>1, <3>4
      <3>5. CASE j > i /\ k > i
        BY <1>5, <1>6, <2>1, <3>5
      <3>6. CASE j < i /\ k > i
        <4>1. j = k - 1
          BY <1>5, <1>6, <2>1, <3>6
        <4> QED BY <1>1, <3>6, <4>1
      <3>7. CASE j > i /\ k < i
        <4>1. j - 1 = k
          BY <1>5, <1>6, <2>1, <3>7
        <4> QED BY <1>1, <3>7, <4>1
      <3> QED BY <1>1, <2>1, <3>1, <3>2, <3>3, <3>4, <3>5, <3>6, <3>7
    <2> QED BY <1>3, <2>1 DEF IsInjective
  <1>8. \A j \in 1 .. Len(s) : l.next[s[j]] = IF j = Len(s) THEN h ELSE s[j + 1]
    BY DEF IsList, Chained
  <1>9. l.next[h] = IF s = <<>> THEN h ELSE s[1]
    BY DEF IsList, Chained
  <1>10. s = <<>> <=> Len(s) = 0
    BY <1>1, EmptySeq
  \* What follows p in l: the entry at the position i, or the head.
  <1>11. l.next[p] = IF i = Len(s) + 1 THEN h ELSE s[i]
    <2>1. CASE i = 1
      BY <1>1, <1>9, <1>10, <2>1 DEF Before
    <2>2. CASE i # 1
      <3>1. /\ i - 1 \in 1 .. Len(s) /\ p = s[i - 1] /\ (i - 1) + 1 = i
            /\ i - 1 = Len(s) <=> i = Len(s) + 1
        BY <1>1, <2>2 DEF Before
      <3>2. l.next[s[i - 1]] = IF i - 1 = Len(s) THEN h ELSE s[(i - 1) + 1]
        BY <1>8, <3>1
      <3> QED BY <3>1, <3>2
    <2> QED BY <2>1, <2>2
  <1>12. m.next[h] = t[1]
    <2>1. CASE i = 1
      BY <1>3, <2>1 DEF Before
    <2>2. CASE i # 1
      <3>1. p # h /\ Len(s) # 0 /\ 1 \in 1 .. i - 1
        BY <1>1, <2>2 DEF Before
      <3>2. m.next[h] = l.next[h]
        BY <3>1
      <3> QED BY <1>3, <1>9, <1>10, <3>1, <3>2
    <2> QED BY <2>1, <2>2
  <1>13. ASSUME NEW j \in 1 .. Len(t)
         PROVE  m.next[t[j]] = IF j = Len(t) THEN h ELSE t[j + 1]
    <2>0. j \in Int /\ 1 <= j /\ j <= Len(s) + 1
      BY <1>1, <1>3
    <2>1. CASE j = i
      <3>1. CASE i = Len(s) + 1
        BY <1>3, <1>11, <2>1, <3>1
      <3>2. CASE i # Len(s) + 1
        <4>1. i + 1 \in i + 1 .. Len(s) + 1 /\ (i + 1) - 1 = i
          BY <1>1, <3>2
        <4>2. t[i + 1] = s[i]
          BY <1>3, <4>1
        <4> QED BY <1>3, <1>11, <2>1, <3>2, <4>2
      <3> QED BY <3>1, <3>2
    <2>2. CASE j = i - 1
      <3>1. j \in 1 .. i - 1 /\ j \in 1 .. Len(s) /\ i # 1 /\ j # Len(t) /\ j + 1 = i
        BY <1>1, <1>3, <2>0, <2>2
      <3>2. t[j] = p
        BY <1>3, <2>2, <3>1 DEF Before
      <3> QED BY <1>3, <3>1, <3>2
    <2>3. CASE j < i - 1
      <3>0. j \in Int /\ i \in Int /\ 1 <= j /\ j < i - 1 /\ i <= Len(s) + 1 /\ Len(s) \in Nat
        BY <1>1, <2>0, <2>3
      <3>1. /\ j \in 1 .. i - 1 /\ j + 1 \in 1 .. i - 1
            /\ j \in 1 .. Len(s) /\ j # Len(s) /\ j # Len(t)
        <4>1. j \in 1 .. i - 1 /\ j + 1 \in 1 .. i - 1
          BY <3>0
        <4>2. j \in 1 .. Len(s) /\ j # Len(s) /\ j # Len(s) + 1
          BY <3>0
        <4> QED BY <1>3, <4>1, <4>2
      <3>2. t[j] = s[j] /\ t[j + 1] = s[j + 1]
        BY <1>3, <3>1
      <3>3. s[j] # p
        <4>1. i - 1 \in 1 .. Len(s) /\ p = s[i - 1]
          BY <1>1, <2>0, <2>3 DEF Before
        <4> QED BY <1>5, <2>3, <3>1, <4>1
      <3>4. m.next[s[j]] = l.next[s[j]]
        BY <1>1, <3>1, <3>3
      <3> QED BY <1>8, <3>1, <3>2, <3>4
    <2>4. CASE j > i
      <3>1. /\ j \in i + 1 .. Len(s) + 1 /\ j - 1 \in 1 .. Len(s)
            /\ j - 1 = Len(s) <=> j = Len(t)
            /\ (j - 1) + 1 = j
        BY <1>1, <1>3, <2>0, <2>4
      <3>2. t[j] = s[j - 1]
        BY <1>3, <3>1
      <3>3. s[j - 1] # p
        <4>1. CASE i = 1
          BY <1>1, <3>1, <4>1 DEF Before
        <4>2. CASE i # 1
          <5>1. i - 1 \in 1 .. Len(s) /\ p = s[i - 1] /\ i - 1 # j - 1
            BY <1>1, <2>0, <2>4, <4>2 DEF Before
          <5> QED BY <1>5, <3>1, <5>1
        <4> QED BY <4>1, <4>2
      <3>4. m.next[s[j - 1]] = l.next[s[j - 1]]
        BY <1>1, <3>1, <3>3
      <3>5. l.next[s[j - 1]] = IF j = Len(t) THEN h ELSE s[j]
        BY <1>8, <3>1
      <3>6. j # Len(t) => t[j + 1] = s[j]
        <4>1. j # Len(t) => j + 1 \in i + 1 .. Len(s) + 1 /\ (j + 1) - 1 = j
          BY <1>1, <1>3, <2>0, <2>4
        <4> QED BY <1>3, <4>1
      <3> QED BY <3>2, <3>4, <3>5, <3>6
    <2> QED BY <1>1, <2>0, <2>1, <2>2, <2>3, <2>4
  <1>14. t # <<>>
    BY <1>1, <1>3, EmptySeq
  <1>15. Chained(m.next, m.next[h], t, h)
    BY <1>12, <1>13, <1>14 DEF Chained
  <1> QED BY <1>2, <1>4, <1>7, <1>15 DEF IsList, t

\* A node whose predecessor is led past it leaves the list there.
LEMMA ListDel ==
    ASSUME NEW l, NEW h, NEW s, NEW R, IsList(l, h, s, R), h \notin R,
           NEW i \in 1 .. Len(s),
           NEW p, p = Before(h, s, i),
           NEW m, m.next[p] = l.next[s[i]],
           \A n \in (R \cup {h}) \ {p, s[i]} : m.next[n] = l.next[n]
    PROVE  IsList(m, h, RemoveAt(s, i), R \ {s[i]})
  <1> DEFINE t == RemoveAt(s, i)
             Q == R \ {s[i]}
  <1>0. Len(s) \in Nat /\ i \in Nat /\ 1 <= i /\ i <= Len(s)
    BY DEF IsList
  <1>1. /\ s \in Seq(R) /\ Len(s) \in Nat /\ DOMAIN s = 1 .. Len(s)
        /\ \A j \in 1 .. Len(s) : s[j] \in R
        /\ i \in Int /\ 1 <= i /\ i <= Len(s)
    BY DEF IsList
  <1>2. t \in Seq(R) /\ Removed(t, s, i)
    BY <1>1, RemoveAtProperties
  <1> HIDE DEF t
  <1>3. /\ Len(t) = Len(s) - 1 /\ DOMAIN t = 1 .. Len(s) - 1
        /\ \A j \in 1 .. i - 1 : t[j] = s[j]
        /\ \A j \in i .. Len(s) - 1 : t[j] = s[j + 1]
    BY <1>2 DEF Removed
  <1>4. \A j, k \in 1 .. Len(s) : s[j] = s[k] => j = k
    BY <1>1 DEF IsList, IsInjective
  <1>5. ASSUME NEW j \in 1 .. Len(s) - 1
        PROVE  \/ j < i /\ j \in 1 .. Len(s) /\ t[j] = s[j]
               \/ j >= i /\ j + 1 \in 1 .. Len(s) /\ t[j] = s[j + 1]
    <2>0. j \in Int /\ 1 <= j /\ j <= Len(s) - 1
      BY <1>1
    <2>1. CASE j < i
      <3>1. j \in 1 .. i - 1 /\ j \in 1 .. Len(s)
        BY <1>1, <2>0, <2>1
      <3> QED BY <1>3, <2>1, <3>1
    <2>2. CASE j >= i
      <3>1. j \in i .. Len(s) - 1 /\ j + 1 \in 1 .. Len(s)
        BY <1>1, <2>0, <2>2
      <3> QED BY <1>3, <2>2, <3>1
    <2> QED BY <1>1, <2>0, <2>1, <2>2
  <1>6. \A j \in 1 .. Len(s) - 1 : t[j] \in Q
    <2> SUFFICES ASSUME NEW j \in 1 .. Len(s) - 1 PROVE t[j] \in Q
      OBVIOUS
    <2>1. CASE j < i /\ j \in 1 .. Len(s) /\ t[j] = s[j]
      BY <1>1, <1>4, <2>1
    <2>2. CASE j >= i /\ j + 1 \in 1 .. Len(s) /\ t[j] = s[j + 1]
      <3>1. j + 1 # i
        BY <1>1, <2>2
      <3> QED BY <1>1, <1>4, <2>2, <3>1
    <2> QED BY <1>5, <2>1, <2>2
  <1>7. t \in Seq(Q)
    <2>1. t = [j \in 1 .. Len(t) |-> t[j]] /\ Len(t) \in Nat
      BY <1>2
    <2> QED BY <1>3, <1>6, <2>1
  <1>8. Q \subseteq ToSet(t)
    <2> SUFFICES ASSUME NEW n \in Q PROVE n \in ToSet(t)
      OBVIOUS
    <2>1. PICK j \in 1 .. Len(s) : s[j] = n
      BY <1>1 DEF IsList, ToSet
    <2>2. j # i
      BY <2>1
    <2>3. CASE j < i
      <3>1. j \in 1 .. i - 1 /\ j \in DOMAIN t
        BY <1>1, <1>3, <2>3
      <3> QED BY <1>3, <2>1, <3>1 DEF ToSet
    <2>4. CASE j > i
      <3>1. j - 1 \in i .. Len(s) - 1 /\ j - 1 \in DOMAIN t /\ (j - 1) + 1 = j
        BY <1>1, <1>3, <2>4
      <3>2. t[j - 1] = n
        BY <1>3, <2>1, <3>1
      <3> QED BY <3>1, <3>2 DEF ToSet
    <2> QED BY <1>1, <2>2, <2>3, <2>4
  <1>9. IsInjective(t)
    <2>1. ASSUME NEW j \in 1 .. Len(s) - 1, NEW k \in 1 .. Len(s) - 1, t[j] = t[k]
          PROVE  j = k
      <3>1. CASE j < i /\ k < i
        BY <1>4, <1>5, <2>1, <3>1
      <3>2. CASE j >= i /\ k >= i
        <4>1. j + 1 = k + 1
          BY <1>4, <1>5, <2>1, <3>2
        <4> QED BY <4>1
      <3>3. CASE j < i /\ k >= i
        <4>1. j = k + 1
          BY <1>4, <1>5, <2>1, <3>3
        <4> QED BY <1>1, <3>3, <4>1
      <3>4. CASE j >= i /\ k < i
        <4>1. j + 1 = k
          BY <1>4, <1>5, <2>1, <3>4
        <4> QED BY <1>1, <3>4, <4>1
      <3> QED BY <1>1, <3>1, <3>2, <3>3, <3>4
    <2> QED BY <1>3, <2>1 DEF IsInjective
  <1>10. \A j \in 1 .. Len(s) : l.next[s[j]] = IF j = Len(s) THEN h ELSE s[j + 1]
    BY DEF IsList, Chained
  <1>11. l.next[h] = IF s = <<>> THEN h ELSE s[1]
    BY DEF IsList, Chained
  <1>12. (s = <<>> <=> Len(s) = 0) /\ (t = <<>> <=> Len(s) = 1)
    <2>1. t = <<>> <=> Len(t) = 0
      BY <1>2, EmptySeq
    <2> QED BY <1>1, <1>3, <2>1, EmptySeq
  <1>13. l.next[s[i]] = IF i = Len(s) THEN h ELSE s[i + 1]
    BY <1>10
  <1>14. m.next[h] = IF t = <<>> THEN h ELSE t[1]
    <2>1. CASE i = 1
      <3>1. m.next[h] = l.next[s[i]]
        BY <2>1 DEF Before
      <3>2. Len(s) # 1 => 1 \in i .. Len(s) - 1
        BY <1>1, <2>1
      <3> QED BY <1>3, <1>12, <1>13, <2>1, <3>1, <3>2
    <2>2. CASE i # 1
      <3>1. i - 1 \in 1 .. Len(s) /\ p = s[i - 1] /\ 1 \in 1 .. i - 1 /\ Len(s) # 1 /\ Len(s) # 0
        BY <1>1, <2>2 DEF Before
      <3>2. p # h /\ s[i] # h
        BY <1>1, <3>1
      <3>3. m.next[h] = l.next[h]
        BY <3>2
      <3>4. t[1] = s[1]
        BY <1>3, <3>1
      <3> QED BY <1>11, <1>12, <3>1, <3>3, <3>4
    <2> QED BY <2>1, <2>2
  <1>15. ASSUME NEW j \in 1 .. Len(s) - 1
         PROVE  m.next[t[j]] = IF j = Len(t) THEN h ELSE t[j + 1]
    <2>0. j \in Int /\ 1 <= j /\ j <= Len(s) - 1
      BY <1>1
    <2>1. CASE j = i - 1
      <3>1. j \in 1 .. i - 1 /\ i # 1
        BY <1>1, <2>0, <2>1
      <3>2. t[j] = p
        BY <1>3, <2>1, <3>1 DEF Before
      <3>3. j = Len(t) <=> i = Len(s)
        BY <1>1, <1>3, <2>1
      <3>4. i # Len(s) => t[i] = s[i + 1]
        <4> SUFFICES ASSUME i # Len(s) PROVE t[i] = s[i + 1]
          OBVIOUS
        <4>1. i <= Len(s) - 1
          BY <1>0
        <4>2. i \in i .. Len(s) - 1
          BY <1>0, <4>1
        <4> QED BY <1>3, <4>2
      <3>5. j + 1 = i
        BY <1>1, <2>1
      <3> QED BY <1>13, <3>2, <3>3, <3>4, <3>5
    <2>2. CASE j < i - 1
      <3>1. j \in 1 .. i - 1 /\ j + 1 \in 1 .. i - 1
        BY <1>1, <2>0, <2>2
      <3>2. j \in 1 .. Len(s) /\ j # Len(s) /\ j # Len(s) - 1 /\ j # i
        BY <1>1, <2>0, <2>2
      <3>3. t[j] = s[j] /\ t[j + 1] = s[j + 1]
        BY <1>3, <3>1
      <3>4. s[j] # p /\ s[j] # s[i] /\ s[j] \in R
        <4>1. i - 1 \in 1 .. Len(s) /\ p = s[i - 1] /\ i - 1 # j
          BY <1>1, <2>0, <2>2 DEF Before
        <4> QED BY <1>1, <1>4, <3>2, <4>1
      <3>5. m.next[s[j]] = l.next[s[j]]
        BY <3>4
      <3>6. l.next[s[j]] = s[j + 1]
        BY <1>10, <3>2
      <3> QED BY <1>3, <3>2, <3>3, <3>5, <3>6
    <2>3. CASE j >= i
      <3>1. j \in i .. Len(s) - 1 /\ j + 1 \in 1 .. Len(s) /\ j + 1 # i /\ j + 1 # i - 1
        BY <1>1, <2>0, <2>3
      <3>2. t[j] = s[j + 1]
        BY <1>3, <3>1
      <3>3. s[j + 1] # p /\ s[j + 1] # s[i] /\ s[j + 1] \in R
        <4>1. CASE i = 1
          BY <1>1, <1>4, <3>1, <4>1 DEF Before
        <4>2. CASE i # 1
          <5>1. i - 1 \in 1 .. Len(s) /\ p = s[i - 1]
            BY <1>1, <4>2 DEF Before
          <5> QED BY <1>1, <1>4, <3>1, <5>1
        <4> QED BY <4>1, <4>2
      <3>4. m.next[s[j + 1]] = l.next[s[j + 1]]
        BY <3>3
      <3>5. l.next[s[j + 1]] = IF j + 1 = Len(s) THEN h ELSE s[(j + 1) + 1]
        BY <1>10, <3>1
      <3>6. j = Len(t) <=> j + 1 = Len(s)
        BY <1>1, <1>3, <2>0
      <3>7. j + 1 # Len(s) => t[j + 1] = s[(j + 1) + 1]
        <4> SUFFICES ASSUME j + 1 # Len(s) PROVE t[j + 1] = s[(j + 1) + 1]
          OBVIOUS
        <4>1. j + 1 <= Len(s) - 1 /\ i <= j + 1
          BY <1>0, <2>0, <2>3
        <4>2. j + 1 \in i .. Len(s) - 1
          BY <1>0, <2>0, <4>1
        <4> QED BY <1>3, <4>2
      <3> QED BY <3>2, <3>4, <3>5, <3>6, <3>7
    <2> QED BY <1>1, <2>0, <2>1, <2>2, <2>3
  <1>16. Chained(m.next, m.next[h], t, h)
    BY <1>3, <1>14, <1>15 DEF Chained
  <1> QED BY <1>7, <1>8, <1>9, <1>16 DEF IsList, t

-------------------------------------------------------------------------------
(* Chains that end in a value that is no node, as those of a hash table.   *)

\* A node put in front of a chain.
LEMMA ChainedPush ==
    ASSUME NEW R, NEW q \in Seq(R), NEW c, c \notin R,
           NEW next, NEW first, NEW end, Chained(next, first, q, end),
           NEW m, m[c] = first, \A x \in R : m[x] = next[x]
    PROVE  Chained(m, c, << c >> \o q, end)
  <1>1. PICK t : t = << c >> \o q
    OBVIOUS
  <1>2. /\ Len(q) \in Nat /\ Len(t) = Len(q) + 1 /\ t[1] = c
        /\ \A j \in 1 .. Len(q) : t[j + 1] = q[j] /\ q[j] \in R
    BY <1>1
  <1>3. t # <<>> /\ (q = <<>> <=> Len(q) = 0)
    BY <1>1, <1>2, EmptySeq
  <1>4. ASSUME NEW i \in 1 .. Len(t) PROVE m[t[i]] = IF i = Len(t) THEN end ELSE t[i + 1]
    <2>1. CASE i = 1
      BY <1>2, <1>3, <2>1 DEF Chained
    <2>2. CASE i # 1
      <3>1. PICK j \in 1 .. Len(q) : i = j + 1
        <4>1. i - 1 \in 1 .. Len(q) /\ i = (i - 1) + 1
          BY <1>2, <2>2
        <4> QED BY <4>1
      <3>2. m[t[i]] = IF j = Len(q) THEN end ELSE q[j + 1]
        BY <1>2, <3>1 DEF Chained
      <3>3. j = Len(q) <=> i = Len(t)
        BY <1>2, <3>1
      <3>4. j # Len(q) => t[i + 1] = q[j + 1]
        <4>1. j # Len(q) => j + 1 \in 1 .. Len(q)
          BY <1>2, <3>1
        <4> QED BY <1>2, <3>1, <4>1
      <3> QED BY <3>2, <3>3, <3>4
    <2> QED BY <2>1, <2>2
  <1> QED BY <1>1, <1>2, <1>3, <1>4 DEF Chained

\* A node taken out of a chain: what pointed to it points past it.
LEMMA ChainedDel ==
    ASSUME NEW R, NEW a \in Seq(R), NEW b \in Seq(R), NEW c, c \notin R,
           NEW end, end # c,
           NEW next, NEW first, Chained(next, first, a \o (<< c >> \o b), end),
           NEW start, start = IF first = c THEN next[c] ELSE first,
           NEW m, \A x \in R : m[x] = IF next[x] = c THEN next[c] ELSE next[x]
    PROVE  Chained(m, start, a \o b, end)
  <1>1. PICK t : t = a \o (<< c >> \o b)
    OBVIOUS
  <1>2. PICK u : u = a \o b
    OBVIOUS
  <1>3. PICK k \in Nat : k = Len(a)
    OBVIOUS
  <1>4. PICK n \in Nat : n = Len(b)
    OBVIOUS
  <1>5. /\ Len(t) = k + 1 + n /\ t[k + 1] = c
        /\ \A j \in 1 .. k : t[j] = a[j] /\ a[j] \in R
        /\ \A j \in 1 .. n : t[k + 1 + j] = b[j] /\ b[j] \in R
    BY <1>1, <1>3, <1>4
  <1>6. /\ Len(u) = k + n
        /\ \A j \in 1 .. k : u[j] = a[j]
        /\ \A j \in 1 .. n : u[k + j] = b[j]
    BY <1>2, <1>3, <1>4
  <1>7. (u = <<>> <=> k + n = 0) /\ t # <<>>
    BY <1>1, <1>2, <1>3, <1>4, <1>5, <1>6, EmptySeq
  <1>8. \A j \in 1 .. k + 1 + n : next[t[j]] = IF j = k + 1 + n THEN end ELSE t[j + 1]
    <2>1. Chained(next, first, t, end)
      BY <1>1
    <2>2. \A j \in 1 .. Len(t) : next[t[j]] = IF j = Len(t) THEN end ELSE t[j + 1]
      BY <2>1 DEF Chained
    <2>3. Len(t) = k + 1 + n
      BY <1>5
    <2> QED BY <2>2, <2>3, Zenon
  <1>9. first = t[1]
    BY <1>1, <1>7 DEF Chained
  <1>10. next[c] = IF n = 0 THEN end ELSE b[1]
    <2>1. k + 1 \in 1 .. k + 1 + n
      OBVIOUS
    <2> QED BY <1>5, <1>8, <2>1
  <1>11. start = IF u = <<>> THEN end ELSE u[1]
    <2>1. CASE k = 0
      BY <1>5, <1>6, <1>7, <1>9, <1>10, <2>1
    <2>2. CASE k # 0
      <3>1. 1 \in 1 .. k
        BY <2>2
      <3> QED BY <1>5, <1>6, <1>7, <1>9, <2>2, <3>1
    <2> QED BY <2>1, <2>2
  <1>12. ASSUME NEW i \in 1 .. k + n PROVE m[u[i]] = IF i = k + n THEN end ELSE u[i + 1]
    <2>1. CASE i < k
      <3>1. i \in 1 .. k /\ i + 1 \in 1 .. k
        BY <2>1
      <3>2. u[i] = a[i] /\ t[i] = a[i] /\ u[i + 1] = a[i + 1] /\ t[i + 1] = a[i + 1]
        BY <1>5, <1>6, <3>1
      <3>3. i \in 1 .. k + 1 + n /\ i # k + 1 + n
        BY <2>1
      <3>4. next[t[i]] = t[i + 1]
        BY <1>8, <3>3
      <3>5. a[i] \in R /\ a[i + 1] \in R
        BY <1>5, <3>1
      <3> QED BY <2>1, <3>2, <3>4, <3>5
    <2>2. CASE i = k
      <3>1. i \in 1 .. k
        BY <2>2
      <3>2. next[u[i]] = c /\ u[i] \in R
        BY <1>5, <1>6, <1>8, <2>2, <3>1
      <3>3. n # 0 => u[k + 1] = b[1]
        BY <1>6
      <3> QED BY <1>10, <2>2, <3>2, <3>3
    <2>3. CASE i > k
      <3>1. PICK j \in 1 .. n : i = k + j
        <4>1. i - k \in 1 .. n /\ i = k + (i - k)
          BY <2>3
        <4> QED BY <4>1
      <3>2. u[i] = b[j] /\ b[j] \in R /\ t[k + 1 + j] = b[j]
        BY <1>5, <1>6, <3>1
      <3>3. next[b[j]] = IF j = n THEN end ELSE t[(k + 1 + j) + 1]
        <4>1. k + 1 + j \in 1 .. k + 1 + n /\ (k + 1 + j = k + 1 + n <=> j = n)
          OBVIOUS
        <4> QED BY <1>8, <3>2, <4>1
      <3>4. j # n => t[(k + 1 + j) + 1] = b[j + 1] /\ b[j + 1] \in R /\ u[i + 1] = b[j + 1]
        <4>1. j # n => /\ j + 1 \in 1 .. n /\ (k + 1 + j) + 1 = k + 1 + (j + 1)
                       /\ i + 1 = k + (j + 1)
          BY <3>1
        <4> QED BY <1>5, <1>6, <4>1
      <3>5. i = k + n <=> j = n
        BY <3>1
      <3> QED BY <3>2, <3>3, <3>4, <3>5
    <2> QED BY <2>1, <2>2, <2>3
  <1> QED BY <1>2, <1>6, <1>11, <1>12 DEF Chained
===============================================================================

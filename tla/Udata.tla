--------------------------------- MODULE Udata ---------------------------------
(***************************************************************************)
(* User data attached to tables, chains, rules, sets and elements: a       *)
(* buffer of type-length-value attributes, src/udata.c.  Attributes are    *)
(* appended one by one; a nest is an attribute whose length byte is filled *)
(* in when it is closed; the reader walks from length to length.           *)
(*                                                                         *)
(* nftnl_udata_put compares an attribute with the size of the whole        *)
(* buffer, nftnl_udata_nest_end with nothing.  Careful says whether the    *)
(* caller itself sees to it that what it adds fits in what is left of the  *)
(* buffer, and that a nest is no longer than its length byte can say.      *)
(***************************************************************************)

EXTENDS Integers, SequencesExt

CONSTANTS
    Byte,      \* 2^8 in the code: a byte is a number below it
    Sizes,     \* sizes a caller allocates
    Values,    \* values (sequences of bytes) a caller puts
    Raw,       \* contents a caller copies from elsewhere: a list of attributes
    LeafType,  \* the type of an attribute with a value
    NestType,  \* the type of an attribute with attributes inside
    MaxEnd,    \* bound of the model: the buffer is not filled further
    Careful

UdataAssumption ==
    /\ Byte \in Nat /\ MaxEnd \in Nat /\ Careful \in BOOLEAN
    /\ LeafType # NestType /\ {LeafType, NestType} \subseteq 0 .. Byte - 1
    /\ Values \cup Raw \subseteq Seq(0 .. Byte - 1)
    /\ \A n \in Sizes : n \in Nat /\ n >= 2   \* room for a header

Hdr == 2   \* sizeof(struct nftnl_udata)
NoBuffer == -1

VARIABLES
    size,   \* buf->size, or NoBuffer
    bytes,  \* the bytes from buf->data to buf->end
    nests,  \* the nests the caller has open: offsets of their headers
    items   \* auxiliary: for the buffer and each open nest, what was put in it

vars == << size, bytes, nests, items >>

end == Len(bytes)

Init == size = NoBuffer /\ bytes = <<>> /\ nests = <<>> /\ items = << <<>> >>

buf_alloc(n) ==
    /\ size = NoBuffer
    /\ size' = n /\ bytes' = <<>> /\ nests' = <<>> /\ items' = << <<>> >>

buf_free ==
    /\ size # NoBuffer
    /\ size' = NoBuffer /\ bytes' = <<>> /\ nests' = <<>> /\ items' = << <<>> >>

\* The condition of nftnl_udata_put.
MayPut(len) == len <= Byte - 1 /\ size >= len + Hdr

\* A caller that keeps account of the space left.
Room(len) == Careful => end + Hdr + len <= size

Attr(type, value) == <<type, Len(value)>> \o value

Into(stack, item) ==
    [stack EXCEPT ![Len(stack)] = Append(@, item)]

\* nftnl_udata_put, and what put_strz and put_u32 make of it.  A false result
\* changes nothing.
udata_put(value) ==
    /\ size # NoBuffer /\ MayPut(Len(value)) /\ Room(Len(value))
    /\ end + Hdr + Len(value) <= MaxEnd
    /\ bytes' = bytes \o Attr(LeafType, value)
    /\ items' = Into(items, [type |-> LeafType, body |-> value])
    /\ UNCHANGED << size, nests >>

nest_start ==
    /\ size # NoBuffer /\ MayPut(0) /\ Room(0)
    /\ end + Hdr <= MaxEnd
    /\ nests' = Append(nests, end)
    /\ bytes' = bytes \o Attr(NestType, <<>>)
    /\ items' = Append(items, <<>>)
    /\ UNCHANGED size

\* Mutant: the length is taken from the header on.
NestLen_FromHdr(ud) == (end - ud) % Byte

\* ud->len is one byte: the length of a longer nest loses its high bits.
NestLen(ud) == (end - (ud + Hdr)) % Byte

nest_end ==
    LET ud == Last(nests)
        outer == Front(items)
    IN  /\ nests # <<>>
        /\ Careful => end - (ud + Hdr) <= Byte - 1
        /\ bytes' = [bytes EXCEPT ![ud + Hdr] = NestLen(ud)]
        /\ nests' = Front(nests)
        /\ items' = Into(outer, [type |-> NestType, body |-> Last(items)])
        /\ UNCHANGED size

-------------------------------------------------------------------------------
(* nftnl_udata_parse: attributes from from to the end of data, each found  *)
(* by the length of the one before; the callback parses a nest the same    *)
(* way.  A header or a value past the end of data is unreadable.           *)

Unreadable == [type |-> NoBuffer, body |-> <<>>]

Parse(data) ==
    LET parse[from \in 1 .. Len(data) + 1, to \in 0 .. Len(data)] ==
          LET left == to - from + 1
              next == from + Hdr + data[from + 1]
          IN  IF left <= 0 THEN <<>>
              ELSE IF left < Hdr \/ next > to + 1 THEN <<Unreadable>>
              ELSE <<[type |-> data[from],
                      body |-> IF data[from] = NestType
                               THEN parse[from + Hdr, next - 1]
                               ELSE SubSeq(data, from + Hdr, next - 1)]>>
                     \o parse[next, to]
    IN  parse[1, Len(data)]

\* nftnl_udata_buf_put: what was in the buffer is replaced.  What does not
\* fit is not copied, but the end is set as if it was: the bytes there are
\* whatever the memory held.
buf_put(data) ==
    /\ size # NoBuffer /\ nests = <<>>
    /\ Careful => Len(data) <= size
    /\ Len(data) <= MaxEnd
    /\ \E rest \in [size + 1 .. Len(data) -> 0 .. Byte - 1] :
          bytes' = [i \in DOMAIN data |-> IF i <= size THEN data[i] ELSE rest[i]]
    /\ items' = <<Parse(data)>>
    /\ UNCHANGED << size, nests >>

Next ==
    \/ \E n \in Sizes : buf_alloc(n)
    \/ buf_free
    \/ \E value \in Values : udata_put(value)
    \/ nest_start \/ nest_end
    \/ \E data \in Raw : buf_put(data)

Spec == Init /\ [][Next]_vars

-------------------------------------------------------------------------------
(* Properties.                                                             *)

TypeOK ==
    /\ size \in Sizes \cup {NoBuffer}
    /\ bytes \in Seq(0 .. Byte - 1)
    /\ \A i \in DOMAIN nests : nests[i] + Hdr <= end
    /\ Len(items) = Len(nests) + 1

\* The attributes are within data[size]: "nftnl_udata_len()" is drawn inside
\* "nftnl_udata_size()" (include/udata.h:31-32).
EndWithinSize == end <= size \/ size = NoBuffer

\* Whatever was put, nested to whatever depth and closed in whatever places, a
\* reader gets back the same tree of attributes: of the whole buffer, and of
\* the part of it that an open nest holds so far (udata.c:71, 138, 155, 166).
RoundTrip ==
    Parse(SubSeq(bytes, IF nests = <<>> THEN 1 ELSE Last(nests) + Hdr + 1, end))
        = Last(items)
===============================================================================

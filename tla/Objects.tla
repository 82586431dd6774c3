------------------------------ MODULE Objects -------------------------------
(* Objects of every type, stateful ones (StatefulObject) and the others      *)
(* (PlainObject), side by side: in a behaviour there is an object of one side*)
(* only, and the variables of the other are Idle.                            *)
EXTENDS Naturals

CONSTANTS Programs,  \* of StatefulObject: what a program does at most
          Bounds     \* of PlainObject: what a program does at most

VARIABLES
  side,                                    \* "stateful" or "plain"
  program, obj, said, msg, got,            \* of StatefulObject
  bound, kind, mine, theirs, result, read  \* of PlainObject

S == INSTANCE StatefulObject
P == INSTANCE PlainObject

ASSUME ObjectsAssumption == S!ProgramsAssumption /\ P!BoundsAssumption

statefulVars == <<program, obj, said, msg, got>>
plainVars    == <<bound, kind, mine, theirs, result, read>>

Idle == "idle"

Init ==
  \/ /\ side = "stateful" /\ S!Init
     /\ bound = Idle /\ kind = Idle /\ mine = Idle
     /\ theirs = Idle /\ result = Idle /\ read = Idle
  \/ /\ side = "plain" /\ P!Init
     /\ program = Idle /\ obj = Idle /\ said = Idle /\ msg = Idle /\ got = Idle

Next ==
  \/ side = "stateful" /\ S!Next /\ UNCHANGED <<side, plainVars>>
  \/ side = "plain" /\ P!Next /\ UNCHANGED <<side, statefulVars>>

Spec == Init /\ [][Next]_<<side, statefulVars, plainVars>>

-----------------------------------------------------------------------------
\* What the program set reads back as set, whatever it set before or after it,
\* and an object that was read can be sent on (object.c:84-126, 249, 314-323).
Stored ==
  side = "stateful" => S!TypeOK /\ S!Stored /\ S!NoFault

\* No message of this library ends a reader with the same library, but for a
\* text of a stateful object that is empty or what another type left
\* (abi_breakage, utils.c:327).
NoExit == IF side = "stateful" THEN S!NoExit ELSE P!NoExit

\* Of a stateful object the reader has the type and the attributes, those of
\* its type and those of all types, with the same values and no others, but
\* for the losses that are named (object.c:226-335, obj/tunnel.c).
Exact == side = "stateful" => S!Exact /\ S!HeadExact

\* Of the others, too, also if it reads into an object it has read into: what
\* the new message does not have stays, expressions are added.  And what was
\* read from one message and is sent on is the same message (chain.c, rule.c,
\* set.c, set_elem.c, table.c, flowtable.c: the builders and parsers).
Merged == side = "plain" => P!TypeOK /\ P!Merged /\ P!Relay

\* A message with an expression the reader does not know leaves what comes
\* before it in the order of parsing (rule.c:456, set.c:745, set_elem.c:555).
PartialParse == side = "plain" => P!PartialParse

\* The callbacks of a tunnel insist on four bytes for its flags, and a reader
\* should have all of them (obj/tunnel.c:154, 521).
FlagsAreU32 == side = "stateful" => S!FlagsAreU32

\* The number of uses of a flowtable that was set should be the one the reader
\* gets (tests/nft-flowtable-test.c:33, 65; flowtable.c:162).
UseArrives == side = "plain" => P!UseArrives
=============================================================================

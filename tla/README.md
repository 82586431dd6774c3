# Verification of libnftnl

libnftnl is the userspace library that builds and parses the netlink messages
of nf_tables. It is a sequential library without threads: every function runs
to its end on objects its caller owns. What is hard about it is not
concurrency of processors but the interleaving of *calls*: a walk over a list
stays open while its owner edits the list, a dump of a set spans many messages
while elements are appended, a batch spans pages, a nest is closed long after
it was opened, an allocation fails between two assignments, what one process
writes into a message another has to read back from it through two different
numberings, and one function, the batch probe, runs a protocol with the kernel.
The project models these, checks them with TLC on small instances and proves
the invariants of the list core, the name index, the set dump, the batch, the memory
of all objects, the messages of expressions and of objects other than stateful ones, the probe, rulesets, the data of
set elements, the descriptions of concatenations and traces with TLAPS for instances of every size.

Paths below are those of the repository (`src/chain.c`, `include/udata.h`).

## Inventory

| Component | State | Operations | Interacts with | What must hold |
|---|---|---|---|---|
| Intrusive lists, `include/linux_list.h` | `next`, `prev` of each node; hash chains | add, add_tail, del, empty, walks; hlist add and del | everything below | rings and hash chains stay well formed |
| Rules of a chain, `src/chain.c`, `src/rule.c` | `rule_list` of a chain, `head` of a rule, cursors of iterators | add, add_tail, insert_at, append_at, del, lookup_byindex, foreach, iterator, release | lists; callbacks of the caller | order, ownership, walks survive edits |
| Chain list, `src/chain.c`; set list, `src/set.c` | list, name index of 512 buckets, name of each entry | add, add_tail, del, lookup_byname, free; rename of an entry | lists, chain and set objects | list and index agree; lookups exact |
| Set element dump, `src/set_elem.c` | element list, iterator, message being built | iterator create, next, destroy; build a message | caller's message buffers, libmnl | every element once, nests fit 16 bits, the dump ends |
| Netlink batch, `src/batch.c` | pages, current page, message being built | alloc, buffer, update, iovec, free | libmnl's `mnl_nlmsg_batch` | no message lost, repeated or torn; no overrun |
| User data, `src/udata.c` | buffer, end, open nests | put, buf_put, nest_start, nest_end, parse | objects that carry user data | what is written is what is read |
| Objects: table, chain, rule, set, element, flowtable, stateful object | flags, attribute values, owned memory, expression lists | alloc, set, unset, get, build, parse, free | libmnl, each other | no leak, no double free, flags say what is valid; build and parse agree |
| Expressions, `src/expr.c`, `src/expr/*.c` | type, flags, fields | alloc by name, set, get, build, parse, free | rule, set, element | build and parse agree |
| Ruleset, `src/ruleset.c` | four list pointers and flags | set, unset, get, free, print into a buffer or file | lists of the objects | each list has one owner; text of any length is cut or completed, never torn |
| Batch probe, `src/common.c` | socket, sequence numbers | send a batch, read replies | kernel | the verdict follows from the reply to the set message; the probe ends; the socket is closed |
| Generation, trace, `src/gen.c`, `src/trace.c` | flags and fields | parse, get | kernel messages | flags say what is valid |
| Text output, `src/utils.c` and the snprintf functions | none | format | | the wording is not a matter of state; how pieces are joined is, see Ruleset |

Behaviours that are hard to test, with their lines, are listed as "hazards" in
`PROJECT.json`; each names the properties that cover it.

## Modules

| Module | What it is |
|---|---|
| `LinuxList` | the list operations as operators on the links of all nodes, assignment by assignment |
| `ChainRules` | chains, rules and open walks; refines `RuleSeqs` |
| `RuleSeqs` | the same calls on sequences, without a pointer |
| `ChainList` | the list of chains and its name index |
| `SetElemsDump` | iterator and builder of set elements; refines `ElemStream` |
| `ElemStream` | a dump as its caller sees it |
| `Batch` | pages of a batch; refines `MessageLog` |
| `MessageLog` | a batch as its caller sees it |
| `Udata` | the bytes of a user-data buffer, and its reader |
| `ObjectKinds` | per kind of object, what each of its functions does with the memory behind an attribute |
| `ObjectMemory` | one object of any kind in the hands of a careless program |
| `ExprTables` | per type of expression, what its setter, attribute callback, builder and parser do with each attribute |
| `ExprWire` | an expression of any type through a message into a reader |
| `ObjTables` | per type of stateful object, what its setter, callback, builder and parser do with each attribute |
| `StatefulObject` | a stateful object whose type and attributes are set in any order, through a message into a reader |
| `PlainTables` | per type of table, chain, rule, set, element and flowtable, which attributes are stored, sent, read |
| `PlainObject` | such an object through messages into a reader, which may read several into one object |
| `SetDesc` | the description of a concatenation: field lengths and their count, byte by byte |
| `ElemData` | the union of value, verdict and chain of a set element |
| `Ruleset` | who has the four lists, and their text |
| `BatchProbe` | `nftnl_batch_is_supported` and the kernel |
| `Trace` | trace events parsed one after another |
| `SeqParts` | the part of a sequence that is in a set, and the joining of sequences |
| `Parts` | `SetDesc`, `ElemData`, `Trace`, `Ruleset` and `Udata` side by side |
| `ListLemmas` | induction, lemmas about sequences that several proofs need, and what the list operations do to rings, lists and hash chains |
| `PartsProofs` | theorems about `SetDesc`, `ElemData`, `Trace` and `Ruleset`, in `Parts` |
| `ChainRulesProofs`, `ChainListProofs`, `ObjectMemoryProofs`, `ExprWireProofs` | theorems |
| `ObjectsProofs` | theorems about `PlainObject`, in `Objects`, and about `SetElemsDump` |
| `BatchProofs` | theorems about `Batch` and `BatchProbe` |
| `Objects` | `StatefulObject` and `PlainObject` side by side |
| `MCObjects` | the instances of `Objects` |
| `MCParts` | the instances of `Parts` |
| other `MC*` | the instances TLC checks |

How state and actions correspond to the code is said in a comment on every
variable and action; `PROJECT.json` "map" gives the lines. Two conventions hold
throughout. A function that checks nothing has the contract of its caller as
its guard (an entry is added only when it is in no list, deleted only when it
is in one), and the comment at the head of the module says so. `Objects` and `Parts`
put modules that share no state into one run: a behaviour is one of them, the
variables of the others have the value `Idle`, and an invariant there names those of
the modules that answer the same question. An auxiliary
variable (marked so) records history for the properties and is never read by
an action that models code, with one exception: `home` in `ChainRules`, the
chain whose list a rule is in. It stands for the walk over the list in
`nftnl_chain_free`, and `ListHoldsRules` checks that the walk would find
exactly these rules.

### ChainRules

`link` holds the two fields of every `list_head`, that of a chain
(`rule_list`) and that of a rule (`head`). A walk is what a
`nftnl_rule_iter` or a running `nftnl_rule_foreach` keeps: the chain and the
rule it will hand out next, read before the caller's edits and used after
them. Between two steps of a walk the caller may call anything, another walk
included, except what no caller of `list_for_each_entry_safe` may do: delete
the one rule the walk has saved, or free the chain. `nftnl_rule_iter_next`
recognises the end of a lap in an unusual way (it moves the cursor and compares
it with the first rule, `Wraps`); that this is the same as having stood on the
list head follows from the shape of the list and is part of what is checked.

### ChainList

A chain is hashed by the name it has when it is added. Its name may be set
again while it is listed; nothing rehashes it. It may also be lost: a set frees
the old name before there is memory for the new one (`src/chain.c:219-223`), and
the attribute may be unset. A lookup that meets such a chain follows NULL or freed
memory (`src/chain.c:1113`); this is undefined, and the model ends the process there
(`Fault`, `Restart`). `LookupExact` says precisely
what a lookup finds, and when it does not return. Names and buckets are small sets with a fixed hash
function in which two names collide.

### SetElemsDump

One step is one turn of the loop of
`nftnl_set_elems_nlmsg_build_payload_iter`. Sizes are abstract units: an
element has a size, a nest a header and a limit (`UINT16_MAX` in the code).
The message header and the buffer of the caller, which must hold a full nest
and the element that overflows it, are not modelled.

The builder learns the length of an element it has written from the `nla_len` of
the element's nest, which has 16 bits (`src/set_elem.c:875`): `NlaLen` is the size
modulo `MaxNest + 1`. A nest that is longer (`Truncated`), say of an element with many
expressions, wraps. If the rest fits, the element goes out, in a list whose length
field is wrong too, and is always the last of its message; if the rest does not
fit beside what is there, the builder takes only the rest off the message again
(line 882). The comment above the check (lines 877-880) promises that what does
not fit is discarded. `NestFits` names these two cases and excludes any other, and
`Oversize` (refused in every message) goes by `nla_len`, as the code does.
What is written counts as sent, also where the kernel would read it differently.

### Batch

`libmnl`'s batch is external: a limit, a length and a current position.
A failing allocation is `update_nomem`; the message stays pending and may be
tried again or replaced. `MessageLog` carries the fine print: a message longer
than a page but not than the overrun is accepted with 0 and not in the log,
because the result of the second `mnl_nlmsg_batch_next` is not looked at.

### Udata

Bytes have three bits instead of eight in the instances, so that the length
byte of a nest comes near its limit in a short buffer. `Careful` says whether
the caller accounts for the space left and for the length of nests. With it the
tree of attributes is read back as it was written; without it the buffer is
overrun, see below.

### ObjectKinds and ObjectMemory

Every object of the library is a word of flags, a pointer for each attribute of
variable size, and one switch per operation. The switches were written by hand
and differ. `ObjectKinds` records them, one definition per function of the
seven objects and the eight expressions that own memory, and over the
attributes that own any; attributes that are copied by value are left out.
`ObjectMemory` runs any sequence of calls on one object: set, unset, get,
build, parse of any message, adding and removing expressions, free, with any
allocation failing. A block has one owner, so the state of a pointer (`null`,
`block`, `holes` for an array of which one name could not be copied, `freed`)
is enough to see a leak, a double free or a use after free. The expressions of
a list are released all together, so three states suffice for it: `none`,
`live`, and `dead`, released while still linked. `EXPR` stands for the bits
EXPR and EXPRESSIONS. The variable `seen` records what the program, or its luck,
has done:

| Habit | What was done |
|---|---|
| `reset` | an attribute was set that had a value |
| `reparse` | a message was parsed into an object that held something |
| `unset`, `drop` | an attribute, the expressions, were unset |
| `swap` | expressions were set over others |
| `nomem` | an allocation failed |
| `unknown` | an expression of a message could not be parsed |
| `mismatch` | a verdict's chain was set and the verdict was no jump |

The properties say which habits each kind of object does not stand:

| Kind | Faults only after (`Unsafe`) | Loses memory only after (`Losing`) |
|---|---|---|
| table | `nomem` with `reset` or `reparse` | `unset` of the user data |
| rule | the same | |
| chain | `nomem` | `reparse` (devices) |
| flowtable | `nomem` | `reparse` (devices) |
| stateful object | `nomem` | `reparse` (table, name) |
| set | the same as a table, `drop`, `swap`, `unknown` | |
| set element | `nomem` with `reset`, `drop`, `swap` | |
| dynset | `nomem` with `reset`, `swap` | `reset` (set name), `unknown` |
| objref | `nomem` | `reset` |
| log, lookup, flow | `nomem` with `reset` | `reset` |
| immediate | `nomem` with `reset` | `mismatch` |
| match, target | | |

Each entry of the table was seen to be reached. A call that reports success
stored what it was given, except where nobody looks at an allocation
(`Unchecked`): the user data and devices of a chain, the devices of a flowtable,
the names of stateful objects and object references. Two things are taken from the program: the
scalar beside which an attribute is sent (the hook of a chain's devices) is set,
and data and chain of an immediate, which share memory, are not used together
(`src/expr/immediate.c:119`).

### ExprTables and ExprWire

Each attribute of an expression has two numbers: that of the program
(`NFTNL_EXPR_X_A`, the bit in `flags`) and that of the kernel (`NFTA_X_A`, the
attribute of a message), and four functions per type must agree about it.
`ExprTables` holds the two numberings of all 39 types that have attributes and a line for each
function, written from that function alone. `ExprWire` gives the lines their
meaning: a value is a sequence of bytes, an integer changes its byte order and
takes the width of the attribute and then of the field, the callback compares
lengths, a bit is set by one numbering or the other. Three types have more than a table and are
modelled on their own: the union of verdict and data of `immediate`, the list of `dynset`,
and the names of `objref`, which are sent without their NUL. Undefined
behaviour is a choice: the pointer left on the stack when a jump has no chain
may be NULL, point to some string, or fault; what follows an unterminated name may or
may not be a zero byte.

`Exact` says that the reader has what was set: the same bits and values. What is
lost on the way is named in `Lost`: flags of osf that are zero, the chain of
a verdict that is no jump, a chain identifier. `Settled` says that a second trip changes
nothing any more. The model describes a little-endian machine. Not modelled: data longer than a
register and names longer than the array of a match, which the library does
not check; text output.

### ObjTables and StatefulObject

The nine types of stateful objects in the manner of `ExprTables` and
`ExprWire`, with what is peculiar to them (`src/object.c`): all types share one
union of fields and one word of flags, whose bits from `NFTNL_OBJ_BASE` on mean
an attribute of whatever type the object has now. `mem` is the union, byte by
byte. A type the library does not know takes the operations away and leaves the
bit of the type set, so that the builder uses a pointer that is NULL
(`Dangles`); an attribute set before the type is marked and its value lost.
`said` keeps what a program may count on, and `Stored` says that it is there.
`knows` lets the reader's library be an older one. `program` says which types
and attributes a behaviour may set, and how many (`bound` in `PlainObject` likewise). `Exact` and `Lost` say what
arrives. `NFT_SECMARK_CTX_MAXLEN` (256) is cut down to the rest of the model's
union.

### PlainTables and PlainObject

For the other six types, a value is the number of the message it was set for:
what matters is which attributes are marked, sent only beside others, never
sent, or never read, and which of them a parser reaches before the list of expressions (`X_parse`) or only behind it (`X_rest`). `set_elem` is an element in the message of its list,
`elem_list` the head of that message. A reader may parse several messages into
one object: `Merged` says what is replaced, what stays, and what is
added. An expression that the reader's library does not know fails the message
at its place; `PartialParse` says what is left of it.

### SetDesc

`field_len`, `field_count` behind it and the padding of the struct are one
array of bytes, because both writers run past the first: setting the attribute
counts on from the old count to the next zero, parsing writes at the count it
finds. What is behind the padding is out of the struct, and touching it is a
fault. The model says exactly how often a description may be set or read before
that happens (`NoFault`), and that set once it arrives (`OnceExact`).

### ElemData

`mine` has the words of the union that two members share; `heap` the names that
are allocated. A value of three words or more is stored over the pointer of a
chain whose bit stays set: the release then frees the value. `torn` and
`fields` say what each attribute would be if it had memory of its own, and
`LikeFields` where that makes no difference.

### Ruleset

Bits, not pointers, say which lists a ruleset has. `ruleset_set` frees the list
that is there before it stores the new one, also if they are the same (`again`).
Printing is modelled call by call: `Advance` is `SNPRINTF_BUFFER_SIZE`, a text a
sequence of characters of which only the object and the place matter, a
buffer may have any size down to none, an iterator may fail to be allocated,
and a file may fail at any call. `nftnl_fprintf` prints an object through a
buffer of fixed size first. The object of `SnprintfExact` is that the pieces
join. `SNPRINTF_BUFFER_SIZE` also cuts `ret` to the space left, and
`nftnl_ruleset_do_snprintf` then looks at `ret` to see if a separator is due
(`src/ruleset.c:446, 459, 472`). So a caller that passes size 0 to learn the
length gets one too small by a newline for each list behind the first
(`Uncounted`); a buffer of any other size sets the separator. What is between the objects of one list and what the functions return is
part of it; the wording of an object is not.

### BatchProbe

Kernel and libmnl are external, modelled from the comment at `common.c:156` and
the reads of the code: four kinds of kernel differ in which messages of the batch
they answer and with what. Every call of the probe may fail. Sequence numbers
have `Width` values and begin at any time of day; libmnl takes a number of zero
for no number, so the check is void at two moments of the day's cycle
(`Wrapped`): `Verdict` says what holds without them (`NeverWrongly`) and with
them (`EvenWrapped`). A batch for which libmnl has no memory (`common.c:124`, not looked at) is
a NULL pointer that ends the process, and is left out.

### Trace

A trace is filled by parsing only. Blocks may be refused. The table of verdict
attributes is not initialised (`trace.c:301`): what a jump without a chain finds
there may be NULL, an address, or an earlier attribute. A trace that is read into again
loses the blocks it had and keeps its jump target. `said` has the last message, and
of all messages together for which attributes there was no memory (`failed`) and
which message brought each block last (`last`): whether a name is NULL or a block lost
depends on all of them. Three messages are the fewest that show it: a name that arrives, one
there is no memory for, and a message without one.

## Runs

| Run | Instance | Shows |
|---|---|---|
| `chain_rules` | 2 chains, 3 rules, 2 walks | rings intact, lists complete, no walk dangles, walks exact, implements `RuleSeqs` |
| `chain_list` | 3 chains, 3 names in 2 buckets, names changed and lost | list and index agree, lookups exact |
| `set_dump` | 7 elements of sizes 2 to 9 and 14, nest of 10 with header 2, lengths that wrap at 11 | messages fit but for the element of 14, dump exact and complete, ends except at the element of 9, implements `ElemStream` |
| `batch` | 5 messages of sizes 1 to 6, pages of 5, overrun 6, at most 4 pages | no overrun, pages contiguous, log split, implements `MessageLog` |
| `object_memory` | all 15 kinds, every pair of attributes | what each kind does not stand, and nothing else |
| `expr_wire` | all 39 types, every three attributes, dynset with 2 expressions | readers have what was set, refuse what they should, are not ended by a length |
| `batch_probe` | 6 sequence numbers, 4 kernels, every call may fail | the answer is right, the socket closed, the probe ends |
| `objects` | 9 stateful types with the type and every 2 attributes and every change of type within two groups of 5, tunnels with every 3 attributes; 6 other types (and the head of an element list) with every 5 attributes and 2 expressions in 1 message, every 2 (sets: 1) in 2 messages into one object | what is set stays and arrives, exactly the named losses, what is merged, what a failed message leaves |
| `parts` | 2 fields set 4 times and read twice; 2 chains, 2 verdicts, values of 0, 2, 3 words, 2 elements; 3 trace messages; 4 lists, 3 objects, buffers of 0 to 6; user data in buffers of 6 and 13 bytes | descriptions, unions, traces and user data are what was given; one owner for each list; texts join |
| `tunnel_flags` | as `objects` | violated: flags are read as one byte |
| `flowtable_use` | as `objects` | violated: the use count does not arrive |
| `udata_end` | user data, a careless caller that only puts attributes and opens nests | violated: the end passes the size |

Why the bounds are enough. Three rules give every position an entry can have in
a ring (only, first, middle, last) together with one that is out of it; two
chains let a rule move from one to the other under an open walk; two walks
overlap. Three chains in two buckets give hash chains of length three and a
chain in the middle of one. Seven elements with these sizes give nests that are
filled exactly, by one unit too much, and by a single element, one that fits in none, and one that
wraps to a length of 3, sent from an empty or short nest and refused by a fuller one. The message
sizes fill a page exactly, share one, need one each, and fit in none. In
`Udata` thirteen bytes hold a nest in a nest with a value, and a nest of seven,
the most its length says. Chains, rules and walks are symmetric in `ChainRules`
and chains in `ChainList`: no action or property tells one from another. Attributes
of an object meet only in the order in which a message is parsed, where the
failure of one leaves out the next, and in the list of expressions, which is
always there: two at a time show it. Three attributes of an expression give every
pattern of data values that replace each other's result, and a verdict with its chain and
chain identifier. Each value is either zero, which some builders leave out, or has different bytes, so
that a wrong order or width shows; names have no, three or four characters,
which gives every way a string can end. Attributes of a stateful object meet in
the union they share and in the nests of a tunnel, which are exclusive, so the tunnel is
searched deeper (the three attributes of an erspan). All nine types in one group
would only add changes between types whose fields lie alike. A
hook with its devices has four attributes, and a fifth has nothing to do with
them. Lengths in `SetDesc` are below and equal to the number of fields, as 4 and
16 bytes are with 16 fields, and the description is set once more than there are bytes of
padding. In `ElemData` one verdict is a jump and one is not, and a value may look like either. Six sequence numbers include each of those at which one of the three
messages wraps around. Texts are shorter than, as long as and longer than the
file's buffer, and buffers from none to more than two objects need. Only
`object_memory` turns deadlock checking off: there the
process really stops, after a fault or when the object has been released.

Fairness is assumed in two places. In `BatchProbe` it is weak fairness of the
probe's own calls, which are one thread that runs, and of the kernel's answer to
a datagram it was sent; nothing is assumed of failures, nor of the program that asks
again. With it the probe ends (`Terminates`), because every kind of kernel sends
at least one answer and every answer ends the loop: the message asks for an
acknowledgement, without which a kernel that ignores it would leave the probe
waiting. In `SetElemsDump` it is weak fairness of the
builder. A call that has begun runs to its end, and the documented use of the
builder is to call it again while it returns a positive value. Elements to
append are finitely many in the instance, as they are for a caller. Nothing else here
has to happen eventually: a library does not act on its own.

### Disagreements

`include/udata.h:31-32` draws `nftnl_udata_len()` inside `nftnl_udata_size()`.
`nftnl_udata_put` (`src/udata.c:77`) refuses an attribute only if it is longer
than the whole buffer, so two attributes that fit one by one end past it, and
`nftnl_udata_buf_put` (`src/udata.c:56`) sets the end behind the buffer when the
data is longer. `udata_end` shows the first: its caller never copies a buffer, and its trace is one of
two attributes, without a value and with three bytes, that end one byte past a buffer of six.

The flags of a tunnel are sent as 32 bits in network order and the callback
insists on 32 bits (`src/obj/tunnel.c:155`), but the parser reads one byte of
them (line 521), the most significant: `tunnel_flags`.

`tests/nft-flowtable-test.c` sets the use count of a flowtable (line 65) and
insists that the reader has the same (lines 33-35). `nftnl_flowtable_set_data` and
`nftnl_flowtable_get_data` have no case for it, so both sides read 0:
`flowtable_use`. (The test compares two zeros.)

Two more were met on the way and have no run of their own. The comments on
attributes in `include/linux/netfilter/nf_tables.h` give NFTA_LOG_GROUP (line
1218) and NFTA_LOG_QTHRESHOLD (1221) 32 bits and NFTA_QUOTA_BYTES (1294) 16,
where `src/expr/log.c` and `src/expr/quota.c` write and demand 16 and 64, as
`tests/nft-expr_log-test.c:65` does. The group policy of VXLAN is put directly into
the nest of the options (`src/obj/tunnel.c:231`) where the reader, by its
callback (lines 448-451), takes attribute 1 for a nest; `Exact` of `StatefulObject`
names what the reader has then.

The following contradict no text of the repository and are stated by the passing runs as what
the code does, with the condition under which it happens:

- an object whose type the library does not know keeps the bit of its type, and
  building it uses NULL (`src/object.c:97`, 250; `Dangles`);
- a list handed to a ruleset twice is freed and kept (`src/ruleset.c:110`; `Owned`);
- the probe leaves its socket open if it cannot bind or send
  (`src/common.c:121`, 140; `NoSocketLeft`);
- the probe takes the answer to another message for its own if a sequence number is zero
  (`src/common.c:114`; `EvenWrapped`);
- the count of fields of a concatenation grows whenever the description is set
  or parsed again (`src/set.c:194`, 575; `NoFault` of `SetDesc`);
- a value stored over the pointer of a chain is later freed
  (`src/set_elem.c:151`; `NoFault` of `ElemData`);
- the tables of verdict attributes are read uninitialised (`src/expr/data_reg.c:129`,
  `src/trace.c:301`);
- the size of a flowtable is stored and never sent (`Lost` of `PlainObject`).

## Proofs

All of this is for every value of the constants; the assumptions are named in the
modules that declare them and TLC evaluates them in the runs.

**How induction is done.** The installed provers cannot instantiate a theorem
whose parameter is an operator, so `ListLemmas` states induction over a set:
a set that holds 0 and with each number its successor holds them all. What is to
be proved is made such a set, `T == {n \in Nat : ...}`, and hidden. A recursive function is
unfolded in three steps: a predicate says what its steps are (`FollowSteps`,
`OnlySteps`, `FlatSteps`, `NthSteps`, `AddSteps`, `ParseSteps`), one lemma says that at most one function has
these steps, another that there is one; what the definition chooses is then that one.
`SeqParts` has the two operators on sequences that models and proofs share: the part of a sequence
that is in a set, and the joining of sequences.

`ListLemmas` proves what one insertion and one deletion do to the links of
any set of nodes: from `Ring(l, S)` the first leads to `Ring` on `S` with the
new entry, the second to `Ring` on `S` without the old one. It then says the same of
the sequence read off the links: `IsList(l, h, s, R)` holds if the loop over the list of `h` visits
`s`, which has each of `R` once; an insertion puts the new entry at its place in `s`, a deletion takes
one out, and a write to other nodes changes nothing. `Chained` does this for hash chains, whose
entries are linked by the place that points to them.

`ChainRulesProofs` proves, for any finite set of rules and any sets of chains and walks,

- `TypeCorrect`: `Spec => []TypeOK`
- `ListsStayWellFormed`: `Spec => []RingIntegrity`
- `WalksNeverDangle`: `Spec => []NoDanglingWalk`
- `ListsHoldTheirRules`: `Spec => []ListHoldsRules`
- `WalksAreExact`: `Spec => []WalkExact`
- `ListsAreSequences`: `Spec => ImplementsRuleSeqs`

from `NodesAssumption` (chains, rules and the poison values are different) and
`FiniteAssumption` (memory is finite: a loop over a list ends). For the first three the
inductive invariant `IInv` is their conjunction. None is inductive alone: a
walk moves to `link.next` of its rule, which is a rule of the same chain only
because of the rings; freeing a chain leaves the other rings intact only because no
link leads from one chain into another, the third part of `RingIntegrity`; and
the links are nodes and not poison only because of the rings again. The
induction has one lemma for each kind of step: `Put` for the four insertions,
`DelIInv` for deletion, `Release` for everything that frees or zeroes,
`MoveWalk` for the walks.

The rings say nothing of order, so the other three need more. `FullInv` adds that
the sequence of every list has each of its rules once (`ListsExact`) and what is left to each walk:
`Exact` cuts the sequence at the rule saved by the walk, and says that of the rules that were in the list
since the lap began those in front of the cut have been handed out, in their order, and those behind have not.
Each call is then an edit of sequences (`PutFull`, `DelFull`, `MoveFull`, `FreeFull`): a rule deleted or put in
anywhere changes what is in front of the cut or behind it but not the cut, since the saved rule itself
may not be deleted. The end of a lap, recognised by comparing with the first rule (`Wraps`), is the end of the
sequence because no rule is in it twice. The refinement reads the same sequences: `AbsNext` has a step for each call.

`ChainListProofs` proves `IndexStaysIntact` (`Spec => []IndexIntegrity`) and `LookupsAreExact`
(`Spec => LookupExact`, an action property) for any finite set of chains, any names, buckets and hash.
The loop over a bucket finds a chain only if the pointers of the bucket lead to it, so the invariant gives, for the list and
for each bucket, the sequence that hangs together from its first pointer (`Listing`, `Indexing`): that of a bucket is the part of `recent`,
the chains from the last added on, whose name hashed into it when they were added. Deletion is the step that needs
it: `hlist_del` writes through the pointer to a pointer of its node without knowing the bucket, which may not be
that of the present name any more, and only the sequences say that what it writes to belongs to
the bucket the chain was added to, and to no other.

`ObjectsProofs` proves of tables, chains, rules, sets, elements and flowtables, for any attributes set and unset in any order,
lists of expressions of any length and any number of messages read into one object,

- `MergedHolds`: `Spec => []Merged`
- `PartialParseHolds`: `Spec => []PartialParse`

`TablesAgree` is, here too, all that the proof needs of the tables, with one lemma for each type: no two attributes share a place in a message,
what is put into a place is taken from it into the attribute it came from, what is put passes the callbacks (so that `NeverBreaks`),
what is put is what `Sent` says (`Goes`), and an object with just what was sent puts the same again (`Again`, from which `Relay` follows).
The last two are where chains and rules need a proof of their own: a hook that is only sent whole, devices that
are not sent beside a device, counters and compatibility in pairs; in the other types no attribute looks at another (`NoConditions`).
`WholeIs` and `PartialIs` say what one message does to an object, whatever it had. `Core` is what a reader has after a sequence of objects,
and `CoreSteps` its induction step: the value of an attribute is that of the last object that sent it. The invariant, `PlainInv`, does not
repeat the properties: it says that the object of the reader came from one with `Core` by parsing one message (`Answered`),
and that objects are numbered as they are read. Both are needed: after a failure `Merged` says nothing of what was there before, and
`PartialParse` tells what is new by its number. `ExprsOf` is a recursive function on sequences, so that its equations are proved first (`ExprsOfMore`).

`ObjectsProofs` also proves, of stateful objects of all nine types, for any number of attributes set under any types in any order,

- `StoredHolds`: `Spec => []Stored`

`Layout` is what this needs of the tables, one lemma per type: every field lies in the union, and two fields of a type are
apart (`Apart`) or are alternatives of a tunnel. The rest is about bytes: what is stored in a field is read from it (`StoreIs`), a text up to
its NUL, and fields apart from it read as before (`StoreApart`). The type changes while attributes are set, so
`StatefulInv` speaks of the type under which the program set them (`said`), not of the type of the object; and it keeps a message to be that of the object
and what a reader has to be what it reads from it, from which the rest follows: memory is filled step by step by a fold (`FilledIs`) that
keeps its size, and the bit of the type is set only with a type (`ParseShape`).

`ObjectsProofs` also proves, for any set of elements of any sizes and any limit,
`DumpTypeCorrect`, `NestsFit`, `DumpsAreExact`, `DumpsAreComplete` (the action
property `DumpComplete`), `DumpIsStream` and `OversizeStallsForever`. `DumpIInv` says
where the cursor stands: one behind the element about to be written, which is
the first that is not written yet. Without that, exactness is not inductive:
taking an element back moves the cursor to the previous node, and only the place of
the cursor says that this is the element just refused. The iterator knows the end of a lap
by arriving at the first element again, which needs distinct elements and a list
head that is none of them (`DumpAssumption`). `DumpIsStream` is the safety part of the
refinement of `ElemStream`, in which nothing is sent from an element on that is too long by its `nla_len`;
an element that wraps to a short one goes out (`NlaLenIs` is what the proofs know of the modulus).
`OversizeStallsForever` adds, with an invariant of its own (`Stuck`), that the builder then never
says it is done.

`BatchProofs` proves `TypeCorrect`, `NeverOverruns` and
`PagesAreLog` (the pages are contiguous, each in itself and one after the other) for pages, overruns and messages of any size. `IInv` says of each page
that its messages follow one another and are those of the log from the page's
beginning on, of each two pages that one begins in the log where the other ends,
and of the last that it ends where the log does: an update changes the last page only, and
moving a message to a new page shortens none of the others.
`BatchIsLog` (`Spec => ImplementsMessageLog`) is the refinement: what an iovec shows is the log as it was when it was taken. It needs
that each message of a page begins before the page's length, so that a page of length 0, which
the iovec leaves out, has none, and that messages written later lie behind what an iovec covers (`RInv`); the pages are then joined
one by one (`FlatOfParts`).

It also proves, of `BatchProbe`, `VerdictRight` (with and without a number of zero) and `SocketsClosed`
for any number of sequence numbers above three (`WidthAssumption`). The probe reads
one answer and ends, so the invariant says what the first answer of each kernel
can be and what is made of it; that the numbers of the three messages differ is arithmetic modulo `Width`.

`ObjectMemoryProofs` proves, for all fifteen kinds and however many attributes the program
uses (the run has two at a time),

- `FaultsAreExcused`: `Spec => []NoFault`
- `FlagsMeanMemory`: `Spec => []FlagMeansMemory`
- `LeaksAreExplained`: `Spec => []LeaksOnly`
- `ToldIsTrue`: `Spec => []ToldTruth`

The proof separates the tables from the calls. `TablesAgree` is what the functions of one kind must agree on
for memory to be safe, table against table: an attribute released whatever its bit says must be one
that cannot be unset, a setter that may leave a bit without memory needs a destructor
that expects it or a habit that excuses it, a parser that stores over what it finds loses it, every attribute is stored once, and so on.
`AllAgree` goes through the fifteen kinds; nothing else in the proof looks at them, so a new kind, or a changed switch, is a matter
of that lemma. `IInv` says of an object that what went wrong is excused (`Excused`), and of one that lives that each bit means memory or, after
a failed allocation, NULL, that each block has a bit or is among those that get lost, that a freed block
is pointed to only in kinds that can unset (`Kept`), and that no expression is linked that was released (`Linked`). The last two
of `Kept` are not among the properties, and these are not inductive without them: a setter releases by the bit or by the
pointer, and is right only if the two tell the same. A message is read part by part, and what holds between two parts
(`Midway`) is proved by induction over the order of the parser: the parts to come are untouched, those done have arrived, and when it stops
in the middle of an expression, whose structure alone is then freed, nothing is lost that is not explained.

`ExprWireProofs` proves, for all 39 types, any attributes set in any order and lists of any length,

- `ArrivesExactly`: `Spec => []Exact`
- `NeverExits`: `Spec => []NoExit`
- `RefusedFor`: `Spec => []Refused`
- `SettlesAtOnce`: `Spec => []Settled`

Again the tables are separated from their meaning. `TablesAgree` is what the four functions of one type must agree on:
each field can be set, has a number, and is put under it by one row of the builder in a way that fits its width;
the parser has a row for each of these and no other, which undoes what the builder did and sets the bit of the same attribute,
by whichever numbering; the callback insists on a type that such a value passes. Data attributes are numbered in one order
in all types (`DataInOrder`), since of several the last to be parsed decides. There is one lemma per type and nothing else looks at the tables.
From the agreement follow what a message has (`BuildIs`), what is read from it (`FromTableIs`, with `ReadBack` for a value: turning
bytes twice, reading a string up to its NUL), when a callback exits (`BreaksIs`) and when data is refused (`DataRefusedIs`);
`dynset` and `immediate` add their exceptions, and `Arrived` says of any result of reading any sound expression all that
the four properties say of it. `IInv` is then short: the expression is `Sound` (bits of its own type, values that fit their fields, no verdict beside data),
a message is that of the expression, and a result is one of reading that message. The properties are not inductive without `Sound`:
an expression that was read may be edited and sent on, so what the reader may have is needed for what it will send.
`Arrives` is about any value of a field's width, any name without a NUL and any data; the specification sets fields to those of `Values`.

`BoundsAssumption` asks for room for one expression in the list of a dynset: `set_expr` puts one there whatever was there.

`PartsProofs` proves of the four parts, which `Parts` puts side by side,

- `PartsOwn`: `Spec => []Owned`
- `UnionsArrive`: `Spec => []UnionExact`
- `DescriptionsArrive`: `Spec => []DescExact`
- `TracesAreExact`: `Spec => []TraceExact`

for any lists, objects and sizes, any chains, codes, values and number of elements, any number of fields, and
any attributes and number of messages. `Sound` (`SpecIsSound`) is an invariant for the part that runs:

- *Rulesets* (`RulesInv`): until a list is handed over twice the lists that are the ruleset's are exactly those its bits
  claim (`Claims`), and the pointer of a bit leads to a list of the bit's kind. `Owned` alone is not inductive: without the kinds
  two bits could have one list, and its release by one would leave the other with a list that is freed.
- *Elements* (`MineInv`): what the words of the union are for each attribute that claims them, and that, unless a value was stored over
  it, the chain that is marked is the one name that is allocated. `RemoteInv` says what the builder makes of an element with this union (`SentAs`), and
  that the reader has each element by that rule up to the first it refuses; the uninitialised entries of its
  table matter only to elements that were refused already or sent over a torn union.
- *Descriptions* (`DescMine`, `DescTheirs`): behind the number there are only zeros, and the number has moved by one place at most, beyond
  the number of fields, each time a description was set. So the count, which is looked for from the old number on,
  finds a zero in the padding as long as `NoFault` says. Reading is an induction over the fields (`AddsAll`).
- *Traces* (`TraceInv`): the properties, and the types. Most of the proof is about one message: `Going` holds before each of its attributes
  for the trace as it is then, whatever it held; `Exactly` says which attributes a new trace has by then, and that the parser
  has stopped exactly if one of those behind it was a name without memory. Both are proved by induction along the order in which
  the parser stores, and `DoneFacts` turns what holds at the end into `Exact`.

The statements about traces had to be changed for this: `NoFault`, `MarkedIsThere` and `LeaksOnly` were once about the last message
only, which TLC confirmed for two messages and the induction refused for any number; three messages show why (see Trace).

Only model-checked, and why:

- liveness: `Terminates` of the probe and the fairness of `ElemStream`, which need `ENABLED`;
- `NoExit` and `Exact` of stateful objects: they say that tables of
  numbers agree with each other over all types and attributes, as in `ExprWire`, and the way of `ExprWireProofs` would do for
  them. It is longer there: types change while attributes are set, all share one union, and tunnels nest.
  The tables are finite and TLC goes through all of them, with as many attributes at a time as the bounds say;
- `RoundTrip` of `Udata`: that reading undoes writing for trees of any depth is an induction over the
  tree, in which a nest is a sequence of attributes that may be nests;
- `TextExact` of `Ruleset`: it says what the folds over lists and objects compute, character by character;

## Plan

Done: lists, rules and walks, the chain list, the set dump and the batch, each with its proofs and refinements;
user data; the memory of all objects and expressions with its proofs; the messages of all
expressions with their proofs, and of all objects, those of the other objects than stateful ones with their proofs; the description of concatenated sets, the data of elements, rulesets and
traces with their proofs; the batch probe with its proofs. Left:

1. The iterators and foreach of the other lists (tables, sets, flowtables,
   objects, the rule list), which repeat the code of `ChainRules`, and the
   insertion of the rule list after its position.
2. The proofs of `ExprWireProofs` for `StatefulObject`.

Not modelled: the wording of text output (`snprintf` functions, name tables of
`src/utils.c`), which has no state; the parsers of text formats, which are stubs
that return `EOPNOTSUPP`, and with them `nftnl_ruleset_cb` and the context
functions of `src/ruleset.c`, which only those parsers would call;
`nftnl_set_clone`, `nftnl_set_elem_clone` and `nftnl_set_lookup_id`, which are
not exported and have no caller; the generation, one number that is copied; the
examples.

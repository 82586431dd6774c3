--------------------------------- MODULE Batch ---------------------------------
(***************************************************************************)
(* A batch of netlink messages, src/batch.c: a list of pages, each of them *)
(* a buffer of page_size bytes and page_overrun_size more.  The caller     *)
(* builds a message where nftnl_batch_buffer points, behind the last one,  *)
(* and calls nftnl_batch_update: the message is kept where it is, or, if   *)
(* it crosses the page size, is copied to a new page.  At the end the      *)
(* pages are handed to the socket as an iovec.                             *)
(*                                                                         *)
(* The batch inside a page is libmnl's mnl_nlmsg_batch: a limit, a length  *)
(* and a current position that is the length.                              *)
(***************************************************************************)

EXTENDS SeqParts, SequencesExt

CONSTANTS Msgs,
          Size,              \* nlmsg_len of a message
          page_size,
          page_overrun_size,
          MaxPages,          \* bound of the model: pages of one batch
          NULL

ASSUME BatchAssumption ==
    /\ Size \in [Msgs -> Nat \ {0}]
    /\ page_size \in Nat /\ page_overrun_size \in Nat
    /\ MaxPages \in Nat \ {0}
    /\ NULL \notin Msgs

VARIABLES
    pages,    \* page_list: [len, from, msgs], the last is current_page
    pending,  \* the message the caller has built and not updated, or NULL
    log,      \* auxiliary: the messages counted by a page, in order
    iov,      \* the iovec of the last nftnl_batch_iovec: [page, len]
    ret       \* what the last nftnl_batch_update returned

vars == << pages, pending, log, iov, ret >>

(***************************************************************************)
(* A page counts len bytes: msgs are its messages, each at its offset.     *)
(* from (auxiliary) is the number of messages counted by earlier pages.    *)
(***************************************************************************)
EmptyPage == [len |-> 0, from |-> Len(log), msgs |-> <<>>]

Current == pages[Len(pages)]

\* Mutant: the limit is the size of the buffer.
Fits_Overrun(page, m) == page.len + Size[m] <= page_size + page_overrun_size

\* mnl_nlmsg_batch_next: false, and no change, if the limit is crossed.
Fits(page, m) == page.len + Size[m] <= page_size

\* Mutant: a refused message is taken off a length it was never added to.
batch_next_Undoes(page, m) ==
    IF Fits(page, m)
    THEN [page EXCEPT !.len = @ + Size[m],
                      !.msgs = Append(@, [msg |-> m, at |-> page.len])]
    ELSE [page EXCEPT !.len = @ - Size[m]]

batch_next(page, m) ==
    IF Fits(page, m)
    THEN [page EXCEPT !.len = @ + Size[m],
                      !.msgs = Append(@, [msg |-> m, at |-> page.len])]
    ELSE page

Init ==
    /\ pages = <<>> /\ pending = NULL /\ log = <<>> /\ iov = <<>> /\ ret = 0

\* nftnl_batch_alloc; if either allocation fails there is no batch.
batch_alloc ==
    /\ pages = <<>>
    /\ pages' = <<EmptyPage>>
    /\ UNCHANGED << pending, log, iov, ret >>

batch_free ==
    /\ pages # <<>>
    /\ pages' = <<>> /\ pending' = NULL /\ log' = <<>> /\ iov' = <<>> /\ ret' = 0

\* The caller builds m at nftnl_batch_buffer, over a message that was refused
\* perhaps.  Its contract is that m is no longer than the overrun.
write(m) ==
    /\ pages # <<>> /\ m \notin ToSet(log) /\ m # pending
    /\ pending = NULL \/ ret = -1
    /\ Size[m] <= page_overrun_size
    /\ pending' = m
    /\ UNCHANGED << pages, log, iov, ret >>

\* The message fits: mnl_nlmsg_batch_next moves the current position.
update_fits ==
    /\ pending # NULL /\ Fits(Current, pending)
    /\ pages' = [pages EXCEPT ![Len(pages)] = batch_next(@, pending)]
    /\ log' = Append(log, pending)
    /\ pending' = NULL /\ ret' = 0
    /\ UNCHANGED iov

\* Mutant: the message is not copied.
update_newpage_NoCopy ==
    /\ pending # NULL /\ ~ Fits(Current, pending)
    /\ Len(pages) < MaxPages
    /\ pages' = Append(pages, EmptyPage)
    /\ log' = IF Fits(EmptyPage, pending) THEN Append(log, pending) ELSE log
    /\ pending' = NULL /\ ret' = 0
    /\ UNCHANGED iov

\* It does not: it is copied to a new page, and the result of the second
\* mnl_nlmsg_batch_next is not looked at.
update_newpage ==
    /\ pending # NULL /\ ~ Fits(Current, pending)
    /\ Len(pages) < MaxPages
    /\ pages' = Append(pages, batch_next(EmptyPage, pending))
    /\ log' = IF Fits(EmptyPage, pending) THEN Append(log, pending) ELSE log
    /\ pending' = NULL /\ ret' = 0
    /\ UNCHANGED iov

\* There is no memory for the page: nothing changes but the result.
update_nomem ==
    /\ pending # NULL /\ ~ Fits(Current, pending)
    /\ ret' = -1
    /\ UNCHANGED << pages, pending, log, iov >>

\* Mutant: the last page is always skipped.
iovec_len_Less == Len(pages) - 1

\* Pages to send: the last one is skipped if it is empty.
iovec_len == IF Current.len = 0 THEN Len(pages) - 1 ELSE Len(pages)

iovec ==
    /\ pages # <<>>
    /\ iov' = [i \in 1 .. iovec_len |-> [page |-> i, len |-> pages[i].len]]
    /\ UNCHANGED << pages, pending, log, ret >>

Next ==
    \/ batch_alloc \/ batch_free
    \/ \E m \in Msgs : write(m)
    \/ update_fits \/ update_newpage \/ update_nomem
    \/ iovec

Spec == Init /\ [][Next]_vars

-------------------------------------------------------------------------------
(* Properties.                                                             *)

Page == [len : Nat, from : Nat, msgs : Seq([msg : Msgs, at : Nat])]

TypeOK ==
    /\ pages \in Seq(Page)
    /\ pending \in Msgs \cup {NULL}
    /\ log \in Seq(Msgs)
    /\ iov \in Seq([page : Nat, len : Nat])
    /\ ret \in {0, -1}

\* No byte of a message, pending or copied, is written past the end of the
\* buffer of its page, however full the page is (batch.c:37, 117).
NoOverrun ==
    /\ \A p \in DOMAIN pages : pages[p].len <= page_size
    /\ pending # NULL => Current.len + Size[pending] <= page_size + page_overrun_size

\* The messages a page counts follow one another from its start to len without
\* gap or overlap: what a receiver of the bytes would parse (batch.c:106, 118).
Contiguous ==
    \A p \in DOMAIN pages :
        LET msgs == pages[p].msgs
            End(i) == msgs[i].at + Size[msgs[i].msg]
        IN  /\ msgs = <<>> => pages[p].len = 0
            /\ \A i \in DOMAIN msgs :
                  /\ msgs[i].at = IF i = 1 THEN 0 ELSE End(i - 1)
                  /\ i = Len(msgs) => pages[p].len = End(i)

\* The pages split the log: read one after another they hold each message
\* counted once and in order, without gap or overlap, over any number of pages
\* and refused updates (batch.c:101-123).
InOrder ==
    \A p \in DOMAIN pages :
        /\ pages[p].from = IF p = 1 THEN 0
                           ELSE pages[p - 1].from + Len(pages[p - 1].msgs)
        /\ \A i \in DOMAIN pages[p].msgs :
              /\ pages[p].from + i \in DOMAIN log
              /\ pages[p].msgs[i].msg = log[pages[p].from + i]
        /\ p = Len(pages) => Len(log) = pages[p].from + Len(pages[p].msgs)

PagesSplitLog == Contiguous /\ InOrder

\* The messages of one page that begin before len, and what they are.
Within(msgs, len) == Only(msgs, {x \in ToSet(msgs) : x.at < len})
MsgsOf(entries) == [j \in DOMAIN entries |-> entries[j].msg]

\* The messages in the bytes an iovec covers, now.
Shown == Flat([i \in DOMAIN iov |-> MsgsOf(Within(pages[iov[i].page].msgs, iov[i].len))])

\* Towards its caller a batch is a log of messages; an iovec taken from it
\* goes on showing what it showed then, however many updates follow
\* (batch.c:101-164).
Abs == INSTANCE MessageLog
         WITH shown <- Shown, Holdable <- {m \in Msgs : Size[m] <= page_size}

ImplementsMessageLog == Abs!Spec
===============================================================================

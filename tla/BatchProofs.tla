------------------------------ MODULE BatchProofs ------------------------------
(***************************************************************************)
(* For messages of any sizes and pages of any size: no message is written  *)
(* past the end of a buffer, the messages of a page follow one another     *)
(* without gap or overlap, and the pages, read one after another, are the  *)
(* log.  The induction is over calls: a page is changed only while it is   *)
(* the last one, so what was true of the others stays true, and where a    *)
(* new page begins is known from how the one before it ends.               *)
(*                                                                         *)
(* The second half is the refinement of MessageLog.  RInv adds to IInv     *)
(* that every message of a page begins before the length of the page, and  *)
(* that what an iovec was given is still there: with it, what the iovec    *)
(* shows, page by page, is the log as it was when it was taken.            *)
(*                                                                         *)
(* The last part is about the probe for batches, for any number of         *)
(* sequence numbers, at any time of day and on every kind of kernel: what  *)
(* nftnl_batch_is_supported tells.  It reads one answer, the first, and    *)
(* ends: so ProbeIInv says what the first answer can be, and, once it has  *)
(* been read, what was made of it.                                         *)
(***************************************************************************)

EXTENDS Batch, BatchProbe, ListLemmas

\* Where the message number i of a page ends.
End(msgs, i) == msgs[i].at + Size[msgs[i].msg]

\* What Contiguous says of one page, and that it keeps within its limit.
PageOK(page) ==
    /\ page.len <= page_size
    /\ page.msgs = <<>> => page.len = 0
    /\ \A i \in DOMAIN page.msgs :
          /\ page.msgs[i].at = IF i = 1 THEN 0 ELSE End(page.msgs, i - 1)
          /\ i = Len(page.msgs) => page.len = End(page.msgs, i)

\* The messages of a page are those of a log from the page's beginning on.
InLog(page, l) ==
    \A i \in DOMAIN page.msgs :
        /\ page.from + i \in DOMAIN l
        /\ page.msgs[i].msg = l[page.from + i]

Ends(page) == page.from + Len(page.msgs)

IInv ==
    /\ TypeOK
    /\ \A p \in DOMAIN pages : PageOK(pages[p]) /\ InLog(pages[p], log)
    /\ \A p \in DOMAIN pages :
          pages[p].from = IF p = 1 THEN 0 ELSE Ends(pages[p - 1])
    /\ pages # <<>> => Len(log) = Ends(Current)
    /\ pages = <<>> => pending = NULL /\ log = <<>>
    /\ pending # NULL => Size[pending] <= page_overrun_size

-------------------------------------------------------------------------------

\* Counting one more message keeps a page in order.
LEMMA NextOnPage ==
    ASSUME NEW page \in Page, NEW m \in Msgs, PageOK(page), Fits(page, m)
    PROVE  /\ batch_next(page, m) \in Page
           /\ PageOK(batch_next(page, m))
           /\ batch_next(page, m).from = page.from
           /\ batch_next(page, m).msgs = Append(page.msgs, [msg |-> m, at |-> page.len])
  <1> USE BatchAssumption
  <1> DEFINE e == [msg |-> m, at |-> page.len]
  <1>1. /\ page.len \in Nat /\ page.from \in Nat
        /\ page.msgs \in Seq([msg : Msgs, at : Nat])
        /\ e \in [msg : Msgs, at : Nat] /\ Size[m] \in Nat
        /\ e.msg = m /\ e.at = page.len
    BY DEF Page
  <1> HIDE DEF e
  <1>2. PICK ms : ms = Append(page.msgs, e)
    OBVIOUS
  <1>3. PICK q : q = batch_next(page, m)
    OBVIOUS
  <1>4. ms \in Seq([msg : Msgs, at : Nat])
    BY <1>1, <1>2
  <1>5. q = [len |-> page.len + Size[m], from |-> page.from, msgs |-> ms]
    BY <1>1, <1>2, <1>3 DEF batch_next, Page, e
  <1>6. q \in Page
    BY <1>1, <1>4, <1>5 DEF Page
  <1>7. /\ Len(ms) = Len(page.msgs) + 1
        /\ DOMAIN ms = 1 .. Len(page.msgs) + 1
        /\ ms[Len(page.msgs) + 1] = e
        /\ \A i \in 1 .. Len(page.msgs) : ms[i] = page.msgs[i]
    BY <1>1, <1>2
  <1>8. \A i \in 1 .. Len(page.msgs) : End(ms, i) = End(page.msgs, i)
    BY <1>7 DEF End
  <1>9. End(ms, Len(page.msgs) + 1) = page.len + Size[m]
    BY <1>1, <1>7 DEF End
  <1>10. ASSUME NEW i \in DOMAIN ms
         PROVE  ms[i].at = IF i = 1 THEN 0 ELSE End(ms, i - 1)
    <2>1. CASE i \in 1 .. Len(page.msgs)
      <3>1. page.msgs[i].at = IF i = 1 THEN 0 ELSE End(page.msgs, i - 1)
        BY <1>1, <2>1 DEF PageOK
      <3>2. i # 1 => i - 1 \in 1 .. Len(page.msgs)
        BY <1>1, <2>1
      <3> QED BY <1>7, <1>8, <2>1, <3>1, <3>2
    <2>2. CASE i = Len(page.msgs) + 1
      <3>1. ms[i].at = page.len
        BY <1>1, <1>7, <2>2
      <3>2. CASE page.msgs = <<>>
        BY <3>1, <3>2, <2>2 DEF PageOK
      <3>3. CASE page.msgs # <<>>
        <4>1. /\ Len(page.msgs) \in DOMAIN page.msgs /\ Len(page.msgs) \in 1 .. Len(page.msgs)
              /\ i # 1 /\ i - 1 = Len(page.msgs)
          BY <1>1, <2>2, <3>3
        <4>2. page.len = End(page.msgs, Len(page.msgs))
          BY <4>1 DEF PageOK
        <4> QED BY <1>8, <3>1, <4>1, <4>2
      <3> QED BY <3>2, <3>3
    <2> QED BY <1>1, <1>7, <2>1, <2>2
  <1>11. q.len <= page_size /\ ms # <<>>
    BY <1>1, <1>5, <1>7 DEF Fits
  <1>12. PageOK(q)
    BY <1>1, <1>5, <1>7, <1>9, <1>10, <1>11 DEF PageOK
  <1> QED BY <1>2, <1>3, <1>5, <1>6, <1>12 DEF e

\* A page with nothing in it.
LEMMA EmptyIsPage ==
    ASSUME TypeOK
    PROVE  /\ EmptyPage \in Page /\ PageOK(EmptyPage)
           /\ EmptyPage.from = Len(log) /\ EmptyPage.msgs = <<>>
  BY BatchAssumption DEF TypeOK, EmptyPage, Page, PageOK

\* Pages that were in the log still are when a message is appended to it.
LEMMA LogGrows ==
    ASSUME NEW l \in Seq(Msgs), NEW page \in Page, NEW m \in Msgs, InLog(page, l)
    PROVE  InLog(page, Append(l, m))
  <1>1. ASSUME NEW i \in DOMAIN page.msgs
        PROVE  /\ page.from + i \in DOMAIN Append(l, m)
               /\ page.msgs[i].msg = Append(l, m)[page.from + i]
    <2>1. page.from + i \in DOMAIN l /\ page.msgs[i].msg = l[page.from + i]
      BY DEF InLog
    <2> QED BY <2>1
  <1> QED BY <1>1 DEF InLog

\* A batch begins as one empty page.
LEMMA InitIInv == Init => IInv
  BY BatchAssumption DEF Init, IInv, TypeOK

\* A page that ends where the log does, with one more message on both.
LEMMA MessageLogged ==
    ASSUME NEW l \in Seq(Msgs), NEW page \in Page, NEW m \in Msgs,
           PageOK(page), Fits(page, m), InLog(page, l), Len(l) = Ends(page)
    PROVE  /\ InLog(batch_next(page, m), Append(l, m))
           /\ Len(Append(l, m)) = Ends(batch_next(page, m))
  <1>1. PICK q : q = batch_next(page, m)
    OBVIOUS
  <1> DEFINE e == [msg |-> m, at |-> page.len]
             k == Len(page.msgs)
  <1>2. /\ q.from = page.from /\ q.msgs = Append(page.msgs, e)
        /\ page.msgs \in Seq([msg : Msgs, at : Nat]) /\ page.from \in Nat
        /\ e \in [msg : Msgs, at : Nat] /\ e.msg = m
    BY <1>1, NextOnPage DEF Page
  <1> HIDE DEF e
  <1>3. /\ Len(q.msgs) = k + 1 /\ DOMAIN q.msgs = 1 .. k + 1
        /\ q.msgs[k + 1] = e
        /\ \A i \in 1 .. k : q.msgs[i] = page.msgs[i]
    BY <1>2
  <1>4. Len(l) = page.from + k /\ Len(Append(l, m)) = page.from + (k + 1)
    BY <1>2 DEF Ends
  <1>5. ASSUME NEW i \in DOMAIN q.msgs
        PROVE  /\ q.from + i \in DOMAIN Append(l, m)
               /\ q.msgs[i].msg = Append(l, m)[q.from + i]
    <2>1. CASE i \in 1 .. k
      <3>1. InLog(page, Append(l, m)) /\ i \in DOMAIN page.msgs
        BY <1>2, <2>1, LogGrows
      <3>2. /\ page.from + i \in DOMAIN Append(l, m)
            /\ page.msgs[i].msg = Append(l, m)[page.from + i]
        BY <3>1 DEF InLog
      <3> QED BY <1>2, <1>3, <2>1, <3>2
    <2>2. CASE i = k + 1
      BY <1>2, <1>3, <1>4, <2>2
    <2> QED BY <1>3, <2>1, <2>2
  <1>6. InLog(q, Append(l, m))
    BY <1>5 DEF InLog
  <1>7. Len(Append(l, m)) = Ends(q)
    BY <1>2, <1>3, <1>4 DEF Ends
  <1> QED BY <1>1, <1>6, <1>7

\* An update that leaves the message on its page.
LEMMA FitsIInv ==
    ASSUME IInv, update_fits
    PROVE  IInv'
  <1> USE BatchAssumption
  <1>1. /\ TypeOK /\ pages \in Seq(Page) /\ log \in Seq(Msgs)
        /\ pending \in Msgs /\ pages # <<>>
        /\ log' = Append(log, pending) /\ log' \in Seq(Msgs)
    BY DEF IInv, TypeOK, update_fits
  <1>2. PICK k \in Nat : k = Len(pages) /\ k \in DOMAIN pages /\ Current = pages[k]
    BY <1>1 DEF Current
  <1>3. PICK q : q = batch_next(pages[k], pending)
    OBVIOUS
  <1>4. /\ pages[k] \in Page /\ PageOK(pages[k]) /\ InLog(pages[k], log)
        /\ Fits(pages[k], pending) /\ Len(log) = Ends(pages[k])
    BY <1>1, <1>2 DEF IInv, update_fits
  <1>5. q \in Page /\ PageOK(q) /\ q.from = pages[k].from
    BY <1>1, <1>3, <1>4, NextOnPage
  <1>6. InLog(q, log') /\ Len(log') = Ends(q)
    BY <1>1, <1>3, <1>4, MessageLogged
  <1>7. /\ pages' \in Seq(Page) /\ DOMAIN pages' = DOMAIN pages /\ Len(pages') = k
        /\ pages'[k] = q
        /\ \A p \in DOMAIN pages \ {k} : pages'[p] = pages[p]
    BY <1>1, <1>2, <1>3, <1>5 DEF update_fits
  <1>8. TypeOK'
    BY <1>1, <1>7 DEF TypeOK, update_fits
  <1>9. \A p \in DOMAIN pages' : PageOK(pages'[p]) /\ InLog(pages'[p], log')
    <2>1. ASSUME NEW p \in DOMAIN pages \ {k}
          PROVE  PageOK(pages[p]) /\ InLog(pages[p], log')
      BY <1>1, LogGrows DEF IInv
    <2> QED BY <1>5, <1>6, <1>7, <2>1
  <1>10. \A p \in DOMAIN pages' :
            pages'[p].from = IF p = 1 THEN 0 ELSE Ends(pages'[p - 1])
    <2>1. ASSUME NEW p \in DOMAIN pages
          PROVE  pages'[p].from = IF p = 1 THEN 0 ELSE Ends(pages'[p - 1])
      <3>1. pages'[p].from = pages[p].from
        BY <1>5, <1>7
      <3>2. p # 1 => p - 1 \in DOMAIN pages \ {k}
        BY <1>1, <1>2
      <3> QED BY <1>7, <3>1, <3>2 DEF IInv
    <2> QED BY <1>7, <2>1
  <1>11. pages' # <<>> /\ Current' = q
    BY <1>2, <1>7 DEF Current
  <1>12. pending' = NULL
    BY DEF update_fits
  <1> QED BY <1>6, <1>8, <1>9, <1>10, <1>11, <1>12 DEF IInv

\* An update that moves the message to a page of its own.
LEMMA NewPageIInv ==
    ASSUME IInv, update_newpage
    PROVE  IInv'
  <1> USE BatchAssumption
  <1>1. /\ TypeOK /\ pages \in Seq(Page) /\ log \in Seq(Msgs)
        /\ pending \in Msgs /\ pages # <<>>
    BY DEF IInv, TypeOK, update_newpage
  <1>2. PICK k \in Nat : k = Len(pages) /\ k \in DOMAIN pages /\ Current = pages[k]
    BY <1>1 DEF Current
  <1>3. PICK q : q = batch_next(EmptyPage, pending)
    OBVIOUS
  <1>4. /\ EmptyPage \in Page /\ PageOK(EmptyPage) /\ InLog(EmptyPage, log)
        /\ EmptyPage.from = Len(log) /\ Len(log) = Ends(EmptyPage)
    BY <1>1, EmptyIsPage DEF InLog, Ends
  <1>5. /\ q \in Page /\ PageOK(q) /\ q.from = Len(log)
        /\ log' \in Seq(Msgs) /\ InLog(q, log') /\ Len(log') = Ends(q)
        /\ log' = Append(log, pending) \/ log' = log
    <2>1. CASE Fits(EmptyPage, pending)
      <3>1. q \in Page /\ PageOK(q) /\ q.from = Len(log)
        BY <1>1, <1>3, <1>4, <2>1, NextOnPage
      <3>2. log' = Append(log, pending)
        BY <2>1 DEF update_newpage
      <3>3. InLog(q, Append(log, pending)) /\ Len(Append(log, pending)) = Ends(q)
        BY <1>1, <1>3, <1>4, <2>1, MessageLogged
      <3> QED BY <1>1, <3>1, <3>2, <3>3
    <2>2. CASE ~ Fits(EmptyPage, pending)
      BY <1>1, <1>3, <1>4, <2>2 DEF update_newpage, batch_next
    <2> QED BY <2>1, <2>2
  <1>6. /\ pages' \in Seq(Page) /\ DOMAIN pages' = 1 .. k + 1 /\ Len(pages') = k + 1
        /\ pages'[k + 1] = q
        /\ \A p \in DOMAIN pages : pages'[p] = pages[p]
        /\ DOMAIN pages = 1 .. k
    BY <1>1, <1>2, <1>3, <1>5 DEF update_newpage
  <1>7. TypeOK'
    BY <1>1, <1>5, <1>6 DEF TypeOK, update_newpage
  <1>8. \A p \in DOMAIN pages' : PageOK(pages'[p]) /\ InLog(pages'[p], log')
    <2>1. ASSUME NEW p \in DOMAIN pages
          PROVE  PageOK(pages[p]) /\ InLog(pages[p], log')
      <3>1. pages[p] \in Page /\ PageOK(pages[p]) /\ InLog(pages[p], log)
        BY <1>1 DEF IInv
      <3> QED BY <1>1, <1>5, <3>1, LogGrows
    <2> QED BY <1>5, <1>6, <2>1
  <1>9. \A p \in DOMAIN pages' :
           pages'[p].from = IF p = 1 THEN 0 ELSE Ends(pages'[p - 1])
    <2>1. ASSUME NEW p \in DOMAIN pages
          PROVE  pages'[p].from = IF p = 1 THEN 0 ELSE Ends(pages'[p - 1])
      <3>1. p # 1 => p - 1 \in DOMAIN pages
        BY <1>6
      <3> QED BY <1>6, <3>1 DEF IInv
    <2>2. k + 1 # 1 /\ (k + 1) - 1 = k
      BY <1>1, <1>2
    <2>3. q.from = Ends(pages'[k])
      BY <1>1, <1>2, <1>5, <1>6 DEF IInv
    <2> QED BY <1>6, <2>1, <2>2, <2>3
  <1>10. pages' # <<>> /\ Current' = q
    BY <1>6 DEF Current
  <1>11. pending' = NULL
    BY DEF update_newpage
  <1> QED BY <1>5, <1>7, <1>8, <1>9, <1>10, <1>11 DEF IInv

\* The calls that leave the pages alone.
LEMMA OtherIInv ==
    ASSUME IInv, UNCHANGED << pages, log >>,
           \/ \E m \in Msgs : write(m)
           \/ update_nomem \/ iovec
           \/ UNCHANGED vars
    PROVE  IInv'
  <1> USE BatchAssumption
  <1>1. TypeOK'
    <2>1. CASE \E m \in Msgs : write(m)
      BY <2>1 DEF IInv, TypeOK, write
    <2>2. CASE update_nomem \/ UNCHANGED vars
      BY <2>2 DEF IInv, TypeOK, update_nomem, vars
    <2>3. CASE iovec
      <3>1. pages \in Seq(Page) /\ pages # <<>> /\ iovec_len \in Nat
            /\ iovec_len <= Len(pages)
        BY <2>3 DEF IInv, TypeOK, iovec, iovec_len
      <3>2. ASSUME NEW i \in 1 .. iovec_len
            PROVE  [page |-> i, len |-> pages[i].len] \in [page : Nat, len : Nat]
        <4>1. pages[i] \in Page /\ i \in Nat
          BY <3>1
        <4> QED BY <4>1 DEF Page
      <3>3. PICK S : S = [page : Nat, len : Nat]
        OBVIOUS
      <3>4. \A i \in 1 .. iovec_len : iov'[i] \in S
        BY <2>3, <3>1, <3>2, <3>3 DEF iovec
      <3>5. iov' = [i \in 1 .. iovec_len |-> iov'[i]]
        BY <2>3 DEF iovec
      <3>6. iov' \in Seq(S)
        BY <3>1, <3>4, <3>5
      <3> QED BY <2>3, <3>3, <3>6 DEF IInv, TypeOK, iovec
    <2> QED BY <2>1, <2>2, <2>3
  <1>2. /\ pages' = <<>> => pending' = NULL
        /\ pending' # NULL => Size[pending'] <= page_overrun_size
    BY DEF IInv, write, update_nomem, iovec, vars
  <1> QED BY <1>1, <1>2 DEF IInv, Current

\* Every call on a batch keeps the invariant.
LEMMA NextIInv == IInv /\ [Next]_vars => IInv'
  <1> SUFFICES ASSUME IInv, [Next]_vars PROVE IInv'
    OBVIOUS
  <1>1. CASE batch_alloc
    <2>1. /\ TypeOK /\ pages' = <<EmptyPage>> /\ log' = <<>> /\ log = <<>>
          /\ pending' = NULL /\ iov' = iov /\ ret' = ret
      BY <1>1 DEF IInv, batch_alloc
    <2>2. PICK q : q = EmptyPage /\ q \in Page /\ PageOK(q) /\ q.from = 0
                   /\ q.msgs = <<>>
      BY <2>1, EmptyIsPage
    <2>3. /\ pages' \in Seq(Page) /\ DOMAIN pages' = {1} /\ pages'[1] = q
          /\ Len(pages') = 1
      BY <2>1, <2>2
    <2>4. InLog(q, log') /\ Len(log') = Ends(q)
      BY <2>1, <2>2 DEF InLog, Ends
    <2>5. TypeOK'
      BY <2>1, <2>3 DEF TypeOK
    <2>6. Current' = q
      BY <2>3 DEF Current
    <2> QED BY <2>1, <2>2, <2>3, <2>4, <2>5, <2>6 DEF IInv
  <1>2. CASE batch_free
    BY <1>2, BatchAssumption DEF batch_free, IInv, TypeOK
  <1>3. CASE (\E m \in Msgs : write(m)) \/ update_nomem \/ iovec \/ UNCHANGED vars
    BY <1>3, OtherIInv DEF write, update_nomem, iovec, vars
  <1> QED BY <1>1, <1>2, <1>3, FitsIInv, NewPageIInv DEF Next

-------------------------------------------------------------------------------

\* The type invariant, for messages and pages of any size.
THEOREM TypeCorrect == Spec => []TypeOK
  <1>1. IInv => TypeOK
    BY DEF IInv
  <1> QED BY <1>1, InitIInv, NextIInv, PTL DEF Spec

\* No byte of a message, pending or copied, is written past the end of the
\* buffer of its page (batch.c:37, 97, 117).
THEOREM NeverOverruns == Spec => []NoOverrun
  <1>1. IInv => NoOverrun
    <2> SUFFICES ASSUME IInv PROVE NoOverrun
      OBVIOUS
    <2>1. \A p \in DOMAIN pages : pages[p].len \in Nat /\ pages[p].len <= page_size
      <3>1. \A p \in DOMAIN pages : pages[p] \in Page
        BY DEF IInv, TypeOK
      <3> QED BY <3>1 DEF IInv, Page, PageOK
    <2>2. pending # NULL => /\ Len(pages) \in DOMAIN pages
                            /\ Size[pending] \in Nat
                            /\ Size[pending] <= page_overrun_size
      BY BatchAssumption DEF IInv, TypeOK
    <2> QED BY <2>1, <2>2, BatchAssumption DEF NoOverrun, Current
  <1> QED BY <1>1, InitIInv, NextIInv, PTL DEF Spec

\* Read one after another the pages hold each message counted once, without
\* gap or overlap and in order, over any number of pages and refused updates (batch.c:101-123).
THEOREM PagesAreLog == Spec => []PagesSplitLog
  <1>1. IInv => PagesSplitLog
    <2> SUFFICES ASSUME IInv PROVE PagesSplitLog
      OBVIOUS
    <2>1. ASSUME NEW p \in DOMAIN pages
          PROVE  /\ pages[p].from = IF p = 1 THEN 0
                                    ELSE pages[p - 1].from + Len(pages[p - 1].msgs)
                 /\ p = Len(pages) => Len(log) = pages[p].from + Len(pages[p].msgs)
      <3>1. pages # <<>> /\ pages \in Seq(Page)
        BY DEF IInv, TypeOK
      <3> QED BY <3>1 DEF IInv, Ends, Current
    <2>2. Contiguous
      BY DEF IInv, Contiguous, PageOK, End
    <2>3. InOrder
      BY <2>1 DEF IInv, InOrder, InLog
    <2> QED BY <2>2, <2>3 DEF PagesSplitLog
  <1> QED BY <1>1, InitIInv, NextIInv, PTL DEF Spec

-------------------------------------------------------------------------------
(* The refinement of MessageLog: what an iovec shows was the whole log when *)
(* it was taken, and later messages are written behind what it covers.      *)

\* Every message of a page begins before its length, and is in the log.
PageFull(page, l) ==
    /\ \A i \in DOMAIN page.msgs : page.msgs[i].at < page.len
    /\ Ends(page) <= Len(l)

IovOK == \A i \in DOMAIN iov : /\ iov[i].page \in DOMAIN pages
                               /\ iov[i].len <= pages[iov[i].page].len

RInv == /\ IInv
        /\ \A p \in DOMAIN pages : PageFull(pages[p], log)
        /\ IovOK

\* A longer log holds what the log held.
LEMMA FullLonger ==
    ASSUME NEW l \in Seq(Msgs), NEW page \in Page, NEW m \in Msgs, PageFull(page, l)
    PROVE  PageFull(page, Append(l, m))
  <1>1. Len(Append(l, m)) = Len(l) + 1 /\ Len(l) \in Nat /\ Ends(page) \in Nat
    BY DEF Ends, Page
  <1> QED BY <1>1 DEF PageFull

\* Counting one more message keeps a page full.
LEMMA FullNext ==
    ASSUME NEW l \in Seq(Msgs), NEW page \in Page, NEW m \in Msgs,
           PageOK(page), Fits(page, m), InLog(page, l), Len(l) = Ends(page), PageFull(page, l)
    PROVE  /\ PageFull(batch_next(page, m), Append(l, m))
           /\ batch_next(page, m).len = page.len + Size[m]
  <1>1. PICK q : q = batch_next(page, m)
    OBVIOUS
  <1>2. /\ q \in Page /\ q.msgs = Append(page.msgs, [msg |-> m, at |-> page.len])
        /\ q.len = page.len + Size[m]
    BY <1>1, NextOnPage DEF batch_next, Page
  <1>3. Size[m] \in Nat /\ Size[m] > 0 /\ page.len \in Nat
    BY BatchAssumption DEF Page
  <1>4. PICK k \in Nat : k = Len(page.msgs)
    BY DEF Page
  <1>5. /\ DOMAIN q.msgs = 1 .. k + 1 /\ q.msgs[k + 1].at = page.len
        /\ \A i \in 1 .. k : q.msgs[i] = page.msgs[i]
    BY <1>2, <1>4 DEF Page
  <1>6. \A i \in 1 .. k : page.msgs[i].at < page.len /\ page.msgs[i].at \in Nat
    <2>1. page.msgs \in Seq([msg : Msgs, at : Nat]) /\ DOMAIN page.msgs = 1 .. k
      BY <1>4 DEF Page
    <2>2. \A i \in 1 .. k : page.msgs[i].at < page.len
      BY <2>1 DEF PageFull
    <2>3. \A i \in 1 .. k : page.msgs[i] \in [msg : Msgs, at : Nat]
      BY <2>1, EntryOf
    <2> QED BY <2>2, <2>3
  <1>7. \A i \in DOMAIN q.msgs : q.msgs[i].at < q.len
    BY <1>2, <1>3, <1>5, <1>6
  <1>8. Len(Append(l, m)) = Ends(q)
    BY <1>1, MessageLogged
  <1>9. Ends(q) \in Nat
    BY <1>2 DEF Ends, Page
  <1> QED BY <1>1, <1>2, <1>7, <1>8, <1>9 DEF PageFull

\* All of a page is within its length.
LEMMA WithinAll ==
    ASSUME NEW page \in Page, NEW l, PageFull(page, l)
    PROVE  Within(page.msgs, page.len) = page.msgs
  <1>1. PICK ms : ms = page.msgs
    OBVIOUS
  <1>2. ms \in Seq(ToSet(ms))
    BY <1>1 DEF ToSet, Page
  <1>3. ToSet(ms) \subseteq {x \in ToSet(ms) : x.at < page.len}
    BY <1>1 DEF PageFull, ToSet
  <1>4. Only(ms, {x \in ToSet(ms) : x.at < page.len}) = ms
    BY <1>2, <1>3, OnlyAll
  <1> QED BY <1>1, <1>4 DEF Within

\* What was within a length still is when a message follows behind.
LEMMA WithinKept ==
    ASSUME NEW page \in Page, NEW m \in Msgs, NEW len \in Nat, len <= page.len
    PROVE  Within(Append(page.msgs, [msg |-> m, at |-> page.len]), len)
             = Within(page.msgs, len)
  <1>1. PICK ms : ms = page.msgs
    OBVIOUS
  <1>2. PICK e : e = [msg |-> m, at |-> page.len]
    OBVIOUS
  <1>3. PICK E : E = [msg : Msgs, at : Nat]
    OBVIOUS
  <1>4. ms \in Seq(E) /\ e \in E /\ ~ (e.at < len)
    BY <1>1, <1>2, <1>3 DEF Page
  <1>5. PICK T : T = {x \in ToSet(ms) : x.at < len}
    OBVIOUS
  <1>6. PICK t : t = Append(ms, e)
    OBVIOUS
  <1>7. ToSet(t) = ToSet(ms) \cup {e}
    <2>1. /\ DOMAIN t = 1 .. Len(ms) + 1 /\ DOMAIN ms = 1 .. Len(ms) /\ Len(ms) \in Nat
          /\ t[Len(ms) + 1] = e /\ \A i \in 1 .. Len(ms) : t[i] = ms[i]
      BY <1>4, <1>6
    <2>2. ASSUME NEW x \in ToSet(t) PROVE x \in ToSet(ms) \cup {e}
      BY <2>1 DEF ToSet
    <2>3. ASSUME NEW x \in ToSet(ms) PROVE x \in ToSet(t)
      <3>1. PICK i \in 1 .. Len(ms) : x = ms[i]
        BY <2>1 DEF ToSet
      <3>2. i \in DOMAIN t /\ t[i] = x
        BY <2>1, <3>1
      <3> QED BY <3>2 DEF ToSet
    <2>4. e \in ToSet(t)
      BY <2>1 DEF ToSet
    <2> QED BY <2>2, <2>3, <2>4
  <1>8. {x \in ToSet(t) : x.at < len} = T /\ e \notin T
    BY <1>4, <1>5, <1>7
  <1>9. Only(t, T) = Only(ms, T)
    BY <1>4, <1>6, <1>8, OnlyAppend
  <1> QED BY <1>1, <1>2, <1>5, <1>6, <1>8, <1>9 DEF Within

\* What an iovec shows stays the same if each of its pages still holds what
\* it held within the length that is covered.
LEMMA ShownKept ==
    ASSUME iov' = iov,
           \A i \in DOMAIN iov : Within(pages'[iov[i].page].msgs, iov[i].len)
                                   = Within(pages[iov[i].page].msgs, iov[i].len)
    PROVE  Shown' = Shown
  <1>1. [i \in DOMAIN iov |-> MsgsOf(Within(pages'[iov[i].page].msgs, iov[i].len))]
          = [i \in DOMAIN iov |-> MsgsOf(Within(pages[iov[i].page].msgs, iov[i].len))]
    OBVIOUS
  <1> QED BY <1>1 DEF Shown

\* A message that stays on its page is behind what any iovec covers.
LEMMA FitsRInv ==
    ASSUME RInv, update_fits
    PROVE  RInv' /\ Shown' = Shown
  <1> USE BatchAssumption
  <1>1. /\ IInv /\ TypeOK /\ pages \in Seq(Page) /\ log \in Seq(Msgs)
        /\ pending \in Msgs /\ pages # <<>> /\ iov' = iov
        /\ log' = Append(log, pending)
    BY DEF RInv, IInv, TypeOK, update_fits
  <1>2. PICK k \in Nat : k = Len(pages) /\ k \in DOMAIN pages /\ Current = pages[k]
    BY <1>1 DEF Current
  <1>3. PICK page : page = pages[k]
    OBVIOUS
  <1>4. PICK q : q = batch_next(page, pending)
    OBVIOUS
  <1>5. /\ page \in Page /\ PageOK(page) /\ InLog(page, log) /\ PageFull(page, log)
        /\ Fits(page, pending) /\ Len(log) = Ends(page)
    BY <1>1, <1>2, <1>3 DEF RInv, IInv, update_fits
  <1>6. /\ PageFull(q, log') /\ q.len = page.len + Size[pending]
        /\ q.msgs = Append(page.msgs, [msg |-> pending, at |-> page.len])
        /\ q \in Page
    BY <1>1, <1>4, <1>5, FullNext, NextOnPage
  <1>7. /\ DOMAIN pages' = DOMAIN pages /\ pages'[k] = q
        /\ \A p \in DOMAIN pages \ {k} : pages'[p] = pages[p]
    BY <1>1, <1>2, <1>3, <1>4, <1>6 DEF update_fits
  <1>8. \A p \in DOMAIN pages' : PageFull(pages'[p], log')
    <2>1. ASSUME NEW p \in DOMAIN pages \ {k}
          PROVE  PageFull(pages[p], log')
      <3>1. pages[p] \in Page /\ PageFull(pages[p], log)
        BY <1>1 DEF RInv
      <3> QED BY <1>1, <3>1, FullLonger
    <2> QED BY <1>6, <1>7, <2>1
  <1>9. page.len \in Nat /\ Size[pending] \in Nat /\ page.len <= q.len
    BY <1>1, <1>5, <1>6 DEF Page
  <1>10. ASSUME NEW i \in DOMAIN iov
         PROVE  /\ iov[i].page \in DOMAIN pages /\ iov[i].len \in Nat
                /\ iov[i].len <= pages[iov[i].page].len
    <2>1. iov \in Seq([page : Nat, len : Nat])
      BY <1>1 DEF TypeOK
    <2>2. iov[i] \in [page : Nat, len : Nat]
      BY <2>1, EntryOf
    <2> QED BY <2>2 DEF RInv, IovOK
  <1>11. IovOK'
    <2>1. ASSUME NEW i \in DOMAIN iov
          PROVE  iov[i].page \in DOMAIN pages' /\ iov[i].len <= pages'[iov[i].page].len
      <3>1. CASE iov[i].page = k
        <4>1. pages'[iov[i].page].len = q.len /\ q.len \in Nat
          BY <1>6, <1>7, <3>1 DEF Page
        <4> QED BY <1>3, <1>7, <1>9, <1>10, <3>1, <4>1
      <3>2. CASE iov[i].page # k
        BY <1>7, <1>10, <3>2
      <3> QED BY <3>1, <3>2
    <2> QED BY <1>1, <2>1 DEF IovOK
  <1>12. ASSUME NEW i \in DOMAIN iov
         PROVE  Within(pages'[iov[i].page].msgs, iov[i].len)
                  = Within(pages[iov[i].page].msgs, iov[i].len)
    <2>1. CASE iov[i].page = k
      <3>1. iov[i].len \in Nat /\ iov[i].len <= page.len
        BY <1>3, <1>10, <2>1
      <3>2. Within(Append(page.msgs, [msg |-> pending, at |-> page.len]), iov[i].len)
              = Within(page.msgs, iov[i].len)
        BY <1>1, <1>5, <3>1, WithinKept
      <3> QED BY <1>3, <1>6, <1>7, <2>1, <3>2
    <2>2. CASE iov[i].page # k
      BY <1>7, <1>10, <2>2
    <2> QED BY <2>1, <2>2
  <1>13. Shown' = Shown
    BY <1>1, <1>12, ShownKept
  <1> QED BY <1>1, <1>8, <1>11, <1>13, FitsIInv DEF RInv

\* A message that moves to a page of its own leaves the other pages alone.
LEMMA NewPageRInv ==
    ASSUME RInv, update_newpage
    PROVE  RInv' /\ Shown' = Shown
  <1> USE BatchAssumption
  <1>1. /\ IInv /\ TypeOK /\ pages \in Seq(Page) /\ log \in Seq(Msgs)
        /\ pending \in Msgs /\ pages # <<>> /\ iov' = iov
    BY DEF RInv, IInv, TypeOK, update_newpage
  <1>2. PICK k \in Nat : k = Len(pages) /\ DOMAIN pages = 1 .. k
    BY <1>1
  <1>3. PICK e : e = EmptyPage
    OBVIOUS
  <1>4. PICK q : q = batch_next(e, pending)
    OBVIOUS
  <1>5. /\ e \in Page /\ PageOK(e) /\ InLog(e, log) /\ Len(log) = Ends(e)
        /\ e.msgs = <<>> /\ Len(log) \in Nat
    BY <1>1, <1>3, EmptyIsPage DEF InLog, Ends
  <1>6. PageFull(e, log)
    BY <1>5 DEF PageFull
  <1>7. /\ PageFull(q, log')
        /\ q \in Page
        /\ log' = Append(log, pending) \/ log' = log
    <2>1. CASE Fits(e, pending)
      <3>1. log' = Append(log, pending)
        BY <1>3, <2>1 DEF update_newpage
      <3> QED BY <1>1, <1>4, <1>5, <1>6, <2>1, <3>1, FullNext, NextOnPage
    <2>2. CASE ~ Fits(e, pending)
      BY <1>1, <1>3, <1>4, <1>5, <1>6, <2>2 DEF update_newpage, batch_next
    <2> QED BY <2>1, <2>2
  <1>8. /\ DOMAIN pages' = 1 .. k + 1 /\ pages'[k + 1] = q
        /\ \A p \in DOMAIN pages : pages'[p] = pages[p]
    BY <1>1, <1>2, <1>3, <1>4, <1>7 DEF update_newpage
  <1>9. \A p \in DOMAIN pages' : PageFull(pages'[p], log')
    <2>1. ASSUME NEW p \in DOMAIN pages
          PROVE  PageFull(pages[p], log')
      <3>1. pages[p] \in Page /\ PageFull(pages[p], log)
        BY <1>1 DEF RInv
      <3> QED BY <1>1, <1>7, <3>1, FullLonger
    <2> QED BY <1>2, <1>7, <1>8, <2>1
  <1>10. \A i \in DOMAIN iov : /\ iov[i].page \in DOMAIN pages'
                               /\ pages'[iov[i].page] = pages[iov[i].page]
    BY <1>2, <1>8 DEF RInv, IovOK
  <1>11. IovOK'
    BY <1>1, <1>10 DEF RInv, IovOK
  <1>12. Shown' = Shown
    BY <1>1, <1>10, ShownKept
  <1> QED BY <1>1, <1>9, <1>11, <1>12, NewPageIInv DEF RInv

\* The calls that change no page, or none that an iovec covers.
LEMMA OtherRInv ==
    ASSUME RInv,
           batch_alloc \/ (\E m \in Msgs : write(m)) \/ update_nomem \/ UNCHANGED vars
    PROVE  RInv' /\ Shown' = Shown
  <1>1. IInv' /\ IInv /\ TypeOK /\ iov' = iov /\ log' = log
    BY NextIInv DEF RInv, IInv, Next, batch_alloc, write, update_nomem, vars
  <1>2. CASE pages' = pages
    BY <1>1, <1>2, ShownKept DEF RInv, IovOK
  <1>3. CASE batch_alloc
    <2>1. pages = <<>> /\ pages' = <<EmptyPage>> /\ Len(log) \in Nat
      BY <1>1, <1>3 DEF batch_alloc, TypeOK
    <2>2. \A i \in DOMAIN iov : FALSE
      BY <2>1 DEF RInv, IovOK
    <2>3. Shown' = Shown
      BY <1>1, <2>2, ShownKept
    <2>4. PICK e : e = EmptyPage
      OBVIOUS
    <2>5. e.msgs = <<>> /\ e.from = Len(log)
      BY <1>1, <2>4, EmptyIsPage
    <2>6. PageFull(e, log)
      BY <2>1, <2>5 DEF PageFull, Ends
    <2>7. DOMAIN pages' = {1} /\ pages'[1] = e
      BY <2>1, <2>4
    <2> QED BY <1>1, <2>2, <2>3, <2>6, <2>7 DEF RInv, IovOK
  <1> QED BY <1>2, <1>3 DEF write, update_nomem, vars

\* Nothing is shown by an iovec without pages.
LEMMA NothingShown == iov = <<>> => Shown = <<>>
  <1> SUFFICES ASSUME iov = <<>> PROVE Shown = <<>>
    OBVIOUS
  <1>1. [i \in DOMAIN iov |-> MsgsOf(Within(pages[iov[i].page].msgs, iov[i].len))] = <<>>
    OBVIOUS
  <1> QED BY <1>1, FlatOfEmpty DEF Shown

\* A page read up to its length is its part of the log.
LEMMA PageShown ==
    ASSUME NEW l \in Seq(Msgs), NEW page \in Page, InLog(page, l), PageFull(page, l)
    PROVE  MsgsOf(Within(page.msgs, page.len)) = SubSeq(l, page.from + 1, Ends(page))
  <1>1. Within(page.msgs, page.len) = page.msgs
    BY WithinAll
  <1>2. PICK ms : ms = page.msgs
    OBVIOUS
  <1>3. PICK k \in Nat : k = Len(ms) /\ DOMAIN ms = 1 .. k
    BY <1>2 DEF Page
  <1>4. PICK f \in Nat : f = page.from
    BY DEF Page
  <1>5. f + k <= Len(l) /\ Ends(page) = f + k /\ Len(l) \in Nat
    BY <1>2, <1>3, <1>4 DEF PageFull, Ends
  <1>6. PICK a : a = MsgsOf(ms)
    OBVIOUS
  <1>7. PICK b : b = SubSeq(l, f + 1, f + k)
    OBVIOUS
  <1>8. \A i \in 1 .. k : ms[i].msg = l[f + i] /\ f + i \in DOMAIN l
    BY <1>2, <1>3, <1>4 DEF InLog
  <1>9. \A i \in 1 .. k : l[f + i] \in Msgs
    BY <1>8, EntryOf
  <1>10. a = [j \in 1 .. k |-> ms[j].msg]
    BY <1>3, <1>6 DEF MsgsOf
  <1>11. \A i \in 1 .. k : a[i] = l[f + i] /\ a[i] \in Msgs
    BY <1>8, <1>9, <1>10
  <1>12. a \in Seq(Msgs) /\ Len(a) = k
    BY <1>10, <1>11
  <1>13. b \in Seq(Msgs) /\ Len(b) = k /\ \A j \in 1 .. k : b[j] = l[f + j]
    <2>1. f + 1 \in 1 .. Len(l) + 1 /\ f + k \in (f + 1) - 1 .. Len(l)
      BY <1>5
    <2>2. /\ b \in Seq(Msgs) /\ Len(b) = (f + k) - (f + 1) + 1
          /\ \A j \in 1 .. (f + k) - (f + 1) + 1 : b[j] = l[(f + 1) + j - 1]
      BY <1>7, <2>1, Part
    <2>3. (f + k) - (f + 1) + 1 = k /\ \A j \in 1 .. k : (f + 1) + j - 1 = f + j
      OBVIOUS
    <2> QED BY <2>2, <2>3
  <1>14. a = b
    BY <1>11, <1>12, <1>13, SeqEqual
  <1> QED BY <1>1, <1>2, <1>4, <1>5, <1>6, <1>7, <1>14

\* The iovec covers every page with a message on it: it shows the whole log.
LEMMA IovecRInv ==
    ASSUME RInv, iovec
    PROVE  RInv' /\ Shown' = log
  <1> USE BatchAssumption
  <1>1. /\ IInv /\ TypeOK /\ pages \in Seq(Page) /\ log \in Seq(Msgs) /\ pages # <<>>
        /\ pages' = pages /\ log' = log
    BY DEF RInv, IInv, TypeOK, iovec
  <1>2. PICK k \in Nat : k = Len(pages) /\ k \in 1 .. k /\ DOMAIN pages = 1 .. k
    BY <1>1
  <1>3. PICK n : n = iovec_len
    OBVIOUS
  <1>4. n = IF pages[k].len = 0 THEN k - 1 ELSE k
    BY <1>2, <1>3 DEF iovec_len, Current
  <1>5. n \in Nat /\ n <= k /\ iov' = [i \in 1 .. n |-> [page |-> i, len |-> pages[i].len]]
    BY <1>2, <1>3, <1>4 DEF iovec
  <1>6. \A i \in 1 .. k : /\ pages[i] \in Page /\ InLog(pages[i], log)
                          /\ PageFull(pages[i], log)
    BY <1>1, <1>2 DEF RInv, IInv
  <1>7. \A i \in 1 .. k : /\ pages[i].from \in Nat /\ Ends(pages[i]) \in Nat
                          /\ pages[i].from <= Ends(pages[i])
                          /\ Ends(pages[i]) <= Len(log)
                          /\ pages[i].len \in Nat
    BY <1>6 DEF PageFull, Ends, Page
  <1>8. PICK cut : cut = [i \in 0 .. n |-> IF i = 0 THEN 0 ELSE Ends(pages[i])]
    OBVIOUS
  <1>9. \A i \in 1 .. k : pages[i].from = IF i = 1 THEN 0 ELSE Ends(pages[i - 1])
    BY <1>1, <1>2 DEF IInv
  <1>10. \A i \in 1 .. n : cut[i - 1] = pages[i].from /\ cut[i] = Ends(pages[i])
    <2>1. ASSUME NEW i \in 1 .. n
          PROVE  cut[i - 1] = pages[i].from /\ cut[i] = Ends(pages[i])
      <3>1. i \in 1 .. k /\ i \in 0 .. n /\ i - 1 \in 0 .. n /\ (i - 1 = 0 <=> i = 1) /\ i # 0
        BY <1>2, <1>5
      <3>2. cut[i] = Ends(pages[i]) /\ cut[i - 1] = IF i = 1 THEN 0 ELSE Ends(pages[i - 1])
        BY <1>8, <3>1
      <3> QED BY <1>9, <3>1, <3>2
    <2> QED BY <2>1
  <1>11. cut[n] = Len(log)
    <2>1. Len(log) = Ends(pages[k])
      BY <1>1, <1>2 DEF IInv, Current
    <2>2. CASE pages[k].len = 0
      <3>1. pages[k].msgs = <<>>
        <4>1. pages[k].msgs \in Seq([msg : Msgs, at : Nat])
          BY <1>2, <1>6 DEF Page
        <4>2. ASSUME 1 \in DOMAIN pages[k].msgs PROVE FALSE
          <5>1. pages[k].msgs[1] \in [msg : Msgs, at : Nat]
            BY <4>1, <4>2, EntryOf
          <5>2. pages[k].msgs[1].at < pages[k].len
            BY <1>2, <1>6, <4>2 DEF PageFull
          <5> QED BY <2>2, <5>1, <5>2
        <4> QED BY <4>1, <4>2
      <3>2. Len(log) = pages[k].from
        BY <1>2, <1>7, <2>1, <3>1 DEF Ends
      <3>3. n = k - 1 /\ (k # 1 => n # 0)
        BY <1>2, <1>4, <2>2
      <3> QED BY <1>2, <1>8, <1>9, <3>2, <3>3
    <2>3. CASE pages[k].len # 0
      BY <1>2, <1>4, <1>8, <2>1, <2>3
    <2> QED BY <2>2, <2>3
  <1>12. PICK ss : ss = [i \in 1 .. n |-> SubSeq(log, cut[i - 1] + 1, cut[i])]
    OBVIOUS
  <1>13. Flat(ss) = log
    <2>1. cut[0] = 0 /\ Len(log) \in Nat
      BY <1>1, <1>5, <1>8
    <2>2. \A i \in 0 .. n : cut[i] \in 0 .. Len(log)
      <3>1. ASSUME NEW i \in 1 .. n PROVE cut[i] \in 0 .. Len(log)
        <4>1. i \in 1 .. k /\ cut[i] = Ends(pages[i])
          BY <1>2, <1>5, <1>10
        <4>2. Ends(pages[i]) \in Nat /\ Ends(pages[i]) <= Len(log)
          BY <1>7, <4>1
        <4> QED BY <2>1, <4>1, <4>2
      <3> QED BY <1>5, <2>1, <3>1
    <2>3. \A i \in 1 .. n : cut[i - 1] <= cut[i]
      BY <1>2, <1>5, <1>7, <1>10
    <2>4. Flat(ss) = SubSeq(log, 1, cut[n])
      BY <1>1, <1>5, <1>12, <2>1, <2>2, <2>3, FlatOfParts
    <2> QED BY <1>1, <1>11, <2>4, SubSeqFull
  <1>14. DOMAIN iov' = 1 .. n
    BY <1>5
  <1>15. ASSUME NEW i \in 1 .. n
         PROVE  /\ iov'[i].page = i /\ iov'[i].len = pages[i].len
                /\ i \in DOMAIN pages
                /\ MsgsOf(Within(pages[i].msgs, pages[i].len)) = ss[i]
    <2>1. i \in 1 .. k
      BY <1>2, <1>5
    <2>2. MsgsOf(Within(pages[i].msgs, pages[i].len))
            = SubSeq(log, pages[i].from + 1, Ends(pages[i]))
      BY <1>1, <1>6, <2>1, PageShown
    <2>3. ss[i] = SubSeq(log, pages[i].from + 1, Ends(pages[i]))
      BY <1>10, <1>12
    <2> QED BY <1>2, <1>5, <2>1, <2>2, <2>3
  <1>16. [i \in DOMAIN iov' |-> MsgsOf(Within(pages'[iov'[i].page].msgs, iov'[i].len))] = ss
    BY <1>1, <1>12, <1>14, <1>15
  <1>17. Shown' = log
    BY <1>13, <1>16 DEF Shown
  <1>18. IovOK'
    <2>1. ASSUME NEW i \in 1 .. n
          PROVE  iov'[i].page \in DOMAIN pages' /\ iov'[i].len <= pages'[iov'[i].page].len
      <3>1. i \in 1 .. k
        BY <1>2, <1>5
      <3> QED BY <1>1, <1>7, <1>15, <3>1
    <2> QED BY <1>14, <2>1 DEF IovOK
  <1>19. IInv'
    BY <1>1, NextIInv DEF Next
  <1> QED BY <1>1, <1>17, <1>18, <1>19 DEF RInv

\* A batch that is released shows nothing.
LEMMA FreeRInv ==
    ASSUME RInv, batch_free
    PROVE  RInv' /\ Shown' = <<>>
  <1>1. pages' = <<>> /\ iov' = <<>> /\ IInv'
    BY NextIInv DEF RInv, Next, batch_free
  <1>2. (iov = <<>> => Shown = <<>>)'
    BY NothingShown, PTL
  <1> QED BY <1>1, <1>2 DEF RInv, IovOK

\* What the refinement needs holds of a batch that was never allocated.
LEMMA InitRInv == Init => RInv
  BY InitIInv DEF Init, RInv, IovOK

\* Every call keeps what the refinement needs.
LEMMA NextRInv == RInv /\ [Next]_vars => RInv'
  BY FitsRInv, NewPageRInv, OtherRInv, IovecRInv, FreeRInv DEF Next

\* Before the first call nothing is logged, pending or shown.
LEMMA AbsInit == Init => Abs!Init
  BY NothingShown DEF Init, Abs!Init

\* Each call appends to the log, refuses, shows it, or is not seen.
LEMMA AbsNext == RInv /\ [Next]_vars => [Abs!Next]_(Abs!vars)
  <1> SUFFICES ASSUME RInv, [Next]_vars PROVE [Abs!Next]_(Abs!vars)
    OBVIOUS
  <1> USE BatchAssumption
  <1>1. TypeOK
    BY DEF RInv, IInv
  <1>2. PICK H : H = {m \in Msgs : Size[m] <= page_size}
    OBVIOUS
  <1>3. CASE update_fits
    <2>1. Shown' = Shown /\ pending \in Msgs /\ Fits(Current, pending)
      BY <1>1, <1>3, FitsRInv DEF update_fits, TypeOK
    <2>2. Current.len \in Nat /\ Size[pending] \in Nat
      <3>1. pages # <<>> /\ pages \in Seq(Page)
        BY <1>1, <2>1 DEF RInv, IInv, TypeOK
      <3>2. Len(pages) \in DOMAIN pages /\ Current \in Page
        BY <3>1 DEF Current
      <3> QED BY <2>1, <3>2 DEF Page
    <2>3. Size[pending] <= page_size
      BY <2>1, <2>2 DEF Fits
    <2>4. Abs!Accept
      BY <1>3, <2>1, <2>3 DEF update_fits, Abs!Accept
    <2> QED BY <2>4 DEF Abs!Next
  <1>4. CASE update_newpage
    <2>1. Shown' = Shown /\ pending \in Msgs
      BY <1>1, <1>4, NewPageRInv DEF update_newpage, TypeOK
    <2>2. EmptyPage.len = 0 /\ Size[pending] \in Nat
      BY <2>1 DEF EmptyPage
    <2>3. Fits(EmptyPage, pending) <=> Size[pending] <= page_size
      BY <2>2 DEF Fits
    <2>4. Abs!Accept
      BY <1>4, <2>1, <2>3 DEF update_newpage, Abs!Accept
    <2> QED BY <2>4 DEF Abs!Next
  <1>5. CASE update_nomem
    BY <1>5, OtherRInv DEF update_nomem, Abs!Refuse, Abs!Next
  <1>6. ASSUME NEW m \in Msgs, write(m) PROVE [Abs!Next]_(Abs!vars)
    <2>1. Shown' = Shown
      BY <1>6, OtherRInv
    <2> QED BY <1>6, <2>1 DEF write, Abs!Write, Abs!Next
  <1>7. CASE iovec
    BY <1>7, IovecRInv DEF iovec, Abs!Show, Abs!Next
  <1>8. CASE batch_free
    BY <1>8, FreeRInv DEF batch_free, Abs!Free, Abs!Next
  <1>9. CASE batch_alloc \/ UNCHANGED vars
    BY <1>9, OtherRInv DEF batch_alloc, vars, Abs!vars
  <1> QED BY <1>3, <1>4, <1>5, <1>6, <1>7, <1>8, <1>9 DEF Next

\* Towards its caller a batch is a log of messages: an update appends once and
\* in order or changes nothing, an iovec shows the whole log, and goes on
\* showing what it showed, however many updates follow (batch.c:101-164).
THEOREM BatchIsLog == Spec => ImplementsMessageLog
  <1> QED
    BY AbsInit, AbsNext, InitRInv, NextRInv, PTL DEF Spec, ImplementsMessageLog, Abs!Spec

-------------------------------------------------------------------------------
(* The probe: nftnl_batch_is_supported                                     *)

\* What the kernel may answer.
Answer == [seq : Seqs, error : {"ok", "EINVAL", "EPERM"}]

\* What may be told when nothing has failed.
Told ==
  /\ ~Wrapped => result = IF kernel = "batch" THEN 1 ELSE 0
  /\ result = 0 => kernel # "batch"
  /\ result = 1 => kernel \in {"batch", "no batch"}

\* What has been sent and answered, and whether a call has failed.
Progress ==
  /\ pc \in {"start", "bind", "send"} =>
       sent = <<>> /\ inbox = <<>> /\ failed = "no"
  /\ pc = "recv" =>
       /\ failed = "no"
       /\ sent = <<>> => inbox = Replies(Messages)
       /\ sent # <<>> => inbox = <<>>

ProbeIInv ==
  /\ pc \in {"start", "bind", "send", "recv", "done"}
  /\ start \in Seqs /\ kernel \in Kernels
  /\ sent \in {<<>>, <<Messages>>} /\ inbox \in Seq(Answer)
  /\ Progress
  /\ pc = "done" /\ failed = "no" => Told
  /\ pc = "done" /\ failed # "no" => result # 1
  /\ NoSocketLeft

-------------------------------------------------------------------------------

\* The number after another is another.
LEMMA SeqAfterProperties ==
    ASSUME NEW s \in Seqs
    PROVE  SeqAfter(s) \in Seqs /\ SeqAfter(s) # s
  BY WidthAssumption DEF Seqs, SeqAfter

\* The three messages and their numbers, of which no two are the same.
LEMMA MessagesProperties ==
    ASSUME start \in Seqs
    PROVE  /\ Messages[1].seq = start /\ Messages[2].seq = ReqSeq /\ Messages[2].flags = {"REQUEST", "ACK"}
           /\ ReqSeq \in Seqs /\ ReqSeq # start /\ Messages[3].seq \in Seqs
  <1>1. /\ SeqAfter(start) \in Seqs /\ SeqAfter(start) # start
        /\ SeqAfter(SeqAfter(start)) \in Seqs
    BY SeqAfterProperties
  <1> QED BY <1>1 DEF Messages, build_hdr, ReqSeq

\* What is derived from the first number and the kernel changes only with them.
LEMMA SameMessages ==
    ASSUME UNCHANGED << start, kernel >>
    PROVE  Messages' = Messages /\ Replies(Messages)' = Replies(Messages) /\ Wrapped' = Wrapped
  BY DEF Messages, Replies, Wrapped, ReqSeq

\* The first answer on each kernel.
FirstIs(answer) ==
  /\ kernel = "batch"    => answer = [seq |-> ReqSeq, error |-> "EINVAL"]
  /\ kernel = "no sets"  => answer = [seq |-> ReqSeq, error |-> "ok"]
  /\ kernel = "no batch" => answer = [seq |-> start, error |-> "EINVAL"]
  /\ kernel = "denied"   => answer = [seq |-> start, error |-> "EPERM"]

\* The fields of the first answer.
LEMMA FirstIsFields ==
    ASSUME NEW answer, FirstIs(answer)
    PROVE  /\ kernel = "batch" => answer.seq = ReqSeq /\ answer.error = "EINVAL"
           /\ kernel = "no sets" => answer.error = "ok"
           /\ kernel = "no batch" => answer.seq = start /\ answer.error = "EINVAL"
           /\ kernel = "denied" => answer.error = "EPERM"
  <1>1. \A s, e : [seq |-> s, error |-> e].seq = s /\ [seq |-> s, error |-> e].error = e
    OBVIOUS
  <1>2. kernel = "batch" => answer.seq = ReqSeq /\ answer.error = "EINVAL"
    <2> HAVE kernel = "batch"
    <2>1. answer = [seq |-> ReqSeq, error |-> "EINVAL"]
      BY DEF FirstIs
    <2> QED BY <1>1, <2>1, Zenon
  <1>3. kernel = "no sets" => answer.error = "ok"
    <2> HAVE kernel = "no sets"
    <2>1. answer = [seq |-> ReqSeq, error |-> "ok"]
      BY DEF FirstIs
    <2> QED BY <1>1, <2>1, Zenon
  <1>4. kernel = "no batch" => answer.seq = start /\ answer.error = "EINVAL"
    <2> HAVE kernel = "no batch"
    <2>1. answer = [seq |-> start, error |-> "EINVAL"]
      BY DEF FirstIs
    <2> QED BY <1>1, <2>1, Zenon
  <1>5. kernel = "denied" => answer.error = "EPERM"
    <2> HAVE kernel = "denied"
    <2>1. answer = [seq |-> start, error |-> "EPERM"]
      BY DEF FirstIs
    <2> QED BY <1>1, <2>1, Zenon
  <1> QED BY <1>2, <1>3, <1>4, <1>5

\* Every kernel sends at least one answer, and which is the first.
LEMMA RepliesProperties ==
    ASSUME start \in Seqs, kernel \in Kernels
    PROVE  /\ Replies(Messages) \in Seq(Answer)
           /\ Replies(Messages) # <<>>
           /\ FirstIs(Replies(Messages)[1])
  <1> DEFINE r(i, e) == [seq |-> Messages[i].seq, error |-> e]
  <1>1. \A i \in 1 .. 3, e \in {"ok", "EINVAL", "EPERM"} : r(i, e) \in Answer
    BY MessagesProperties DEF Answer
  <1>2. PICK b, c, d \in Answer :
              /\ b = r(1, "EINVAL") /\ c = r(2, "EINVAL") /\ d = r(3, "EINVAL")
    BY <1>1
  <1>3. PICK e, f \in Answer : e = r(2, "ok") /\ f = r(1, "EPERM")
    BY <1>1
  <1>4. /\ kernel = "batch"    => Replies(Messages) = <<c>>
        /\ kernel = "no sets"  => Replies(Messages) = <<e>>
        /\ kernel = "no batch" => Replies(Messages) = (<<b>> \o <<c>>) \o <<d>>
        /\ kernel = "denied"   => Replies(Messages) = <<f>>
    <2>1. "ACK" \in Messages[2].flags
      BY MessagesProperties
    <2> QED BY <1>2, <1>3, <2>1 DEF Replies, Reply, IfAsked
  <1>5. /\ c = [seq |-> ReqSeq, error |-> "EINVAL"]
        /\ e = [seq |-> ReqSeq, error |-> "ok"]
        /\ b = [seq |-> start, error |-> "EINVAL"]
        /\ f = [seq |-> start, error |-> "EPERM"]
    BY <1>2, <1>3, MessagesProperties
  <1>6. /\ (<<b>> \o <<c>>) \o <<d>> \in Seq(Answer)
        /\ ((<<b>> \o <<c>>) \o <<d>>)[1] = b
        /\ (<<b>> \o <<c>>) \o <<d>> # <<>>
    OBVIOUS
  <1>7. \A a \in Answer : <<a>> \in Seq(Answer) /\ <<a>>[1] = a /\ <<a>> # <<>>
    OBVIOUS
  <1> HIDE DEF r
  <1>8. Replies(Messages) \in Seq(Answer) /\ Replies(Messages) # <<>>
    BY <1>4, <1>6, <1>7 DEF Kernels
  <1>9. FirstIs(Replies(Messages)[1])
    BY <1>4, <1>5, <1>6, <1>7 DEF FirstIs
  <1> QED BY <1>8, <1>9

\* Initially nothing is sent and no socket is open.
LEMMA ProbeInitIInv == ProbeInit => ProbeIInv
  BY DEF ProbeInit, ProbeIInv, Progress, NoSocketLeft

\* What the last line of nftnl_batch_is_supported makes of each outcome.
LEMMA SupportedProperties ==
    /\ Supported(<<-1, "EINVAL">>) = 1
    /\ Supported(<<0, "ok">>) = 0
    /\ Supported(<<-1, "EPERM">>) = 0
    /\ Supported(<<-1, "EPROTO">>) = 0
    /\ Supported(<<-1, "EINTR">>) = 0
  BY DEF Supported

\* What libmnl makes of an answer with the right number and of one without.
LEMMA CbRunProperties ==
    ASSUME NEW answer
    PROVE  /\ SeqOk(answer.seq) /\ answer.error = "ok" => CbRun(answer) = <<0, "ok">>
           /\ SeqOk(answer.seq) /\ answer.error # "ok" => CbRun(answer) = <<-1, answer.error>>
           /\ ~ SeqOk(answer.seq) => CbRun(answer) = <<-1, "EPROTO">>
  BY DEF CbRun

\* What is made of the first answer is what may be told.
LEMMA FirstAnswerTells ==
    ASSUME ProbeIInv, socket_recvfrom
    PROVE  Told' /\ failed' = "no"
  <1>1. /\ pc = "recv" /\ failed = "no" /\ start \in Seqs /\ kernel \in Kernels
        /\ inbox = Replies(Messages) /\ FirstIs(inbox[1])
        /\ UNCHANGED << start, kernel, failed >>
    BY RepliesProperties DEF ProbeIInv, Progress, socket_recvfrom
  <1>2. result' = Supported(CbRun(inbox[1]))
    BY DEF socket_recvfrom, finish
  <1>3. ReqSeq \in Seqs /\ ReqSeq # start /\ Wrapped' = Wrapped
    BY <1>1, MessagesProperties, SameMessages
  <1>4. CASE kernel = "batch"
    <2>1. inbox[1].seq = ReqSeq /\ inbox[1].error = "EINVAL"
      BY <1>1, <1>4, FirstIsFields
    <2>2. CbRun(inbox[1]) = <<-1, "EINVAL">>
      BY <2>1, CbRunProperties DEF SeqOk
    <2>3. result' = 1
      BY <1>2, <2>2, SupportedProperties
    <2> QED BY <1>1, <1>4, <2>3 DEF Told
  <1>5. CASE kernel = "no sets" \/ kernel = "denied"
    <2>0. inbox[1].error = "ok" \/ inbox[1].error = "EPERM"
      BY <1>1, <1>5, FirstIsFields
    <2>1. CbRun(inbox[1]) \in {<<0, "ok">>, <<-1, "EPERM">>, <<-1, "EPROTO">>}
      BY <2>0, CbRunProperties
    <2>2. result' = 0
      BY <1>2, <2>1, SupportedProperties
    <2>3. kernel # "batch" /\ kernel' = kernel
      BY <1>1, <1>5
    <2> QED BY <1>1, <2>2, <2>3 DEF Told
  <1>6. CASE kernel = "no batch"
    <2>0. inbox[1].seq = start /\ inbox[1].error = "EINVAL"
      BY <1>1, <1>6, FirstIsFields
    <2>5. SeqOk(inbox[1].seq) <=> Wrapped
      BY <1>3, <2>0 DEF SeqOk, Wrapped
    <2>1. Wrapped => CbRun(inbox[1]) = <<-1, "EINVAL">>
      BY <2>0, <2>5, CbRunProperties
    <2>2. ~ Wrapped => CbRun(inbox[1]) = <<-1, "EPROTO">>
      BY <2>5, CbRunProperties
    <2>3. /\ Wrapped => result' = 1
          /\ ~ Wrapped => result' = 0
      BY <1>2, <2>1, <2>2, SupportedProperties
    <2>4. kernel # "batch" /\ kernel' = kernel
      BY <1>1, <1>6
    <2> QED BY <1>1, <1>3, <1>6, <2>3, <2>4 DEF Told
  <1> QED BY <1>1, <1>4, <1>5, <1>6 DEF Kernels

\* Every call the probe makes, and every failure of one, keeps the invariant.
LEMMA ProbeNextIInv == ProbeIInv /\ [ProbeNext]_probeVars => ProbeIInv'
  <1> SUFFICES ASSUME ProbeIInv, [ProbeNext]_probeVars PROVE ProbeIInv'
    OBVIOUS
  <1>1. CASE socket_open \/ socket_bind \/ socket_sendto
    <2>1. /\ UNCHANGED << start, kernel, inbox >>
          /\ sent = <<>> /\ inbox = <<>> /\ failed = "no"
          /\ pc = "start" => ~ open
      BY <1>1 DEF socket_open, socket_bind, socket_sendto, Fails, ProbeIInv, Progress,
                  NoSocketLeft
    <2>2. CASE \E call \in {"open", "bind", "send"} : Fails(call)
      BY <1>1, <2>1, <2>2, SameMessages
         DEF socket_open, socket_bind, socket_sendto, Fails, ProbeIInv, Progress, NoSocketLeft
    <2>3. CASE pc' \in {"bind", "send"} /\ UNCHANGED << sent, failed >>
      BY <2>1, <2>3, SameMessages DEF ProbeIInv, Progress, NoSocketLeft
    <2>4. CASE pc' = "recv" /\ sent' = <<Messages>> /\ UNCHANGED failed
      <3>1. <<Messages>> # <<>>
        OBVIOUS
      <3> QED BY <2>1, <2>4, <3>1, SameMessages DEF ProbeIInv, Progress, NoSocketLeft
    <2> QED BY <1>1, <2>2, <2>3, <2>4 DEF socket_open, socket_bind, socket_sendto
  <1>4. CASE socket_recvfrom
    <2>1. inbox' \in Seq(Answer)
      BY <1>4 DEF socket_recvfrom, ProbeIInv
    <2>2. Told' /\ failed' = "no"
      BY <1>4, FirstAnswerTells
    <2> QED BY <1>4, <2>1, <2>2, SameMessages
            DEF socket_recvfrom, finish, ProbeIInv, Progress, NoSocketLeft
  <1>5. CASE recv_fails
    BY <1>5, SameMessages DEF recv_fails, finish, Supported, ProbeIInv, Progress, NoSocketLeft
  <1>6. CASE probe_again
    BY <1>6 DEF probe_again, ProbeIInv, Progress, NoSocketLeft
  <1>7. CASE kernel_answers
    <2>1. sent = <<Messages>> /\ sent[1] = Messages /\ sent' = <<>>
      <3>1. sent = <<Messages>>
        BY <1>7 DEF kernel_answers, ProbeIInv
      <3>2. Tail(<<Messages>>) = <<>> /\ <<Messages>>[1] = Messages /\ <<Messages>> # <<>>
        OBVIOUS
      <3> QED BY <1>7, <3>1, <3>2 DEF kernel_answers
    <2>2. /\ inbox' = inbox \o Replies(Messages)
          /\ Replies(Messages) \in Seq(Answer) /\ inbox \in Seq(Answer)
      BY <1>7, <2>1, RepliesProperties DEF kernel_answers, ProbeIInv
    <2>3. inbox' \in Seq(Answer)
      BY <2>2
    <2>4. pc = "recv" => inbox' = Replies(Messages)
      <3>1. pc = "recv" => inbox = <<>>
        BY <2>1 DEF ProbeIInv, Progress
      <3> QED BY <2>2, <3>1
    <2>5. pc \notin {"start", "bind", "send"}
      BY <2>1 DEF ProbeIInv, Progress
    <2>6. UNCHANGED << pc, open, start, kernel, rc, result, failed >>
      BY <1>7 DEF kernel_answers
    <2>7. Told' = Told
      BY <2>6, SameMessages DEF Told
    <2> QED BY <2>1, <2>3, <2>4, <2>5, <2>6, <2>7, SameMessages
            DEF ProbeIInv, Progress, NoSocketLeft
  <1>8. CASE UNCHANGED probeVars
    <2>1. Told' = Told
      BY <1>8, SameMessages DEF Told, probeVars
    <2> QED BY <1>8, <2>1, SameMessages DEF probeVars, ProbeIInv, Progress, NoSocketLeft
  <1> QED BY <1>1, <1>4, <1>5, <1>6, <1>7, <1>8 DEF ProbeNext

-------------------------------------------------------------------------------

\* The part of the shape of the state that ProbeIInv leaves out.
OpenOrNot == open \in BOOLEAN

\* Whether a socket is open is never in doubt.
LEMMA OpenIsKnown ==
    /\ ProbeInit => OpenOrNot
    /\ OpenOrNot /\ [ProbeNext]_probeVars => OpenOrNot'
  <1>1. ProbeInit => OpenOrNot
    BY DEF ProbeInit, OpenOrNot
  <1>2. ASSUME OpenOrNot, [ProbeNext]_probeVars
        PROVE  OpenOrNot'
    BY <1>2 DEF OpenOrNot, ProbeNext, probeVars, socket_open, socket_bind, socket_sendto, Fails,
                socket_recvfrom, recv_fails, finish, probe_again, kernel_answers
  <1> QED BY <1>1, <1>2

\* Yes to a kernel that takes sets in batches and to no other, whatever the
\* time, unless a sequence number is zero; never yes after a failure; and with
\* a number of zero still never yes to a kernel that refuses or confirms, and
\* never no to one that takes sets in batches (common.c:93-163).
THEOREM VerdictRight == ProbeSpec => []Verdict
  <1>1. ProbeIInv => NeverWrongly /\ EvenWrapped
    BY DEF ProbeIInv, NeverWrongly, EvenWrapped, Told
  <1>2. ProbeIInv /\ OpenOrNot => ProbeTypeOK
    <2> SUFFICES ASSUME ProbeIInv, OpenOrNot PROVE ProbeTypeOK
      OBVIOUS
    <2>1. \A i \in 1 .. 3 : Messages[i].seq \in Seqs
      BY MessagesProperties DEF ProbeIInv
    <2>2. \A d \in Range(sent) : d = Messages
      BY DEF ProbeIInv, Range
    <2>3. \A a \in Range(inbox) : a \in Answer
      BY DEF ProbeIInv, Range
    <2> QED BY <2>1, <2>2, <2>3 DEF ProbeTypeOK, ProbeIInv, OpenOrNot, Answer, Answers
  <1>3. ProbeIInv /\ OpenOrNot => Verdict
    BY <1>1, <1>2 DEF Verdict
  <1> QED BY <1>3, ProbeInitIInv, ProbeNextIInv, OpenIsKnown, PTL DEF ProbeSpec

\* A socket is left open only by a probe that could not bind it or send
\* (common.c:121, 140).
THEOREM SocketsClosed == ProbeSpec => []NoSocketLeft
  <1>1. ProbeIInv => NoSocketLeft
    BY DEF ProbeIInv
  <1> QED BY <1>1, ProbeInitIInv, ProbeNextIInv, PTL DEF ProbeSpec
===============================================================================

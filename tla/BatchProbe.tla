------------------------------ MODULE BatchProbe ------------------------------
(***************************************************************************)
(* nftnl_batch_is_supported: does the kernel take sets in a batch?  The    *)
(* library opens a socket, sends a batch with one incomplete message in it *)
(* and tells the answer from the error that comes back: EINVAL for that    *)
(* message means yes.                                                      *)
(*                                                                         *)
(* The kernel and libmnl are external.  The kernel answers message by      *)
(* message, each answer its own datagram; libmnl runs one datagram at a    *)
(* time.  Sequence numbers begin at the time of day and have Width values  *)
(* here (2^32 in the code).                                                *)
(***************************************************************************)
EXTENDS Integers, SequencesExt

CONSTANT Width         \* number of sequence numbers
ASSUME WidthAssumption == Width \in Nat /\ Width > 3

VARIABLES
  pc,        \* where nftnl_batch_is_supported is
  open,      \* whether the probe has a socket open
  start,     \* time(NULL)
  kernel,    \* what kernel this is
  sent,      \* datagrams on their way to the kernel
  inbox,     \* answers in the socket
  rc,        \* the last return value, and errno
  result,    \* what the probe returned
  failed     \* a call of the probe that failed, for the properties

probeVars == <<pc, open, start, kernel, sent, inbox, rc, result, failed>>

Seqs    == 0..(Width - 1)
Kernels == {"batch",      \* sets in batches
            "no sets",    \* batches, but not of sets: ignored, and so confirmed
            "no batch",   \* every message on its own
            "denied"}     \* the batch refused as a whole
Answers == {"none", "ok", "EINVAL", "EPERM"}
Running == <<"run", "ok">>

ProbeInit ==
  /\ pc = "start" /\ open = FALSE
  /\ start \in Seqs /\ kernel \in Kernels
  /\ sent = <<>> /\ inbox = <<>>
  /\ rc = Running /\ result = "none" /\ failed = "no"

SeqAfter(seq) == (seq + 1) % Width

-----------------------------------------------------------------------------
(* The probe *)

build_hdr(type, flags, seq) == [type |-> type, flags |-> flags, seq |-> seq]

\* Mutant: nobody asks for the confirmation.
Messages_silent == <<build_hdr("BATCH_BEGIN", {"REQUEST"}, start),
                     build_hdr("NEWSET", {"REQUEST"}, SeqAfter(start)),
                     build_hdr("BATCH_END", {"REQUEST"}, SeqAfter(SeqAfter(start)))>>
Messages == <<build_hdr("BATCH_BEGIN", {"REQUEST"}, start),
              build_hdr("NEWSET", {"REQUEST", "ACK"}, SeqAfter(start)),
              build_hdr("BATCH_END", {"REQUEST"}, SeqAfter(SeqAfter(start)))>>
ReqSeq == SeqAfter(start)

Fails(call) ==
  /\ pc' = "done" /\ result' = -1 /\ failed' = call
  /\ UNCHANGED <<start, kernel, sent, inbox, rc>>

socket_open ==
  /\ pc = "start"
  /\ \/ pc' = "bind" /\ open' = TRUE
        /\ UNCHANGED <<start, kernel, sent, inbox, rc, result, failed>>
     \/ Fails("open") /\ UNCHANGED open

\* Where this or the sending fails, the socket stays open.
socket_bind ==
  /\ pc = "bind"
  /\ UNCHANGED open
  /\ \/ pc' = "send"
        /\ UNCHANGED <<start, kernel, sent, inbox, rc, result, failed>>
     \/ Fails("bind")

\* The messages are in a batch of libmnl, for which there is memory: the return
\* value of mnl_nlmsg_batch_start (common.c:124) is not looked at, and NULL would
\* end the process here.
socket_sendto ==
  /\ pc = "send"
  /\ UNCHANGED open
  /\ \/ pc' = "recv" /\ sent' = <<Messages>>
        /\ UNCHANGED <<start, kernel, inbox, rc, result, failed>>
     \/ Fails("send")

\* libmnl's check: a number of zero on either side fits everything.
SeqOk(seq) == seq = 0 \/ ReqSeq = 0 \/ seq = ReqSeq

\* mnl_cb_run on a datagram: the return value and errno.
CbRun(answer) ==
  IF ~SeqOk(answer.seq) THEN <<-1, "EPROTO">>
  ELSE IF answer.error = "ok" THEN <<0, "ok">>
  ELSE <<-1, answer.error>>

\* Mutant: any error will do.
Supported_any(r) == IF r[1] = -1 THEN 1 ELSE 0
Supported(r) == IF r = <<-1, "EINVAL">> THEN 1 ELSE 0

\* Mutant: the socket is closed only if the kernel confirms.
finish_leaks(r) ==
  /\ pc' = "done" /\ open' = (r[1] # 0)
  /\ rc' = r /\ result' = Supported(r)
finish(r) ==
  /\ pc' = "done" /\ open' = FALSE
  /\ rc' = r /\ result' = Supported(r)

\* One datagram is received and run, and no other, since an answer always
\* ends it.
socket_recvfrom ==
  /\ pc = "recv" /\ inbox # <<>>
  /\ finish(CbRun(inbox[1]))
  /\ inbox' = Tail(inbox)
  /\ UNCHANGED <<start, kernel, sent, failed>>

\* A signal, or no memory for the answers.
recv_fails ==
  /\ pc = "recv"
  /\ finish(<<-1, "EINTR">>)
  /\ failed' = "recv"
  /\ UNCHANGED <<start, kernel, sent, inbox>>

\* The program asks again, at another time, with another socket; one that was
\* left open is no longer counted.
probe_again ==
  /\ pc = "done"
  /\ pc' = "start" /\ sent' = <<>> /\ inbox' = <<>>
  /\ start' \in Seqs
  /\ rc' = Running /\ result' = "none" /\ failed' = "no"
  /\ open' = FALSE
  /\ UNCHANGED kernel

-----------------------------------------------------------------------------
(* The kernel *)

Reply(msg, error) == <<[seq |-> msg.seq, error |-> error]>>
IfAsked(msg) == IF "ACK" \in msg.flags THEN Reply(msg, "ok") ELSE <<>>

Replies(batch) ==
  CASE kernel = "batch"    -> Reply(batch[2], "EINVAL")
    [] kernel = "no sets"  -> IfAsked(batch[2])
    [] kernel = "no batch" -> Reply(batch[1], "EINVAL") \o Reply(batch[2], "EINVAL")
                                \o Reply(batch[3], "EINVAL")
    [] kernel = "denied"   -> Reply(batch[1], "EPERM")

kernel_answers ==
  /\ sent # <<>>
  /\ sent' = Tail(sent)
  /\ inbox' = inbox \o Replies(sent[1])
  /\ UNCHANGED <<pc, open, start, kernel, rc, result, failed>>

ProbeNext ==
  \/ socket_open
  \/ socket_bind
  \/ socket_sendto
  \/ socket_recvfrom
  \/ recv_fails
  \/ probe_again
  \/ kernel_answers

\* The probe is one thread that runs, and the kernel answers what it was sent.
\* Nobody interrupts it, and nobody has to ask again.
ProbeSpec == ProbeInit /\ [][ProbeNext]_probeVars
               /\ WF_probeVars(socket_open) /\ WF_probeVars(socket_bind)
               /\ WF_probeVars(socket_sendto) /\ WF_probeVars(socket_recvfrom)
               /\ WF_probeVars(kernel_answers)

-----------------------------------------------------------------------------
(* Properties *)

\* The shape of the state.
ProbeTypeOK ==
  /\ pc \in {"start", "bind", "send", "recv", "done"}
  /\ open \in BOOLEAN
  /\ \A d \in Range(sent) : \A i \in 1..3 : d[i].seq \in Seqs
  /\ \A a \in Range(inbox) : a.seq \in Seqs /\ a.error \in Answers

\* The time of day makes the check of the numbers void.
Wrapped == 0 \in {start, ReqSeq}

\* The probe says yes to a kernel that takes sets in batches and to no other,
\* however many answers there are and whatever they are to, if nothing fails
\* and no number is zero; it never says yes after a failure.
NeverWrongly ==
  pc = "done" =>
    /\ failed = "no" /\ ~Wrapped => result = IF kernel = "batch" THEN 1 ELSE 0
    /\ failed # "no" => result # 1

\* Even then it never says yes to a kernel that refuses the batch or confirms
\* the message, and no to one that takes it.
EvenWrapped ==
  pc = "done" /\ failed = "no" =>
    /\ result = 0 => kernel # "batch"
    /\ result = 1 => kernel \in {"batch", "no batch"}

\* What the probe tells, and the shape of what it works with.
Verdict == ProbeTypeOK /\ NeverWrongly /\ EvenWrapped

\* The answer is given only once the socket is closed again, but by a probe
\* that could not bind it or send (common.c:121 and 140).
NoSocketLeft == pc \in {"start", "done"} /\ open => failed \in {"bind", "send"}

\* A probe that was begun ends, on every kernel.
Terminates == pc = "bind" ~> pc = "done"
=============================================================================

------------------------------ MODULE Acceptor ------------------------------
(***************************************************************************)
(* fiona::tcp::acceptor: one acceptor_impl shared by several coroutines    *)
(* that accept, cancel, close and let go of it.  An accept reserves a slot *)
(* of the fixed file table before it is submitted; the slot becomes the    *)
(* stream's, or goes back when the accept fails.  Accepts are numbered (a  *)
(* history the code does not keep).                                        *)
(***************************************************************************)
EXTENDS Naturals, Sequences, FiniteSets

CONSTANTS
    Coros,       \* the coroutines that share the acceptor
    Slots,       \* the slots of the fixed file table
    None,        \* a null coroutine_handle
    NoFd,        \* a file descriptor of -1
    MaxAccepts   \* bound: how many accepts are started in a behaviour

ASSUME AcceptorAssumption ==
    /\ None \notin Coros /\ NoFd \notin Slots /\ MaxAccepts \in Nat
    /\ IsFiniteSet(Coros)

VARIABLES
    af,       \* accept_frame
    cnf, clf, \* cancel_frame, acceptor_close_frame
    refs,     \* ref_count::count_ of the acceptor_impl
    fd,       \* acceptor_impl::fd_
    fds,      \* io_context_frame::fds_, the free slots
    streams,  \* slots of the streams that were accepted
    co,       \* what each coroutine does with the acceptor
    handles,  \* handles collected from the CQEs, not yet resumed
    pc, back, \* what the loop thread does, where it goes after a submit
    sq,       \* SQEs queued and not submitted
    work,     \* linked operations whose turn comes with the task work
    file,     \* the kernel's side of the slots
    acc,      \* the accept in flight
    cq,       \* completions not processed yet
    accepts   \* history: how many accepts were started

frameVars == <<af, cnf, clf, refs>>
fdVars    == <<fd, fds, streams>>
loopVars  == <<co, handles, pc, back>>
kernVars  == <<sq, work, file, acc, cq>>
vars      == <<frameVars, fdVars, loopVars, kernVars, accepts>>

Errors == {"ECANCELED", "EBADF", "ECONNABORTED"}
Ok == "ok"

Sqe == [op : {"accept", "cancelAccept", "cancel", "sever", "close"},
        on : Slots \cup {NoFd}, slot : Slots \cup {NoFd}, n : 0..MaxAccepts]
Cqe == [op : {"accept", "cancel", "close"}, res : Errors \cup {Ok},
        n : 0..MaxAccepts]

\* accept_frame::reset; peer is peer_fd_ as long as it is not negative.
AcceptReset == [h |-> None, peer |-> NoFd, initiated |-> FALSE, done |-> FALSE,
                n |-> 0]
\* reset() of cancel_frame and of acceptor_close_frame; what res_ is for is
\* left out.
CancelReset == [h |-> None, initiated |-> FALSE, done |-> FALSE]
CloseReset  == [h |-> None, initiated |-> FALSE, done |-> FALSE]

\* intrusive_ptr_release deletes the acceptor_impl.
Unreferenced == refs = 0

NoAccept == [n |-> 0, slot |-> NoFd, on |-> NoFd]

TypeOK ==
    /\ af \in [h : Coros \cup {None}, peer : Slots \cup {NoFd},
               initiated : BOOLEAN, done : BOOLEAN, n : 0..MaxAccepts]
    /\ {cnf, clf} \subseteq [h : Coros \cup {None}, initiated : BOOLEAN,
                             done : BOOLEAN]
    /\ refs \in Nat
    /\ fd \in Slots \cup {NoFd} /\ fds \subseteq Slots /\ streams \subseteq Slots
    /\ co \in [Coros -> {"idle", "accepting", "cancelling", "closing", "gone"}]
    /\ handles \in Seq(Coros)
    /\ pc \in {"user", "submit", "reap", "abort", "flush", "end"}
    /\ back \in {"user", "reap", "clear", "abort"}
    /\ sq \in Seq(Sqe) /\ work \in Seq(Sqe) /\ cq \in Seq(Cqe)
    /\ file \in [Slots -> {"empty", "listen", "peer"}]
    /\ acc \in [n : 0..MaxAccepts, slot : Slots \cup {NoFd},
                on : Slots \cup {NoFd}]
    /\ accepts \in 0..MaxAccepts

Op(op, slot, n)  == [op |-> op, on |-> fd, slot |-> slot, n |-> n]
Done(op, res, n) == [op |-> op, res |-> res, n |-> n]

\* The constructor has made a listening socket, taken a slot and registered the
\* socket in it.  Where socket, bind, listen, the table or the registration fail
\* it throws, and there is no acceptor that anybody could share.
Init ==
    /\ af = AcceptReset /\ cnf = CancelReset /\ clf = CloseReset
    /\ refs = Cardinality(Coros)
    /\ fd \in Slots /\ fds = Slots \ {fd} /\ streams = {}
    /\ co = [c \in Coros |-> "idle"]
    /\ handles = <<>> /\ pc = "user" /\ back = "user"
    /\ sq = <<>> /\ work = <<>> /\ cq = <<>> /\ acc = NoAccept
    /\ file = [s \in Slots |-> IF s = fd THEN "listen" ELSE "empty"]
    /\ accepts = 0

-----------------------------------------------------------------------------
(* The operations.                                                         *)

\* Mutant of AsyncAccept: a second accept is not refused.
AsyncAcceptUnguarded(c) ==
    /\ pc = "user" /\ co[c] = "idle" /\ accepts < MaxAccepts
    /\ \E s \in (fds \cup {af.peer}) \ {NoFd} :
          /\ fds' = fds \ {s}
          /\ sq' = Append(sq, Op("accept", s, accepts + 1))
          /\ af' = [af EXCEPT !.h = c, !.initiated = TRUE, !.peer = s,
                              !.n = accepts + 1]
    /\ accepts' = accepts + 1
    /\ refs' = refs + 2
    /\ co' = [co EXCEPT ![c] = "accepting"]
    /\ UNCHANGED <<cnf, clf, fd, streams, handles, pc, back, work, file, acc, cq>>

\* accept_awaitable::await_suspend.  Without a free slot it throws ENFILE and
\* nothing has changed.
AsyncAccept(c) ==
    /\ pc = "user" /\ co[c] = "idle" /\ accepts < MaxAccepts
    /\ ~af.initiated
    /\ \E s \in fds :
          /\ fds' = fds \ {s}
          /\ sq' = Append(sq, Op("accept", s, accepts + 1))
          /\ af' = [af EXCEPT !.h = c, !.initiated = TRUE, !.peer = s,
                              !.n = accepts + 1]
    /\ accepts' = accepts + 1
    /\ refs' = refs + 2
    /\ co' = [co EXCEPT ![c] = "accepting"]
    /\ UNCHANGED <<cnf, clf, fd, streams, handles, pc, back, work, file, acc, cq>>

\* Mutant of MustCancel: the destructor leaves the accept alone.
MustCancelNever == FALSE

\* What ~accept_awaitable asks of the frame.
MustCancel == af.initiated /\ ~af.done

\* What ~accept_awaitable queues; it submits when it queues something.
CancelAccept == IF MustCancel THEN <<Op("cancelAccept", NoFd, 0)>> ELSE <<>>

\* Another coroutine accepts: await_suspend throws, and the awaitable destroyed
\* on the way out finds the frame of that coroutine.
AcceptBusy(c) ==
    /\ pc = "user" /\ co[c] = "idle" /\ af.initiated
    /\ sq' = sq \o CancelAccept
    /\ pc' = IF MustCancel THEN "submit" ELSE pc
    /\ back' = "user"
    /\ UNCHANGED <<frameVars, fdVars, co, handles, work, file, acc, cq, accepts>>

\* accept_cancel_awaitable::await_suspend; users cancel one at a time (a second
\* cancel would take the place of the first in the frame).
AsyncCancel(c) ==
    /\ pc = "user" /\ co[c] = "idle" /\ ~cnf.initiated
    /\ cnf' = [cnf EXCEPT !.h = c, !.initiated = TRUE]
    /\ sq' = Append(sq, Op("cancel", NoFd, 0))
    /\ refs' = refs + 2
    /\ co' = [co EXCEPT ![c] = "cancelling"]
    /\ UNCHANGED <<af, clf, fdVars, handles, pc, back, work, file, acc, cq, accepts>>

\* Mutant of AsyncClose: the cancel is left out.
AsyncCloseOnly(c) ==
    /\ pc = "user" /\ co[c] = "idle" /\ ~clf.initiated /\ fd # NoFd
    /\ clf' = [clf EXCEPT !.h = c, !.initiated = TRUE]
    /\ sq' = Append(sq, Op("close", NoFd, 0))
    /\ refs' = refs + 2
    /\ co' = [co EXCEPT ![c] = "closing"]
    /\ UNCHANGED <<af, cnf, fdVars, handles, pc, back, work, file, acc, cq, accepts>>

\* accept_close_awaitable::await_suspend: a cancel of everything on the socket
\* and, linked to it, the close.  Users close one at a time; a closed acceptor
\* is refused with EBADFD.
AsyncClose(c) ==
    /\ pc = "user" /\ co[c] = "idle" /\ ~clf.initiated /\ fd # NoFd
    /\ clf' = [clf EXCEPT !.h = c, !.initiated = TRUE]
    /\ sq' = sq \o <<Op("sever", NoFd, 0), Op("close", NoFd, 0)>>
    /\ refs' = refs + 2
    /\ co' = [co EXCEPT ![c] = "closing"]
    /\ UNCHANGED <<af, cnf, fdVars, handles, pc, back, work, file, acc, cq, accepts>>

\* accept_awaitable::await_resume: the slot becomes a stream's.  The destructor
\* of the awaitable finds the frame reset.
AcceptReturns(c) ==
    /\ co[c] = "accepting"
    /\ af' = AcceptReset
    /\ streams' = streams \cup ({af.peer} \ {NoFd})
    /\ UNCHANGED <<cnf, clf>>

CancelReturns(c) ==
    /\ co[c] = "cancelling"
    /\ cnf' = CancelReset
    /\ UNCHANGED <<af, clf, streams>>

CloseReturns(c) ==
    /\ co[c] = "closing"
    /\ clf' = CloseReset
    /\ UNCHANGED <<af, cnf, streams>>

Resume ==
    /\ pc = "user" /\ handles # <<>>
    /\ LET c == Head(handles) IN
         /\ AcceptReturns(c) \/ CancelReturns(c) \/ CloseReturns(c)
         /\ co' = [co EXCEPT ![c] = "idle"]
    /\ handles' = Tail(handles)
    /\ refs' = refs - 1
    /\ UNCHANGED <<fd, fds, pc, back, kernVars, accepts>>

LetGo(c) ==
    /\ pc = "user" /\ co[c] = "idle"
    /\ co' = [co EXCEPT ![c] = "gone"]
    /\ refs' = refs - 1
    /\ UNCHANGED <<af, cnf, clf, fdVars, handles, pc, back, kernVars, accepts>>

\* ~acceptor_impl, when the last reference is gone.
Destruct ==
    /\ Unreferenced /\ fd # NoFd
    /\ file' = [file EXCEPT ![fd] = "empty"]
    /\ fds' = fds \cup {fd}
    /\ fd' = NoFd
    /\ UNCHANGED <<frameVars, streams, loopVars, sq, work, acc, cq, accepts>>

\* ~stream_impl of a stream that was accepted.
StreamGone(s) ==
    /\ pc \in {"user", "abort"} /\ s \in streams
    /\ streams' = streams \ {s}
    /\ file' = [file EXCEPT ![s] = "empty"]
    /\ fds' = fds \cup {s}
    /\ UNCHANGED <<frameVars, fd, loopVars, sq, work, acc, cq, accepts>>

-----------------------------------------------------------------------------
(* The loop.                                                               *)

SubmitAndWait ==
    /\ pc = "user" /\ handles = <<>>
    /\ pc' = "submit" /\ back' = "reap"
    /\ UNCHANGED <<frameVars, fdVars, co, handles, kernVars, accepts>>

\* handle().
Collect(h) == IF h = None THEN handles ELSE Append(handles, h)

\* Mutant of ProcessAccept: the slot of a failed accept is forgotten.
ProcessAcceptKeepsSlot ==
    /\ Head(cq).op = "accept"
    /\ af' = [af EXCEPT !.done = TRUE, !.h = None,
                        !.peer = IF Head(cq).res = Ok THEN @ ELSE NoFd]
    /\ handles' = Collect(af.h)
    /\ UNCHANGED <<cnf, clf, fd, fds>>

\* accept_frame::await_process_cqe: an accept that failed gives its slot back.
ProcessAccept ==
    LET failed == Head(cq).res # Ok IN
    /\ Head(cq).op = "accept"
    /\ fds' = IF failed THEN fds \cup {af.peer} ELSE fds
    /\ af' = [af EXCEPT !.done = TRUE, !.h = None,
                        !.peer = IF failed THEN NoFd ELSE @]
    /\ handles' = Collect(af.h)
    /\ UNCHANGED <<cnf, clf, fd>>

\* cancel_frame::await_process_cqe.
ProcessCancel ==
    /\ Head(cq).op = "cancel"
    /\ cnf' = [cnf EXCEPT !.done = TRUE, !.h = None]
    /\ handles' = Collect(cnf.h)
    /\ UNCHANGED <<af, clf, fd, fds>>

\* acceptor_close_frame::await_process_cqe: the slot is given back whatever the
\* result.
ProcessClose ==
    /\ Head(cq).op = "close"
    /\ clf' = [clf EXCEPT !.done = TRUE, !.h = None]
    /\ fds' = fds \cup ({fd} \ {NoFd})
    /\ fd' = NoFd
    /\ handles' = Collect(clf.h)
    /\ UNCHANGED <<af, cnf>>

Reap ==
    /\ pc = "reap" /\ cq # <<>>
    /\ ProcessAccept \/ ProcessCancel \/ ProcessClose
    /\ cq' = Tail(cq)
    /\ refs' = refs - 1
    /\ UNCHANGED <<streams, co, pc, back, sq, work, file, acc, accepts>>

ReapDone ==
    /\ pc = "reap" /\ cq = <<>>
    /\ pc' = "user"
    /\ UNCHANGED <<frameVars, fdVars, co, handles, back, kernVars, accepts>>

-----------------------------------------------------------------------------
(* The kernel.                                                             *)

\* The completions when the accept in flight is cancelled.
Cancelled == IF acc = NoAccept THEN cq
             ELSE Append(cq, Done("accept", "ECANCELED", acc.n))

\* The slot the operation names holds the listening socket: a close whose
\* completion has not been processed yet has already emptied it.
Listening(o) == o.on # NoFd /\ file[o.on] = "listen"

\* cancel_fd finds what was started on the file that is in the slot.
OnFile(o) == Listening(o) /\ acc.on = o.on

Take(o) ==
    \/ /\ o.op = "accept" /\ Listening(o)
       /\ acc' = [n |-> o.n, slot |-> o.slot, on |-> o.on]
       /\ UNCHANGED <<work, cq>>
    \/ /\ o.op = "accept" /\ ~Listening(o)
       /\ cq' = Append(cq, Done("accept", "EBADF", o.n))
       /\ UNCHANGED <<work, acc>>
    \/ /\ o.op = "cancelAccept"
       /\ acc' = NoAccept /\ cq' = Cancelled
       /\ UNCHANGED work
    \/ /\ o.op \in {"cancel", "sever"}
       /\ LET ended == IF OnFile(o) THEN Cancelled ELSE cq IN
            cq' = IF o.op = "sever" THEN ended
                  ELSE Append(ended, Done("cancel", IF Listening(o) THEN Ok
                                                    ELSE "EBADF", 0))
       /\ acc' = IF OnFile(o) THEN NoAccept ELSE acc
       /\ UNCHANGED work
    \/ /\ o.op = "close"
       /\ work' = Append(work, o)
       /\ UNCHANGED <<acc, cq>>

KernelTakes ==
    /\ pc = "submit" /\ sq # <<>>
    /\ Take(Head(sq))
    /\ sq' = Tail(sq)
    /\ UNCHANGED <<frameVars, fdVars, loopVars, file, accepts>>

\* The close that was linked.  An accept in flight keeps the socket it has.  The
\* io_uring_submit of ~guard does not run the task work, every other one does.
KernelCloses ==
    /\ pc = "submit" /\ sq = <<>> /\ work # <<>> /\ back # "clear"
    /\ LET o == Head(work) IN
         /\ file' = [file EXCEPT ![o.on] = "empty"]
         /\ acc' = IF acc.on = o.on THEN [acc EXCEPT !.on = NoFd] ELSE acc
    /\ cq' = Append(cq, Done("close", Ok, 0))
    /\ work' = Tail(work)
    /\ UNCHANGED <<frameVars, fdVars, loopVars, sq, accepts>>

\* reserve_sqes finds no room in the queue, which may be full at any moment, and
\* submits it.
SubmitFull ==
    /\ pc = "user" /\ sq # <<>>
    /\ pc' = "submit" /\ back' = "user"
    /\ UNCHANGED <<frameVars, fdVars, co, handles, kernVars, accepts>>

SubmitDone ==
    /\ pc = "submit" /\ sq = <<>> /\ (work = <<>> \/ back = "clear")
    /\ pc' = IF back = "clear" THEN "abort" ELSE back
    /\ UNCHANGED <<frameVars, fdVars, co, handles, back, kernVars, accepts>>

\* A peer connects, or gives up before the accept.
KernelAccepts ==
    /\ acc # NoAccept /\ pc # "end"
    /\ \/ /\ cq' = Append(cq, Done("accept", Ok, acc.n))
          /\ file' = [file EXCEPT ![acc.slot] = "peer"]
       \/ /\ cq' = Append(cq, Done("accept", "ECONNABORTED", acc.n))
          /\ file' = file
    /\ acc' = NoAccept
    /\ UNCHANGED <<frameVars, fdVars, loopVars, sq, work, accepts>>

-----------------------------------------------------------------------------
(* run() is left by an exception.                                          *)

Abort ==
    /\ pc = "user"
    /\ pc' = "submit" /\ back' = "clear"
    /\ UNCHANGED <<frameVars, fdVars, co, handles, kernVars, accepts>>

DestroyCoro(c) ==
    /\ pc = "abort" /\ co[c] # "gone"
    /\ co' = [co EXCEPT ![c] = "gone"]
    /\ refs' = refs - (IF co[c] = "idle" THEN 1 ELSE 2)
    /\ IF co[c] = "accepting" /\ MustCancel
       THEN sq' = sq \o CancelAccept /\ pc' = "submit" /\ back' = "abort"
       ELSE UNCHANGED <<sq, pc, back>>
    /\ UNCHANGED <<af, cnf, clf, fdVars, handles, work, file, acc, cq, accepts>>

FlushStart ==
    /\ pc = "abort" /\ (\A c \in Coros : co[c] = "gone") /\ streams = {}
    /\ pc' = "flush"
    /\ handles' = <<>>
    /\ UNCHANGED <<frameVars, fdVars, co, back, kernVars, accepts>>

\* ~guard releases the reference of every completion, unprocessed.
Flush ==
    /\ pc = "flush" /\ cq # <<>>
    /\ refs' = refs - 1
    /\ cq' = Tail(cq)
    /\ UNCHANGED <<af, cnf, clf, fdVars, loopVars, sq, work, file, acc, accepts>>

FlushDone ==
    /\ pc = "flush" /\ cq = <<>> /\ (refs > 0 \/ fd = NoFd)
    /\ pc' = "end"
    /\ UNCHANGED <<frameVars, fdVars, co, handles, back, kernVars, accepts>>

-----------------------------------------------------------------------------

UserStep == \/ \E c \in Coros : \/ AsyncAccept(c) \/ AcceptBusy(c)
                                \/ AsyncCancel(c) \/ AsyncClose(c) \/ LetGo(c)
            \/ \E s \in Slots : StreamGone(s)

LoopStep == \/ SubmitFull
            \/ Resume \/ SubmitAndWait \/ KernelTakes \/ KernelCloses
            \/ SubmitDone \/ Reap \/ ReapDone \/ Destruct
            \/ FlushStart \/ Flush \/ FlushDone
            \/ \E c \in Coros : DestroyCoro(c)

Next == UserStep \/ LoopStep \/ KernelAccepts \/ Abort

Spec == Init /\ [][Next]_vars

\* The loop turns and comes back to a coroutine that is ready, whatever the
\* others do.  Nothing makes a peer connect.
FairSpec == Spec /\ WF_vars(LoopStep) /\ SF_vars(Resume) /\ SF_vars(SubmitAndWait)

-----------------------------------------------------------------------------
(* Correctness.                                                            *)

One(b) == IF b THEN 1 ELSE 0
Queued(s, op) == Cardinality({i \in 1..Len(s) : s[i].op = op})
InFlight(op) == Queued(sq, op) + Queued(work, op) + Queued(cq, op)
                + One(op = "accept" /\ acc # NoAccept)

\* The acceptor_impl has a reference for each copy, for each awaitable and for
\* each operation the kernel still has to complete.
RefCountExact ==
    refs = Cardinality({c \in Coros : co[c] # "gone"})
           + Cardinality({c \in Coros : co[c] \notin {"idle", "gone"}})
           + InFlight("accept") + InFlight("cancel") + InFlight("close")

\* When run() was left by an exception the acceptor_impl is freed, unless the
\* kernel was left with a close whose turn had not come.
FreedAfterRun == pc = "end" /\ work = <<>> => Unreferenced

\* The acceptor_impl is freed exactly when its last user has gone: a coroutine,
\* an awaitable or an operation in flight, also when run() is left.
References == TypeOK /\ RefCountExact /\ FreedAfterRun

\* Every slot has one owner: the free set, the listening socket, the accept that
\* reserved it, or an accepted stream.  A slot changes hands in await_suspend,
\* in the CQEs of accept and close, in await_resume and in two destructors.
\* A slot that can be given away holds no open file, and the slot of a stream
\* holds the connection.
SlotsPartition ==
    /\ fds \cap streams = {}
    /\ \A s \in {fd, af.peer} \ {NoFd} : s \notin fds \cup streams
    /\ fd = af.peer => fd = NoFd
    /\ Slots = fds \cup streams \cup ({fd, af.peer} \ {NoFd})
    /\ \A s \in fds : file[s] = "empty"
    /\ \A s \in streams : file[s] = "peer"

\* A completion meets the accept it belongs to, with the slot still reserved
\* (the assertion on peer_fd_ in await_process_cqe): neither a cancel of a
\* coroutine that was refused nor a close makes the frame free too early.
CompletionsAreOfThisAccept ==
    pc \notin {"flush", "end"} =>
      \A i \in 1..Len(cq) : cq[i].op = "accept" =>
          af.initiated /\ ~af.done /\ af.n = cq[i].n /\ af.peer \in Slots

\* A suspended coroutine is resumed once: its handle is in the frame of an
\* operation that is under way, or was collected.
ResumedOnce ==
    pc \in {"user", "submit", "reap"} /\ back \in {"user", "reap"} =>
      \A c \in Coros :
        Cardinality({i \in 1..Len(handles) : handles[i] = c}) =
          CASE co[c] = "accepting"  -> 1 - (IF af.h = c THEN InFlight("accept") ELSE 0)
            [] co[c] = "cancelling" -> 1 - (IF cnf.h = c THEN InFlight("cancel") ELSE 0)
            [] co[c] = "closing"    -> 1 - (IF clf.h = c THEN InFlight("close") ELSE 0)
            [] OTHER -> 0

\* Whoever accepts, cancels or closes is resumed once, by the completion of his
\* own operation.
Resumption == ResumedOnce /\ CompletionsAreOfThisAccept

\* async_close ends the accept that is in flight, so that its coroutine does not
\* wait for a peer that may never come.
CloseEndsAccept ==
    (acc # NoAccept /\ Queued(sq, "close") > 0) ~> (acc = NoAccept)

\* async_cancel and async_close return, unless run() is left.
CallsReturn ==
    \A c \in Coros : (co[c] \in {"cancelling", "closing"})
                        ~> (co[c] \in {"idle", "gone"})

\* Nobody is left waiting: a close wakes the accept it cancels, and the calls
\* that depend on the kernel only return.
EveryCallReturns == CloseEndsAccept /\ CallsReturn
=============================================================================

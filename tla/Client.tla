------------------------------- MODULE Client -------------------------------
(***************************************************************************)
(* fiona::tcp::client: one client_impl shared by several coroutines that   *)
(* connect it, close it and let go of it, the table of fixed files it      *)
(* takes its slot from, and what io_uring does with the operations.        *)
(*                                                                         *)
(* async_connect queues a chain: socket, connect, timeout of the connect.  *)
(* The client_impl embeds a frame for each operation; an operation in      *)
(* flight holds a reference to it through the user_data of its SQE.        *)
(* Connects are numbered (a history the code does not keep).               *)
(***************************************************************************)
EXTENDS Naturals, Sequences, FiniteSets

CONSTANTS
    Coros,        \* the coroutines that share the client
    Slots,        \* the slots of the fixed file table
    None,         \* a null coroutine_handle
    NoFd,         \* fd_ = -1
    MaxConnects,  \* bound: how many connects are started in a behaviour
    Uses          \* what the environment does beyond the usual, see below

\* "socketFails": the kernel may refuse to create a socket;
\* "sharedReconnect": coroutines connect a connected client at the same time;
\* "connectInClose": a coroutine connects while another one closes;
\* "sharedClose": coroutines close the client at the same time.
ASSUME ClientAssumption ==
    /\ IsFiniteSet(Coros) /\ Coros # {} /\ None \notin Coros
    /\ NoFd \notin Slots /\ MaxConnects \in Nat
    /\ Uses \subseteq {"socketFails", "sharedReconnect", "connectInClose",
                    "sharedClose"}

VARIABLES
    sf, cf, clf,  \* socket_frame, connect_frame, close_frame
    tm,           \* timeout_frame, the timer every stream keeps
    refs,         \* ref_count::count_ of the client_impl
    fd,           \* stream_impl::fd_
    connected,    \* stream_impl::connected_
    fds,          \* io_context_frame::fds_, the free slots
    others,       \* slots that other sockets of the loop hold
    co,           \* what each coroutine does with the client
    handles,      \* handles collected from the CQEs, not yet resumed
    pc, back,     \* what the loop thread does, where it goes after a submit
    sq,           \* SQEs queued and not submitted
    work,         \* linked operations whose turn comes with the task work
    file,         \* the kernel's side of the slots
    conn,         \* the connect in flight
    armed,        \* the kernel holds the timer
    cq,           \* completions not processed yet
    connects,     \* history: how many connects were started
    closedDuring  \* history: async_close came during the current connect

frameVars == <<sf, cf, clf, tm, refs>>
fdVars    == <<fd, connected, fds, others>>
loopVars  == <<co, handles, pc, back>>
kernVars  == <<sq, work, file, conn, armed, cq>>
histVars  == <<connects, closedDuring>>
vars      == <<frameVars, fdVars, loopVars, kernVars, histVars>>

Errors == {"ENFILE", "EMFILE", "ECANCELED", "ECONNREFUSED", "EISCONN", "EBADF"}
Ok == "ok"

Frame == [h : Coros \cup {None}, res : Errors \cup {Ok}, initiated : BOOLEAN,
          done : BOOLEAN, n : 0..MaxConnects]

\* A socket SQE stands for the whole chain and a close SQE for the cancel_fd it
\* is linked to.  The cancels carry null user_data.
Sqe == [op : {"timer", "removeTimer", "socket", "connect", "cancelSocket",
              "cancelConnect", "close", "sever"},
        slot : Slots \cup {NoFd}, n : 0..MaxConnects]
Cqe == [op : {"timer", "socket", "connect", "close"},
        res : Errors \cup {Ok}, n : 0..MaxConnects]

NoConn == [n |-> 0, slot |-> NoFd]

TypeOK ==
    /\ sf \in Frame /\ cf \in Frame /\ clf \in Frame
    /\ tm \in [initiated : BOOLEAN, cancelled : BOOLEAN]
    /\ refs \in Nat
    /\ fd \in Slots \cup {NoFd} /\ connected \in BOOLEAN
    /\ fds \subseteq Slots /\ others \subseteq Slots
    /\ co \in [Coros -> {"idle", "connecting", "closing", "gone"}]
    /\ handles \in Seq(Coros)
    /\ pc \in {"user", "submit", "reap", "abort", "flush", "end"}
    /\ back \in {"user", "reap", "clear", "abort"}
    /\ sq \in Seq(Sqe) /\ work \in Seq(Sqe) /\ cq \in Seq(Cqe)
    /\ file \in [Slots -> {"empty", "fresh", "connected", "other"}]
    /\ conn \in [n : 0..MaxConnects, slot : Slots \cup {NoFd}]
    /\ armed \in BOOLEAN
    /\ connects \in 0..MaxConnects /\ closedDuring \in BOOLEAN

\* reset() of each of the frames.
ResetFrame == [h |-> None, res |-> Ok, initiated |-> FALSE, done |-> FALSE,
               n |-> 0]

Op(op, slot, n)  == [op |-> op, slot |-> slot, n |-> n]
Done(op, res, n) == [op |-> op, res |-> res, n |-> n]

\* The constructor of io_context_frame: every slot is free.
InitialFds == Slots

\* The timer is queued and not cancelled.
NewTimer == [initiated |-> TRUE, cancelled |-> FALSE]

\* The client is created and every coroutine has a copy of it; the constructor
\* of stream_impl queued the timer.
Init ==
    /\ sf = ResetFrame /\ cf = ResetFrame /\ clf = ResetFrame
    /\ tm = NewTimer
    /\ refs = Cardinality(Coros) + 1
    /\ fd = NoFd /\ connected = FALSE /\ fds = InitialFds /\ others = {}
    /\ co = [c \in Coros |-> "idle"]
    /\ handles = <<>> /\ pc = "user" /\ back = "user"
    /\ sq = <<Op("timer", NoFd, 0)>> /\ work = <<>>
    /\ file = [s \in Slots |-> "empty"] /\ conn = NoConn /\ armed = FALSE
    /\ cq = <<>> /\ connects = 0 /\ closedDuring = FALSE

-----------------------------------------------------------------------------
(* async_connect.                                                          *)

\* await_suspend sets h_ and initiated_ and leaves the rest of a frame alone.
Started(f, c) == [f EXCEPT !.h = c, !.initiated = TRUE, !.n = connects + 1]

\* Mutant of BeginConnect: await_ready does not look whether one is under way.
BeginConnectUnguarded(c) ==
    /\ pc = "user" /\ co[c] = "idle" /\ connects < MaxConnects
    /\ ~clf.initiated
    /\ connects' = connects + 1
    /\ closedDuring' = FALSE
    /\ cf' = Started(cf, c)
    /\ co' = [co EXCEPT ![c] = "connecting"]
    /\ UNCHANGED <<clf, tm, connected, others, handles, pc, back, work, file,
                   conn, armed, cq>>

\* What every connect does once await_ready has let it through.
BeginConnect(c) ==
    /\ pc = "user" /\ co[c] = "idle" /\ connects < MaxConnects
    /\ "connectInClose" \in Uses \/ ~clf.initiated
    /\ ~sf.initiated
    /\ connects' = connects + 1
    /\ closedDuring' = clf.initiated
    /\ cf' = Started(cf, c)
    /\ co' = [co EXCEPT ![c] = "connecting"]
    /\ UNCHANGED <<clf, tm, connected, others, handles, pc, back, work, file,
                   conn, armed, cq>>

\* The client is connected: no socket is created.
ConnectAgain(c) ==
    /\ fd # NoFd /\ connected
    /\ "sharedReconnect" \in Uses \/ ~cf.initiated
    /\ BeginConnect(c)
    /\ sq' = Append(sq, Op("connect", fd, connects'))
    /\ refs' = refs + 2
    /\ UNCHANGED <<sf, fd, fds>>

\* A slot is taken unless an earlier connect that failed left one.
AsyncConnect(c) ==
    /\ fd = NoFd \/ ~connected
    /\ \E s \in IF fd = NoFd THEN fds ELSE {fd} :
          /\ fd' = s
          /\ fds' = fds \ {s}
          /\ BeginConnect(c)
          /\ sq' = Append(sq, Op("socket", s, connects'))
    /\ sf' = Started(sf, c)
    /\ refs' = refs + 3

\* No slot is left: await_suspend returns false, await_resume reports ENFILE
\* and resets the frames, ~connect_awaitable submits.
ConnectNoSlot(c) ==
    /\ pc = "user" /\ co[c] = "idle"
    /\ ~sf.initiated
    /\ fd = NoFd /\ fds = {}
    /\ "connectInClose" \in Uses \/ ~clf.initiated
    /\ sf' = ResetFrame /\ cf' = ResetFrame
    /\ pc' = "submit" /\ back' = "user"
    /\ UNCHANGED <<clf, tm, refs, fdVars, co, handles, kernVars, histVars>>

Active(f) == f.initiated /\ ~f.done

\* What ~connect_awaitable queues before it submits.
Cancels == (IF Active(sf) THEN <<Op("cancelSocket", NoFd, 0)>> ELSE <<>>)
           \o (IF Active(cf) THEN <<Op("cancelConnect", NoFd, 0)>> ELSE <<>>)

\* await_ready throws.  The awaitable destroyed on the way out sees the frames
\* of the coroutine that is connecting.
ConnectBusy(c) ==
    /\ pc = "user" /\ co[c] = "idle"
    /\ sf.initiated
    /\ sq' = sq \o Cancels
    /\ pc' = "submit" /\ back' = "user"
    /\ UNCHANGED <<frameVars, fdVars, co, handles, work, file, conn, armed, cq,
                   histVars>>

\* Mutant of ConnectReturns: done_ and res_ of the connect_frame survive.
ConnectReturnsHalfReset(c) ==
    /\ co[c] = "connecting"
    /\ sf' = ResetFrame
    /\ cf' = [cf EXCEPT !.initiated = FALSE]
    /\ pc' = "submit" /\ back' = "user"
    /\ UNCHANGED clf

\* connect_awaitable::await_resume; the frames are reset on every path.
\* ~connect_awaitable then submits whatever is queued.
ConnectReturns(c) ==
    /\ co[c] = "connecting"
    /\ sf' = ResetFrame /\ cf' = ResetFrame
    /\ pc' = "submit" /\ back' = "user"
    /\ UNCHANGED clf

-----------------------------------------------------------------------------
(* async_close and the destruction of the client.                          *)

\* queue_timer_cancel.
RemoveTimer == IF tm.initiated THEN <<Op("removeTimer", NoFd, 0)>> ELSE <<>>
TimerCancelled == [tm EXCEPT !.cancelled = @ \/ tm.initiated]

\* stream_close_awaitable::await_suspend; nothing refuses a second close.
AsyncClose(c) ==
    /\ pc = "user" /\ co[c] = "idle"
    /\ "sharedClose" \in Uses \/ ~clf.initiated
    /\ clf' = [clf EXCEPT !.h = c, !.initiated = TRUE]
    /\ sq' = Append(sq, Op("close", fd, 0)) \o RemoveTimer
    /\ tm' = TimerCancelled
    /\ refs' = refs + 2
    /\ closedDuring' = (closedDuring \/ cf.initiated)
    /\ co' = [co EXCEPT ![c] = "closing"]
    /\ UNCHANGED <<sf, cf, fdVars, handles, pc, back, work, file, conn, armed,
                   cq, connects>>

\* stream_close_awaitable::await_resume.
CloseReturns(c) ==
    /\ co[c] = "closing"
    /\ clf' = ResetFrame
    /\ UNCHANGED <<sf, cf, pc, back>>

Resume ==
    /\ pc = "user" /\ handles # <<>>
    /\ LET c == Head(handles) IN
         /\ ConnectReturns(c) \/ CloseReturns(c)
         /\ co' = [co EXCEPT ![c] = "idle"]
    /\ handles' = Tail(handles)
    /\ refs' = refs - 1
    /\ UNCHANGED <<tm, fdVars, kernVars, histVars>>

One(b) == IF b THEN 1 ELSE 0

\* Mutant of ActiveFrames: the connect_frame is forgotten.
ActiveFramesNoConnect == One(Active(sf)) + One(Active(clf)) + One(tm.initiated)

\* The references of the operations in flight, as ~client counts them.
ActiveFrames == One(Active(sf)) + One(Active(cf)) + One(Active(clf))
                + One(tm.initiated)

\* ~client: the last handle stops the timer, which would live on otherwise.
LastHandle(count) == count - ActiveFrames = 1

DropClient(count) ==
    /\ refs' = count - 1
    /\ tm' = IF LastHandle(count) THEN TimerCancelled ELSE tm

LetGo(c) ==
    /\ pc = "user" /\ co[c] = "idle"
    /\ co' = [co EXCEPT ![c] = "gone"]
    /\ DropClient(refs)
    /\ IF LastHandle(refs)
       THEN sq' = sq \o RemoveTimer /\ pc' = "submit" /\ back' = "user"
       ELSE UNCHANGED <<sq, pc, back>>
    /\ UNCHANGED <<sf, cf, clf, fdVars, handles, work, file, conn, armed, cq,
                   histVars>>

\* Mutant of Destruct: the slot is given back and the file stays open.
DestructNoClose ==
    /\ refs = 0 /\ fd # NoFd
    /\ fds' = fds \cup {fd}
    /\ fd' = NoFd
    /\ UNCHANGED <<frameVars, connected, others, loopVars, sq, work, file, conn,
                   armed, cq, histVars>>

\* ~stream_impl, when the last reference is gone: the slot is closed at once
\* and given back.
Destruct ==
    /\ refs = 0 /\ fd # NoFd
    /\ file' = [file EXCEPT ![fd] = "empty"]
    /\ fds' = fds \cup {fd}
    /\ fd' = NoFd
    /\ UNCHANGED <<frameVars, connected, others, loopVars, sq, work, conn,
                   armed, cq, histVars>>

-----------------------------------------------------------------------------
(* The loop: submit, then process every completion, then resume.           *)

SubmitAndWait ==
    /\ pc = "user" /\ handles = <<>>
    /\ pc' = "submit" /\ back' = "reap"
    /\ UNCHANGED <<frameVars, fdVars, co, handles, kernVars, histVars>>

\* Mutant of Collect: the handle of a completed operation is dropped.
CollectNothing(h) == handles

\* handle() of the frames that always hand out h_.
Collect(h) == IF h = None THEN handles ELSE Append(handles, h)

\* timeout_frame::await_process_cqe: the timer was cancelled.
ProcessTimer ==
    /\ Head(cq).op = "timer"
    /\ tm' = [initiated |-> FALSE, cancelled |-> FALSE]
    /\ UNCHANGED <<sf, cf, clf, fdVars, handles>>

\* socket_frame: only a failure resumes the coroutine.
ProcessSocket ==
    LET res == IF Head(cq).res # Ok THEN Head(cq).res ELSE sf.res IN
    /\ Head(cq).op = "socket"
    /\ sf' = [sf EXCEPT !.done = TRUE, !.res = res,
                        !.h = IF res = Ok THEN @ ELSE None]
    /\ handles' = IF res = Ok THEN handles ELSE Collect(sf.h)
    /\ IF Head(cq).res = Ok
       THEN UNCHANGED <<fd, fds>>
       ELSE fds' = fds \cup ({fd} \ {NoFd}) /\ fd' = NoFd
    /\ UNCHANGED <<cf, clf, tm, connected, others>>

\* connect_frame: EISCONN says that the client is connected already.
ProcessConnect ==
    LET res == Head(cq).res IN
    /\ Head(cq).op = "connect"
    /\ cf' = [cf EXCEPT !.done = TRUE, !.h = None,
                        !.res = IF res = Ok THEN @ ELSE res]
    /\ connected' = (res = Ok \/ (res = "EISCONN" /\ connected))
    /\ handles' = Collect(cf.h)
    /\ UNCHANGED <<sf, clf, tm, fd, fds, others>>

\* close_frame: the slot is given back whatever the result.
ProcessClose ==
    /\ Head(cq).op = "close"
    /\ clf' = [clf EXCEPT !.done = TRUE, !.res = Head(cq).res, !.h = None]
    /\ fds' = fds \cup ({fd} \ {NoFd})
    /\ fd' = NoFd
    /\ connected' = FALSE
    /\ handles' = Collect(clf.h)
    /\ UNCHANGED <<sf, cf, tm, others>>

Reap ==
    /\ pc = "reap" /\ cq # <<>>
    /\ ProcessTimer \/ ProcessSocket \/ ProcessConnect \/ ProcessClose
    /\ cq' = Tail(cq)
    /\ refs' = refs - 1
    /\ UNCHANGED <<co, pc, back, sq, work, file, conn, armed, histVars>>

\* send_frame: a send that failed says that the connection is gone; the socket
\* stays in the slot.  Nobody sends while the client is being connected.
ConnectionLost ==
    /\ pc = "reap" /\ connected /\ ~cf.initiated
    /\ connected' = FALSE
    /\ UNCHANGED <<frameVars, fd, fds, others, loopVars, kernVars, histVars>>

ReapDone ==
    /\ pc = "reap" /\ cq = <<>>
    /\ pc' = "user"
    /\ UNCHANGED <<frameVars, fdVars, co, handles, back, kernVars, histVars>>

-----------------------------------------------------------------------------
(* The kernel.                                                             *)

\* What a cancel does to the connect in flight.
Interrupt ==
    /\ conn' = NoConn
    /\ cq' = IF conn = NoConn THEN cq
             ELSE Append(cq, Done("connect", "ECANCELED", conn.n))

\* connect() on the file that is in the slot now.
StartConnect(o) ==
    \/ /\ o.slot = NoFd \/ file[o.slot] = "empty"
       /\ cq' = Append(cq, Done("connect", "EBADF", o.n)) /\ conn' = conn
    \/ /\ o.slot # NoFd /\ file[o.slot] = "connected"
       /\ cq' = Append(cq, Done("connect", "EISCONN", o.n)) /\ conn' = conn
    \/ /\ o.slot # NoFd /\ file[o.slot] = "fresh"
       /\ conn' = [n |-> o.n, slot |-> o.slot] /\ cq' = cq

\* An SQE is issued as it is submitted; what is linked to it comes after it,
\* with the task work.  So a cancel finds a connect in flight only: not the
\* socket, which completes at once, nor a connect that waits for its turn.
Take(o) ==
    \/ /\ o.op = "timer" /\ armed' = TRUE
       /\ UNCHANGED <<work, file, conn, cq>>
    \/ /\ o.op = "removeTimer" /\ armed' = FALSE
       /\ cq' = IF armed THEN Append(cq, Done("timer", "ECANCELED", 0)) ELSE cq
       /\ UNCHANGED <<work, file, conn>>
    \/ /\ o.op = "socket"
       /\ file' = [file EXCEPT ![o.slot] = "fresh"]
       /\ cq' = Append(cq, Done("socket", Ok, o.n))
       /\ work' = Append(work, [o EXCEPT !.op = "connect"])
       /\ UNCHANGED <<conn, armed>>
    \/ /\ o.op = "socket" /\ "socketFails" \in Uses
       /\ cq' = Append(cq, Done("socket", "EMFILE", o.n))
       /\ work' = Append(work, [o EXCEPT !.op = "sever"])
       /\ UNCHANGED <<file, conn, armed>>
    \/ /\ o.op = "connect" /\ StartConnect(o)
       /\ UNCHANGED <<work, file, armed>>
    \/ /\ o.op = "cancelSocket" /\ UNCHANGED <<work, file, conn, armed, cq>>
    \/ /\ o.op = "cancelConnect" /\ Interrupt
       /\ UNCHANGED <<work, file, armed>>
    \/ /\ o.op = "close"
       /\ IF o.slot # NoFd /\ conn.slot = o.slot THEN Interrupt
          ELSE UNCHANGED <<conn, cq>>
       /\ work' = Append(work, o)
       /\ UNCHANGED <<file, armed>>

KernelTakes ==
    /\ pc = "submit" /\ sq # <<>>
    /\ Take(Head(sq))
    /\ sq' = Tail(sq)
    /\ UNCHANGED <<frameVars, fdVars, loopVars, histVars>>

\* close_direct; a connect in flight keeps the socket it has.
CloseSlot(o) ==
    /\ file' = IF o.slot = NoFd THEN file ELSE [file EXCEPT ![o.slot] = "empty"]
    /\ cq' = Append(cq, Done("close", IF o.slot = NoFd THEN "EBADF" ELSE Ok, 0))
    /\ conn' = IF o.slot # NoFd /\ conn.slot = o.slot
               THEN [conn EXCEPT !.slot = NoFd] ELSE conn

\* The io_uring_submit of ~guard does not run the task work, every other
\* submit does.
KernelWorks ==
    /\ pc = "submit" /\ sq = <<>> /\ work # <<>> /\ back # "clear"
    /\ LET o == Head(work) IN
         \/ o.op = "connect" /\ StartConnect(o) /\ file' = file
         \/ o.op = "close" /\ CloseSlot(o)
         \/ /\ o.op = "sever"
            /\ cq' = Append(cq, Done("connect", "ECANCELED", o.n))
            /\ UNCHANGED <<file, conn>>
    /\ work' = Tail(work)
    /\ UNCHANGED <<frameVars, fdVars, loopVars, sq, armed, histVars>>

\* reserve_sqes finds no room in the queue, which may be full at any moment, and
\* submits it.
SubmitFull ==
    /\ pc = "user" /\ sq # <<>>
    /\ pc' = "submit" /\ back' = "user"
    /\ UNCHANGED <<frameVars, fdVars, co, handles, kernVars, histVars>>

SubmitDone ==
    /\ pc = "submit" /\ sq = <<>> /\ (work = <<>> \/ back = "clear")
    /\ pc' = IF back = "clear" THEN "abort" ELSE back
    /\ UNCHANGED <<frameVars, fdVars, co, handles, back, kernVars, histVars>>

\* The peer answers, or the timeout linked to the connect strikes.
KernelConnects ==
    /\ conn # NoConn /\ pc # "end"
    /\ \E res \in {Ok, "ECONNREFUSED", "ECANCELED"} :
          /\ cq' = Append(cq, Done("connect", res, conn.n))
          /\ file' = IF res = Ok /\ conn.slot # NoFd
                     THEN [file EXCEPT ![conn.slot] = "connected"] ELSE file
    /\ conn' = NoConn
    /\ UNCHANGED <<frameVars, fdVars, loopVars, sq, work, armed, histVars>>

\* Another socket of the loop takes a slot and gives it back.
OtherTakes(s) ==
    /\ pc = "user" /\ s \in fds
    /\ fds' = fds \ {s} /\ others' = others \cup {s}
    /\ file' = [file EXCEPT ![s] = "other"]
    /\ UNCHANGED <<frameVars, fd, connected, loopVars, sq, work, conn, armed,
                   cq, histVars>>

OtherReturns(s) ==
    /\ pc \in {"user", "abort"} /\ s \in others
    /\ fds' = fds \cup {s} /\ others' = others \ {s}
    /\ file' = [file EXCEPT ![s] = "empty"]
    /\ UNCHANGED <<frameVars, fd, connected, loopVars, sq, work, conn, armed,
                   cq, histVars>>

-----------------------------------------------------------------------------
(* run() is left by an exception.                                          *)

Abort ==
    /\ pc = "user"
    /\ pc' = "submit" /\ back' = "clear"
    /\ UNCHANGED <<frameVars, fdVars, co, handles, kernVars, histVars>>

\* A coroutine goes with its awaitable, if it has one, then with its client.
DestroyCoro(c) ==
    /\ pc = "abort" /\ co[c] # "gone"
    /\ co' = [co EXCEPT ![c] = "gone"]
    /\ LET count  == refs - One(co[c] # "idle")
           connecting == co[c] = "connecting"
       IN  /\ DropClient(count)
           /\ sq' = sq \o (IF connecting THEN Cancels ELSE <<>>)
                       \o (IF LastHandle(count) THEN RemoveTimer ELSE <<>>)
           /\ IF connecting \/ LastHandle(count)
              THEN pc' = "submit" /\ back' = "abort"
              ELSE UNCHANGED <<pc, back>>
    /\ UNCHANGED <<sf, cf, clf, fdVars, handles, work, file, conn, armed, cq,
                   histVars>>

FlushStart ==
    /\ pc = "abort" /\ \A c \in Coros : co[c] = "gone"
    /\ others = {}
    /\ pc' = "flush"
    /\ handles' = <<>>
    /\ UNCHANGED <<frameVars, fdVars, co, back, kernVars, histVars>>

\* ~guard releases the reference of every completion, unprocessed.
Flush ==
    /\ pc = "flush" /\ cq # <<>>
    /\ refs' = refs - 1
    /\ cq' = Tail(cq)
    /\ UNCHANGED <<sf, cf, clf, tm, fdVars, loopVars, sq, work, file, conn,
                   armed, histVars>>

FlushDone ==
    /\ pc = "flush" /\ cq = <<>> /\ (refs > 0 \/ fd = NoFd)
    /\ pc' = "end"
    /\ UNCHANGED <<frameVars, fdVars, co, handles, back, kernVars, histVars>>

-----------------------------------------------------------------------------

UserStep == \E c \in Coros : \/ ConnectAgain(c) \/ AsyncConnect(c)
                             \/ ConnectNoSlot(c) \/ ConnectBusy(c)
                             \/ AsyncClose(c) \/ LetGo(c)

LoopStep == \/ SubmitFull
            \/ Resume \/ SubmitAndWait \/ KernelTakes \/ KernelWorks
            \/ SubmitDone \/ Reap \/ ReapDone \/ Destruct
            \/ FlushStart \/ Flush \/ FlushDone
            \/ \E c \in Coros : DestroyCoro(c)

OtherStep == \E s \in Slots : OtherTakes(s) \/ OtherReturns(s)

Next == UserStep \/ LoopStep \/ KernelConnects \/ OtherStep \/ ConnectionLost \/ Abort

Spec == Init /\ [][Next]_vars

\* The loop turns, a connect in flight completes (a timeout is linked to it),
\* and no coroutine spins on a busy client.
FairSpec == /\ Spec /\ WF_vars(LoopStep) /\ WF_vars(KernelConnects)
            /\ SF_vars(Resume) /\ SF_vars(SubmitAndWait)

-----------------------------------------------------------------------------
(* Correctness.                                                            *)

Count(s, ops) == Cardinality({i \in 1..Len(s) : s[i].op \in ops})
InFlight(op) == Count(sq, {op}) + Count(work, {op}) + Count(cq, {op})
                + One(op = "timer" /\ armed) + One(op = "connect" /\ conn # NoConn)
\* A socket SQE that is not issued yet stands for the connect linked to it too.
Connecting == InFlight("connect") + Count(sq, {"socket"}) + Count(work, {"sever"})

Handles == Cardinality({c \in Coros : co[c] # "gone"})
           + Cardinality({c \in Coros : co[c] \in {"connecting", "closing"}})

\* The client_impl has a reference for each handle (a copy of the client or an
\* awaitable in a coroutine) and for each operation the kernel still has to
\* complete: it is not freed under the kernel and not kept without reason.
RefCountExact ==
    refs = Handles + InFlight("timer") + InFlight("socket") + Connecting
           + InFlight("close")

\* The arithmetic of ~client is right: the count without the active frames is
\* the number of handles, so the destructor that stops the timer is the one of
\* the last handle.  Otherwise the timer of a client nobody has goes on for
\* ever, or it stops under a coroutine that still uses the client.
LastHandleIsLast ==
    pc \notin {"flush", "end"} => refs - ActiveFrames = Handles

\* When run() was left by an exception the client is freed and all slots are
\* back, unless the connect started too late for ~connect_awaitable to cancel
\* it and the kernel still holds it.
NothingLeftBehind ==
    pc = "end" /\ conn = NoConn => refs = 0 /\ fds = Slots

\* The client_impl lives as long as a handle or an operation needs it and no
\* longer, in whatever order connects, closes, cancels and destructors come.
References == TypeOK /\ RefCountExact /\ LastHandleIsLast /\ NothingLeftBehind

\* Every slot of the file table is free, or the client's, or another socket's:
\* none is given away twice, none is lost, although a slot is returned in
\* three places (the CQE of a failed socket, of a close, the destructor).
SlotsPartition ==
    /\ fds \cap others = {}
    /\ fd \notin fds \cup others
    /\ Slots \ (fds \cup others) = {fd} \ {NoFd}

\* A slot that can be given to somebody else holds no open file.
FreeSlotsAreClosed == \A s \in fds : file[s] = "empty"

\* No slot is lost or given away twice, and none is given away with the socket
\* of the client still in it.
SlotsSound == SlotsPartition /\ FreeSlotsAreClosed

\* A connect that is about to return success leaves a client with a slot whose
\* socket is connected, unless somebody closed the client meanwhile.
SuccessMeansConnected ==
    /\ \E c \in Coros : co[c] = "connecting"
    /\ cf.done /\ cf.res = Ok /\ sf.res = Ok /\ ~closedDuring
    => connected /\ fd # NoFd /\ file[fd] = "connected"

\* A coroutine in async_connect or async_close is resumed once: its handle is
\* in the frame of an operation that will complete, or was collected.
ResumedOnce ==
    pc \in {"user", "submit", "reap"} /\ back \in {"user", "reap"} =>
      \A c \in Coros :
        Cardinality({i \in 1..Len(handles) : handles[i] = c}) =
          IF co[c] = "connecting"
          THEN IF cf.h = c THEN 1 - Connecting ELSE 1
          ELSE IF co[c] = "closing"
          THEN IF clf.h = c THEN 1 - InFlight("close") ELSE 1
          ELSE 0

\* A completion meets the attempt it belongs to: after a failed, cancelled or
\* closed connect no late CQE is taken for a CQE of the next one.
CompletionsAreOfThisConnect ==
    pc \notin {"flush", "end"} =>
      \A i \in 1..Len(cq) :
        /\ cq[i].op = "socket" => Active(sf) /\ sf.n = cq[i].n
        /\ cq[i].op = "connect" => Active(cf) /\ cf.n = cq[i].n

\* Whoever connects or closes is resumed once, by the completions of his own
\* attempt (handle() of the frames and the resets of await_resume).
Resumption == ResumedOnce /\ CompletionsAreOfThisConnect

\* Every async_connect and async_close returns, unless run() is left.
EveryConnectReturns ==
    \A c \in Coros : (co[c] \in {"connecting", "closing"})
                        ~> (co[c] \in {"idle", "gone"})
=============================================================================

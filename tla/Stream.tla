------------------------------- MODULE Stream -------------------------------
(***************************************************************************)
(* fiona::tcp::stream: one connected stream_impl shared by coroutines that *)
(* send, receive, shut down, cancel, close, set the timeout and let go,    *)
(* with the multishot timer that ends what has been idle for too long.     *)
(*                                                                         *)
(* The stream_impl embeds a frame for each operation; an operation in      *)
(* flight holds a reference to it through the user_data of its SQE.  What  *)
(* a receive does with its buffers is in module Recv; here it is reduced   *)
(* to whether data or an error waits to be read.                           *)
(***************************************************************************)
EXTENDS Naturals, Sequences, FiniteSets

CONSTANTS
    Coros,       \* the coroutines that share the stream
    None,        \* a null coroutine_handle
    MaxAdjusts,  \* bound: calls of stream::timeout in a behaviour
    Room,        \* bound: SQEs of the stream the queue takes before it is full
    Uses         \* what happens beyond the usual, see below

\* "lateLoop": the timer expires again before the loop has dealt with the last
\*    expiry and the cancel it asked for;
\* "timerEnds": the kernel ends the multishot timer (completion queue full).
ASSUME StreamAssumption ==
    /\ IsFiniteSet(Coros) /\ Coros # {} /\ None \notin Coros
    /\ MaxAdjusts \in Nat /\ Room \in Nat \ {0}
    /\ Uses \subseteq {"lateLoop", "timerEnds"}

VARIABLES
    fr,        \* send_frame, shutdown_frame, cancel_frame, close_frame
    rf,        \* recv_frame
    tm,        \* timeout_frame
    tc,        \* timeout_cancel_frame::initiated_
    sendAge,   \* expiries processed since last_send_
    refs,      \* ref_count::count_ of the stream_impl
    hasFd,     \* fd_ >= 0
    co,        \* what each coroutine does with the stream
    handles,   \* handles collected from the CQEs, not yet resumed
    pc, back,  \* what the loop thread does, where it goes after a submit
    sq,        \* SQEs queued and not submitted
    work,      \* linked operations whose turn comes with the task work
    file,      \* what the slot of the stream holds
    held,      \* operations the kernel holds, and whether the slot leads to them
    armed,     \* the kernel holds the timer
    cq,        \* completions not processed yet
    adjusts    \* how often stream::timeout was called

frameVars == <<fr, rf, tm, tc, sendAge, refs, hasFd>>
loopVars  == <<co, handles, pc, back>>
kernVars  == <<sq, work, file, held, armed, cq>>
vars      == <<frameVars, loopVars, kernVars, adjusts>>

FrameOps == {"send", "shutdown", "cancel", "close"}
HeldOps  == {"send", "recv", "shutdown"}
\* A send or receive that has been idle for this many expiries is overdue for
\* certain: one expiry may come just after it began, and be processed late.
Overdue == 2

Frame == [h : Coros \cup {None}, initiated : BOOLEAN, done : BOOLEAN]

\* A close SQE stands for the cancel_fd it is linked to as well; fd tells
\* whether fd_ was a slot when the SQE was written.  "foreign" is the SQE with
\* which somebody else fills the slot.
Sqe == [op : FrameOps \cup {"recv", "timer", "timerCancel", "removeTimer",
                            "cancelSend", "cancelRecv", "foreign"},
        fd : BOOLEAN]
Cqe == [op : FrameOps \cup {"recv", "timer", "timerCancel"},
        res : {"ok", "error", "ECANCELED", "ETIME"}, more : BOOLEAN]

TypeOK ==
    /\ fr \in [FrameOps -> Frame]
    /\ rf \in [h : Coros \cup {None}, initiated : BOOLEAN, data : BOOLEAN,
               ec : BOOLEAN, age : 0..Overdue]
    /\ tm \in [initiated : BOOLEAN, cancelled : BOOLEAN]
    /\ tc \in BOOLEAN /\ sendAge \in 0..Overdue
    /\ refs \in Nat /\ hasFd \in BOOLEAN
    /\ co \in [Coros -> FrameOps \cup {"recv", "idle", "gone"}]
    /\ handles \in Seq(Coros)
    /\ pc \in {"user", "submit", "reap", "abort", "flush", "end"}
    /\ back \in {"user", "reap", "clear", "abort"}
    /\ sq \in Seq(Sqe) /\ work \in Seq(Sqe) /\ cq \in Seq(Cqe)
    /\ file \in {"own", "empty", "foreign"}
    /\ held \in [HeldOps -> {"no", "slot", "orphan"}]
    /\ armed \in BOOLEAN /\ adjusts \in 0..MaxAdjusts

One(b) == IF b THEN 1 ELSE 0

\* reset() of the frames.
ResetFrame == [h |-> None, initiated |-> FALSE, done |-> FALSE]

Op(op) == [op |-> op, fd |-> hasFd]
Done(op, res) == [op |-> op, res |-> res, more |-> FALSE]

\* The constructor of stream_impl queued the timer, and every coroutine has a
\* copy of the stream.
Init ==
    /\ fr = [op \in FrameOps |-> ResetFrame]
    /\ rf = [h |-> None, initiated |-> FALSE, data |-> FALSE, ec |-> FALSE,
             age |-> 0]
    /\ tm = [initiated |-> TRUE, cancelled |-> FALSE]
    /\ tc = FALSE /\ sendAge = 0
    /\ refs = Cardinality(Coros) + 1
    /\ hasFd = TRUE
    /\ co = [c \in Coros |-> "idle"]
    /\ handles = <<>> /\ pc = "user" /\ back = "user"
    /\ sq = <<Op("timer")>> /\ work = <<>> /\ file = "own"
    /\ held = [op \in HeldOps |-> "no"] /\ armed = FALSE /\ cq = <<>>
    /\ adjusts = 0

-----------------------------------------------------------------------------
(* What the coroutines do.                                                 *)

\* A coroutine that starts something.
Free(c) == pc = "user" /\ co[c] = "idle"

\* await_suspend of the awaitables with a frame of their own: the SQE and the
\* awaitable each hold a reference.
Begin(c, op) ==
    /\ fr' = [fr EXCEPT ![op].h = c, ![op].initiated = TRUE]
    /\ co' = [co EXCEPT ![c] = op]
    /\ refs' = refs + 2
    /\ UNCHANGED <<hasFd, handles, pc, back, work, file, held, armed, cq,
                   adjusts>>

\* async_send checks it; for the kinds without a busy check it is left to the
\* users not to start two at a time.
May(op) == ~fr[op].initiated

\* send_awaitable::await_suspend.
AsyncSend(c) ==
    /\ Free(c) /\ May("send")
    /\ Begin(c, "send")
    /\ sendAge' = 0
    /\ sq' = Append(sq, Op("send"))
    /\ UNCHANGED <<rf, tm, tc>>

Active(f) == f.initiated /\ ~f.done

\* A second send throws EBUSY.  Its awaitable, destroyed on the way out, sees
\* the frame of the send that is under way and cancels it.
SendBusy(c) ==
    /\ Free(c) /\ fr["send"].initiated
    /\ Active(fr["send"])
    /\ sq' = Append(sq, Op("cancelSend"))
    /\ pc' = "submit" /\ back' = "user"
    /\ UNCHANGED <<frameVars, co, handles, work, file, held, armed, cq, adjusts>>

\* shutdown_awaitable and stream_cancel_awaitable assert that fd_ is a slot.
AsyncShutdown(c) ==
    /\ Free(c) /\ May("shutdown") /\ hasFd
    /\ Begin(c, "shutdown")
    /\ sq' = Append(sq, Op("shutdown"))
    /\ UNCHANGED <<rf, tm, tc, sendAge>>

AsyncCancel(c) ==
    /\ Free(c) /\ May("cancel") /\ hasFd
    /\ Begin(c, "cancel")
    /\ sq' = Append(sq, Op("cancel"))
    /\ UNCHANGED <<rf, tm, tc, sendAge>>

\* queue_timer_cancel.
RemoveTimer == IF tm.initiated THEN <<Op("removeTimer")>> ELSE <<>>
TimerCancelled == [tm EXCEPT !.cancelled = @ \/ tm.initiated]

\* Mutant of AsyncClose: the slot is given back when the close is queued.
AsyncCloseGivesBack(c) ==
    /\ Free(c) /\ May("close")
    /\ fr' = [fr EXCEPT !["close"].h = c, !["close"].initiated = TRUE]
    /\ co' = [co EXCEPT ![c] = "close"]
    /\ refs' = refs + 2
    /\ hasFd' = FALSE
    /\ sq' = Append(sq, Op("close")) \o RemoveTimer
    /\ tm' = TimerCancelled
    /\ UNCHANGED <<rf, tc, sendAge, handles, pc, back, work, file, held, armed,
                   cq, adjusts>>

\* stream_close_awaitable::await_suspend: cancel_fd and close_direct in a chain,
\* and the timer goes too.
AsyncClose(c) ==
    /\ Free(c) /\ May("close")
    /\ Begin(c, "close")
    /\ sq' = Append(sq, Op("close")) \o RemoveTimer
    /\ tm' = TimerCancelled
    /\ UNCHANGED <<rf, tc, sendAge>>

\* recv_awaitable: await_ready finds data, or await_suspend stores the handle,
\* finds an error and returns false.
RecvAtOnce(c) ==
    /\ Free(c) /\ \A d \in Coros : co[d] # "recv"
    /\ rf.data \/ rf.ec
    /\ rf' = IF rf.data THEN [rf EXCEPT !.data = FALSE]
             ELSE [rf EXCEPT !.ec = FALSE, !.h = c]
    /\ UNCHANGED <<fr, tm, tc, sendAge, refs, hasFd, loopVars, kernVars, adjusts>>

\* It suspends, and schedule_recv is called unless a receive is under way.
AsyncRecv(c) ==
    /\ Free(c) /\ \A d \in Coros : co[d] # "recv"
    /\ ~rf.data /\ ~rf.ec
    /\ co' = [co EXCEPT ![c] = "recv"]
    /\ refs' = refs + 1 + One(~rf.initiated)
    /\ IF rf.initiated
       THEN rf' = [rf EXCEPT !.h = c] /\ sq' = sq
       ELSE /\ rf' = [rf EXCEPT !.h = c, !.initiated = TRUE, !.age = 0]
            /\ sq' = Append(sq, Op("recv"))
    /\ UNCHANGED <<fr, tm, tc, sendAge, hasFd, handles, pc, back, work, file,
                   held, armed, cq, adjusts>>

\* stream::timeout removes the timer; the CQE of the removal arms it again with
\* the new period, against which nothing is overdue yet.
Timeout(c) ==
    /\ Free(c) /\ adjusts < MaxAdjusts
    /\ adjusts' = adjusts + 1
    /\ sq' = Append(sq, Op("removeTimer"))
    /\ sendAge' = 0 /\ rf' = [rf EXCEPT !.age = 0]
    /\ UNCHANGED <<fr, tm, tc, refs, hasFd, loopVars, work, file, held, armed, cq>>

\* await_resume, then the awaitable is destroyed.
Resume ==
    /\ pc = "user" /\ handles # <<>>
    /\ LET c == Head(handles) IN
         /\ \/ /\ co[c] \in FrameOps
               /\ fr' = [fr EXCEPT ![co[c]] = ResetFrame] /\ rf' = rf
            \/ /\ co[c] = "recv"
               /\ rf' = IF rf.data THEN [rf EXCEPT !.data = FALSE]
                        ELSE [rf EXCEPT !.ec = FALSE]
               /\ fr' = fr
         /\ co' = [co EXCEPT ![c] = "idle"]
    /\ handles' = Tail(handles)
    /\ refs' = refs - 1
    /\ UNCHANGED <<tm, tc, sendAge, hasFd, pc, back, kernVars, adjusts>>

\* Mutant of ActiveFrames: the cancel that the timer asked for is forgotten.
ActiveFramesNoTimerCancel ==
    Cardinality({op \in FrameOps : Active(fr[op])})
    + One(rf.initiated) + One(tm.initiated)

\* The references of the operations in flight, as ~stream counts them.
ActiveFrames == Cardinality({op \in FrameOps : Active(fr[op])})
                + One(rf.initiated) + One(tm.initiated) + One(tc)

LastHandle(count) == count - ActiveFrames = 1

\* Mutant of LastCancels: a receive nobody waits for goes on.
LastCancelsTimer == RemoveTimer

\* What the last handle queues: cancel_timer and cancel_recv.
LastCancels == RemoveTimer
               \o (IF rf.initiated THEN <<Op("cancelRecv")>> ELSE <<>>)

\* ~stream, for a handle that is one of count references.
DropStream(count) ==
    /\ refs' = count - 1
    /\ tm' = IF LastHandle(count) THEN TimerCancelled ELSE tm

LetGo(c) ==
    /\ Free(c)
    /\ co' = [co EXCEPT ![c] = "gone"]
    /\ DropStream(refs)
    /\ IF LastHandle(refs)
       THEN sq' = sq \o LastCancels /\ pc' = "submit" /\ back' = "user"
       ELSE UNCHANGED <<sq, pc, back>>
    /\ UNCHANGED <<fr, rf, tc, sendAge, hasFd, handles, work, file, held, armed,
                   cq, adjusts>>

\* ~stream_impl: the slot is closed at once and given back.
Destruct ==
    /\ refs = 0 /\ hasFd
    /\ file' = "empty" /\ hasFd' = FALSE
    /\ UNCHANGED <<fr, rf, tm, tc, sendAge, refs, loopVars, sq, work, held,
                   armed, cq, adjusts>>

-----------------------------------------------------------------------------
(* The loop: submit, then process every completion, then resume.           *)

SubmitAndWait ==
    /\ pc = "user" /\ handles = <<>>
    /\ pc' = "submit" /\ back' = "reap"
    /\ UNCHANGED <<frameVars, co, handles, kernVars, adjusts>>

\* Mutant of Collect: the handle of a completed operation is dropped.
CollectNothing(h) == handles

\* handle() gives h_ away.
Collect(h) == IF h = None THEN handles ELSE Append(handles, h)

\* The frames of send, shutdown and cancel.  That a failed send takes connected_
\* away is ConnectionLost of Client: only the next connect looks at it.
ProcessFrame(e) ==
    /\ e.op \in FrameOps \ {"close"}
    /\ fr' = [fr EXCEPT ![e.op].done = TRUE, ![e.op].h = None]
    /\ handles' = Collect(fr[e.op].h)
    /\ refs' = refs - 1
    /\ sendAge' = IF e.op = "send" THEN 0 ELSE sendAge
    /\ UNCHANGED <<rf, tm, tc, hasFd, sq>>

\* close_frame: fd_ is given back.
ProcessClose(e) ==
    /\ e.op = "close"
    /\ fr' = [fr EXCEPT !["close"].done = TRUE, !["close"].h = None]
    /\ handles' = Collect(fr["close"].h)
    /\ hasFd' = FALSE
    /\ refs' = refs - 1
    /\ UNCHANGED <<rf, tm, tc, sendAge, sq>>

\* recv_frame: a completion with MORE keeps the reference.
ProcessRecv(e) ==
    /\ e.op = "recv"
    /\ rf' = [h |-> None, initiated |-> e.more,
              data |-> rf.data \/ e.res = "ok",
              ec |-> rf.ec \/ e.res # "ok",
              age |-> IF e.res = "ok" \/ ~e.more THEN 0 ELSE rf.age]
    /\ handles' = Collect(rf.h)
    /\ refs' = IF e.more THEN refs ELSE refs - 1
    /\ UNCHANGED <<fr, tm, tc, sendAge, hasFd, sq>>

\* timeout_cancel_frame.
ProcessTimerCancel(e) ==
    /\ e.op = "timerCancel"
    /\ tc' = FALSE
    /\ refs' = refs - 1
    /\ UNCHANGED <<fr, rf, tm, sendAge, hasFd, handles, sq>>

\* timeout_frame, first two branches: the timer was removed for good, or it was
\* removed to be armed with another period.
ProcessRemoved(e) ==
    /\ e.op = "timer" /\ e.res = "ECANCELED"
    /\ IF tm.cancelled
       THEN /\ tm' = [initiated |-> FALSE, cancelled |-> FALSE]
            /\ refs' = refs - 1 /\ sq' = sq
       ELSE /\ tm' = [tm EXCEPT !.initiated = TRUE]
            /\ refs' = refs /\ sq' = Append(sq, Op("timer"))
    /\ UNCHANGED <<fr, rf, tc, sendAge, hasFd, handles>>

Older(age) == IF age = Overdue THEN age ELSE age + 1

\* The ages of what the timer watches.
Idle == (IF rf.initiated THEN {rf.age} ELSE {})
        \cup (IF Active(fr["send"]) THEN {sendAge} ELSE {})

\* timeout_frame, the timer has expired: what has been idle for a period is
\* cancelled through the slot.
ProcessExpired(e) ==
    /\ e.op = "timer" /\ e.res = "ETIME"
    /\ \E cancel \in BOOLEAN :
          /\ cancel => Idle # {}
          /\ Overdue \in Idle => cancel
          /\ tc' = (tc \/ cancel)
          /\ refs' = refs + One(cancel)
          /\ sq' = sq \o (IF cancel THEN <<Op("timerCancel")>> ELSE <<>>)
                      \o (IF e.more THEN <<>> ELSE <<Op("timer")>>)
    /\ rf' = [rf EXCEPT !.age = IF rf.initiated THEN Older(@) ELSE 0]
    /\ sendAge' = IF Active(fr["send"]) THEN Older(sendAge) ELSE 0
    /\ tm' = [tm EXCEPT !.initiated = @ \/ ~e.more]
    /\ UNCHANGED <<fr, hasFd, handles>>

Reap ==
    /\ pc = "reap" /\ cq # <<>>
    /\ LET e == Head(cq) IN
          \/ ProcessFrame(e) \/ ProcessClose(e) \/ ProcessRecv(e)
          \/ ProcessTimerCancel(e) \/ ProcessRemoved(e) \/ ProcessExpired(e)
    /\ cq' = Tail(cq)
    /\ UNCHANGED <<co, pc, back, work, file, held, armed, adjusts>>

ReapDone ==
    /\ pc = "reap" /\ cq = <<>>
    /\ pc' = "user"
    /\ UNCHANGED <<frameVars, co, handles, back, kernVars, adjusts>>

-----------------------------------------------------------------------------
(* The kernel.                                                             *)

Ended(ops, op) == IF op \notin ops THEN <<>>
                  ELSE <<Done(op, IF op = "recv" THEN "error" ELSE "ok")>>

\* Operations that are cancelled report it, and are no longer held.
EndHeld(ops, own) ==
    /\ held' = [op \in HeldOps |-> IF op \in ops THEN "no" ELSE held[op]]
    /\ cq' = cq \o Ended(ops, "send") \o Ended(ops, "recv")
                \o Ended(ops, "shutdown") \o own

\* cancel_fd: everything the slot leads to, but perhaps not a shutdown, which
\* may be running in a worker thread of the kernel.
CancelFd(o, own) ==
    LET there == {op \in HeldOps : o.fd /\ held[op] = "slot"} IN
    \E ops \in {there, there \ {"shutdown"}} : EndHeld(ops, own)

\* A send, receive or shutdown is issued on the file in the slot.
Issue(o) ==
    \/ /\ o.fd /\ file = "own"
       /\ held' = [held EXCEPT ![o.op] = "slot"] /\ cq' = cq
    \/ /\ o.op = "send" /\ o.fd /\ file = "own"
       /\ cq' = Append(cq, Done("send", "ok")) /\ held' = held
    \/ /\ ~o.fd \/ file # "own"
       /\ cq' = Append(cq, Done(o.op, IF o.op = "recv" THEN "error" ELSE "ok"))
       /\ held' = held

\* An SQE is issued as it is submitted; what is linked to it comes after it,
\* with the task work.
Take(o) ==
    \/ /\ o.op = "timer" /\ armed' = TRUE /\ UNCHANGED <<work, file, held, cq>>
    \/ /\ o.op = "removeTimer" /\ armed' = FALSE
       /\ cq' = IF armed THEN Append(cq, Done("timer", "ECANCELED")) ELSE cq
       /\ UNCHANGED <<work, file, held>>
    \/ /\ o.op \in HeldOps /\ Issue(o) /\ UNCHANGED <<work, file, armed>>
    \/ /\ o.op \in {"cancel", "timerCancel"}
       /\ CancelFd(o, <<Done(o.op, "ok")>>)
       /\ UNCHANGED <<work, file, armed>>
    \/ /\ o.op = "cancelSend"
       /\ EndHeld({"send"} \cap {op \in HeldOps : held[op] # "no"}, <<>>)
       /\ UNCHANGED <<work, file, armed>>
    \/ /\ o.op = "cancelRecv"
       /\ EndHeld({"recv"} \cap {op \in HeldOps : held[op] # "no"}, <<>>)
       /\ UNCHANGED <<work, file, armed>>
    \/ /\ o.op = "close" /\ CancelFd(o, <<>>)
       /\ work' = Append(work, o) /\ UNCHANGED <<file, armed>>
    \/ /\ o.op = "foreign" /\ file' = "foreign"
       /\ UNCHANGED <<work, held, armed, cq>>

KernelTakes ==
    /\ pc = "submit" /\ sq # <<>>
    /\ Take(Head(sq))
    /\ sq' = Tail(sq)
    /\ UNCHANGED <<frameVars, loopVars, adjusts>>

\* close_direct; an operation in flight keeps the socket it has.  The
\* io_uring_submit of ~guard does not run the task work.
KernelWorks ==
    /\ pc = "submit" /\ sq = <<>> /\ work # <<>> /\ back # "clear"
    /\ IF Head(work).fd
       THEN /\ file' = "empty"
            /\ held' = [op \in HeldOps |->
                          IF held[op] = "slot" THEN "orphan" ELSE held[op]]
            /\ cq' = Append(cq, Done("close", "ok"))
       ELSE cq' = Append(cq, Done("close", "ok")) /\ UNCHANGED <<file, held>>
    /\ work' = Tail(work)
    /\ UNCHANGED <<frameVars, loopVars, sq, armed, adjusts>>

\* reserve_sqes finds no room in the queue, which others fill too, and submits it,
\* also while completions are processed.
SubmitFull ==
    /\ pc \in {"user", "reap"} /\ Len(sq) >= Room
    /\ pc' = "submit" /\ back' = pc
    /\ UNCHANGED <<frameVars, co, handles, kernVars, adjusts>>

SubmitDone ==
    /\ pc = "submit" /\ sq = <<>> /\ (work = <<>> \/ back = "clear")
    /\ pc' = IF back = "clear" THEN "abort" ELSE back
    /\ back' = "user"
    /\ UNCHANGED <<frameVars, co, handles, kernVars, adjusts>>

\* The peer reads, sends, closes or resets; a worker runs the shutdown.  This
\* happens at any time, but the loop looks at the completion queue after a submit
\* only and touches nothing of the kernel's in between, so that it is enough to
\* let it happen during a submit.  When run() is left, all that counts of the
\* completions is which operations they are of (Flush), so that those that would
\* come before what the submit brings may as well come after it.
KernelCompletes(op) ==
    /\ held[op] # "no" /\ pc = "submit" /\ back # "abort"
    /\ back = "clear" => sq = <<>>
    /\ \/ /\ op # "recv"
          /\ cq' = Append(cq, Done(op, "ok"))
          /\ held' = [held EXCEPT ![op] = "no"]
       \/ /\ op = "recv" /\ \A i \in 1..Len(cq) : cq[i].op # "recv"
          /\ \/ /\ cq' = Append(cq, [Done("recv", "ok") EXCEPT !.more = TRUE])
                /\ held' = held
             \/ /\ \E res \in {"ok", "error"} :
                      cq' = Append(cq, Done("recv", res))
                /\ held' = [held EXCEPT !["recv"] = "no"]
    /\ UNCHANGED <<frameVars, loopVars, sq, work, file, armed, adjusts>>

Expiries == Cardinality({i \in 1..Len(cq) : cq[i].op = "timer"})

\* The timer expires.  The loop has dealt with the last expiry by then, unless
\* it is late.
Expire ==
    /\ armed /\ pc = "submit" /\ back # "abort"
    /\ back = "clear" => sq = <<>>
    /\ (Expiries = 0 /\ ~tc) \/ ("lateLoop" \in Uses /\ Expiries < 2)
    /\ \E more \in BOOLEAN :
          /\ more \/ "timerEnds" \in Uses
          /\ cq' = Append(cq, [Done("timer", "ETIME") EXCEPT !.more = more])
          /\ armed' = more
    /\ UNCHANGED <<frameVars, loopVars, sq, work, file, held, adjusts>>

\* The slot is free, and another socket of the loop takes it.
OtherTakes ==
    /\ pc = "user" /\ ~hasFd /\ file # "foreign"
    /\ \A i \in 1..Len(sq) : sq[i].op # "foreign"
    /\ sq' = Append(sq, Op("foreign"))
    /\ UNCHANGED <<frameVars, loopVars, work, file, held, armed, cq, adjusts>>

-----------------------------------------------------------------------------
(* run() is left by an exception.                                          *)

\* The handles that were collected are forgotten, and nobody looks at the time
\* or at what was received any more.
Abort ==
    /\ pc = "user"
    /\ pc' = "submit" /\ back' = "clear" /\ handles' = <<>>
    /\ sendAge' = 0
    /\ rf' = [rf EXCEPT !.h = None, !.data = FALSE, !.ec = FALSE, !.age = 0]
    /\ adjusts' = 0
    /\ UNCHANGED <<fr, tm, tc, refs, hasFd, co, kernVars>>

\* A coroutine goes with its awaitable, if it has one, then with its stream.
\* Only the awaitable of a send cancels.
DestroyCoro(c) ==
    /\ pc = "abort" /\ co[c] # "gone"
    /\ co' = [co EXCEPT ![c] = "gone"]
    /\ LET count == refs - One(co[c] # "idle")
           sending == co[c] = "send" /\ Active(fr["send"])
       IN  /\ DropStream(count)
           /\ sq' = sq \o (IF sending THEN <<Op("cancelSend")>> ELSE <<>>)
                       \o (IF LastHandle(count) THEN LastCancels ELSE <<>>)
           /\ IF sending \/ LastHandle(count)
              THEN pc' = "submit" /\ back' = "abort"
              ELSE UNCHANGED <<pc, back>>
    /\ UNCHANGED <<fr, rf, tc, sendAge, hasFd, handles, work, file, held, armed,
                   cq, adjusts>>

\* ~guard releases one reference for each frame that has completions, however
\* many it has: the operation may be multishot.
Flush ==
    /\ pc = "abort" /\ \A c \in Coros : co[c] = "gone"
    /\ pc' = "end"
    /\ refs' = refs - Cardinality({cq[i].op : i \in 1..Len(cq)})
    /\ cq' = <<>>
    /\ UNCHANGED <<fr, rf, tm, tc, sendAge, hasFd, co, handles, back, sq, work,
                   file, held, armed, adjusts>>

-----------------------------------------------------------------------------

UserStep == \E c \in Coros :
    \/ AsyncSend(c) \/ SendBusy(c) \/ AsyncShutdown(c) \/ AsyncCancel(c)
    \/ AsyncClose(c) \/ RecvAtOnce(c) \/ AsyncRecv(c) \/ Timeout(c) \/ LetGo(c)

LoopStep == \/ SubmitFull
            \/ Resume \/ SubmitAndWait \/ KernelTakes \/ KernelWorks
            \/ SubmitDone \/ Reap \/ ReapDone \/ Destruct \/ Flush
            \/ \E c \in Coros : DestroyCoro(c)

KernelStep == Expire \/ \E op \in HeldOps : KernelCompletes(op)

Next == UserStep \/ LoopStep \/ KernelStep \/ OtherTakes \/ Abort

Spec == Init /\ [][Next]_vars

\* The loop turns, time passes and a worker thread runs a shutdown.  The peer
\* need not do anything.
FairSpec == /\ Spec /\ WF_vars(LoopStep) /\ SF_vars(Resume \/ SubmitAndWait)
            /\ SF_vars(Expire) /\ SF_vars(KernelCompletes("shutdown"))

-----------------------------------------------------------------------------
(* Correctness.                                                            *)

InQueue(s, op) == \E i \in 1..Len(s) : s[i].op = op
\* The kernel has or will have the operation, or its completion is unread.
InFlight(op) ==
    \/ InQueue(sq, op) \/ InQueue(work, op) \/ InQueue(cq, op)
    \/ op \in HeldOps /\ held[op] # "no"
    \/ op = "timer" /\ armed

Ops == FrameOps \cup {"recv", "timer", "timerCancel"}
Handles == Cardinality({c \in Coros : co[c] # "gone"})
           + Cardinality({c \in Coros : co[c] \notin {"idle", "gone"}})

\* The stream_impl has a reference for each handle and each operation in flight,
\* however many completions a multishot operation has.
RefCountExact ==
    refs = Handles + Cardinality({op \in Ops : InFlight(op)})

\* The arithmetic of ~stream is right, so the destructor that stops the timer
\* and the receive is that of the last handle.
LastHandleIsLast == refs - ActiveFrames = Handles

\* Until run() is left the count is exact and ~stream draws the right
\* conclusion from it, while the timer, which holds a reference too, expires,
\* is replaced and cancels.
References ==
    TypeOK /\ (pc # "end" => RefCountExact /\ LastHandleIsLast)

\* Every coroutine that waits is resumed once: its handle is in the frame of an
\* operation in flight, or was collected.
Resumption ==
    pc \notin {"abort", "end"} /\ back \notin {"clear", "abort"} =>
      \A c \in Coros :
        LET n == Cardinality({i \in 1..Len(handles) : handles[i] = c})
            op == co[c]
            waits == IF op = "recv" THEN rf.h = c ELSE fr[op].h = c
        IN  IF op \in {"idle", "gone"} THEN n = 0
            ELSE n = IF waits /\ InFlight(op) THEN 0 ELSE 1

\* BOOST_ASSERT( fd >= 0 ) in the timer: what is idle enough to be cancelled
\* belongs to a stream that has its slot.
TimerFindsSlot ==
    pc = "reap" /\ cq # <<>> /\ Head(cq).op = "timer" /\ Head(cq).res = "ETIME"
        /\ Idle # {} => hasFd

SlotOps == HeldOps \cup {"cancel", "timerCancel", "close"}

\* An operation that names the slot never meets a socket that got the slot
\* afterwards, although SQEs are written with the fd_ of that moment, the timer
\* cancels by slot and a close comes late, with the task work.
SlotIsOwn ==
    /\ TimerFindsSlot
    /\ pc = "submit" =>
          /\ sq # <<>> /\ Head(sq).op \in SlotOps /\ Head(sq).fd
                => file # "foreign"
          /\ work # <<>> /\ Head(work).fd => file # "foreign"

\* Every call returns although the peer does nothing at all: the timer sees to
\* sends and receives.  The exception is an operation that was issued after the
\* cancel of a close and before the close itself: no slot leads to it any more
\* and the timer is gone, so that it ends when the peer ends it, or never.  The
\* coroutines are interchangeable, and c is any of them.
EveryCallReturns ==
    LET c == CHOOSE c \in Coros : TRUE IN
    (co[c] \notin {"idle", "gone"})
        ~> \/ co[c] \in {"idle", "gone"}
           \/ co[c] \in HeldOps /\ held[co[c]] = "orphan"

\* When the last handle is gone and has submitted its cancels, the kernel holds
\* neither timer nor receive nor send, and what remains is to read completions:
\* with RefCountExact, the stream_impl is freed and its slot given back.  When
\* run() is left this has happened, unless a worker still runs a shutdown.
NothingLeftBehind ==
    /\ (\A c \in Coros : co[c] = "gone") /\ pc \in {"user", "reap", "abort", "end"}
          => ~armed /\ held["recv"] = "no" /\ held["send"] = "no"
    /\ pc = "end" /\ held["shutdown"] = "no" => refs = 0
=============================================================================

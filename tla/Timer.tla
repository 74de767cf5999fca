-------------------------------- MODULE Timer --------------------------------
(***************************************************************************)
(* fiona::timer: one timer_impl shared by several coroutines of one loop.  *)
(* It embeds two frames, the timeout_frame of async_wait and the           *)
(* cancel_frame of async_cancel; each operation in flight holds a          *)
(* reference to the timer_impl through the user_data of its SQE.           *)
(*                                                                         *)
(* Waits are numbered (a history the code does not keep) so that it can be *)
(* said which wait a completion and a result belong to.                    *)
(***************************************************************************)
EXTENDS Naturals, Sequences, FiniteSets

CONSTANTS
    Coros,      \* the coroutines that share the timer
    None,       \* a null coroutine_handle
    MaxWaits    \* bound: how many waits are started in a behaviour

ASSUME TimerAssumption ==
    None \notin Coros /\ IsFiniteSet(Coros) /\ MaxWaits \in Nat

VARIABLES
    tf,         \* the timeout_frame
    cf,         \* the cancel_frame
    refs,       \* ref_count::count_ of the timer_impl
    co,         \* what each coroutine does with the timer
    handles,    \* handles collected from the CQEs, not yet resumed
    pc,         \* what the loop thread does
    back,       \* where the thread continues after a submit
    sq,         \* SQEs queued and not submitted
    armed,      \* the wait whose timeout the kernel holds, 0 if none
    cq,         \* completions not processed yet
    waits,      \* history: how many waits were started
    result,     \* history: what each wait returned
    confirmed   \* history: waits async_cancel reported as cancelled

frameVars == <<tf, cf, refs>>
loopVars  == <<co, handles, pc, back>>
kernVars  == <<sq, armed, cq>>
histVars  == <<waits, result, confirmed>>
vars      == <<frameVars, loopVars, kernVars, histVars>>

Waits == 1..MaxWaits
Ecs   == {"ok", "ECANCELED", "ENOENT"}

\* SQEs: a timeout, a cancel whose CQE goes to the cancel_frame, and the cancel
\* queued by ~timer_awaitable whose user_data is null.
Sqe == [op : {"timeout", "cancel", "drop"}, wait : 0..MaxWaits]
Cqe == [op : {"timeout", "cancel"}, ec : Ecs, wait : 0..MaxWaits]

Frame == [h : Coros \cup {None}, initiated : BOOLEAN, done : BOOLEAN,
          ec : Ecs, wait : 0..MaxWaits]

TypeOK ==
    /\ tf \in Frame /\ cf \in Frame
    /\ refs \in Nat
    /\ co \in [Coros -> {"idle", "waiting", "cancelling", "gone"}]
    /\ handles \in Seq(Coros)
    /\ pc \in {"user", "submit", "reap", "abort", "flush", "end"}
    /\ back \in {"user", "reap", "abort"}
    /\ sq \in Seq(Sqe) /\ armed \in 0..MaxWaits /\ cq \in Seq(Cqe)
    /\ waits \in 0..MaxWaits
    /\ result \in [Waits -> {"none", "expired", "ECANCELED"}]
    /\ confirmed \subseteq Waits

\* timeout_frame::reset; the number of the wait goes with it.
NewFrame == [h |-> None, initiated |-> FALSE, done |-> FALSE, ec |-> "ok",
             wait |-> 0]

\* cancel_frame::reset leaves h_ alone.
CancelReset == [NewFrame EXCEPT !.h = cf.h]

Init ==
    /\ tf = NewFrame /\ cf = NewFrame
    /\ refs = 1 + Cardinality(Coros)    \* the timer and a copy in each coroutine
    /\ co = [c \in Coros |-> "idle"]
    /\ handles = <<>>
    /\ pc = "user" /\ back = "user"
    /\ sq = <<>> /\ armed = 0 /\ cq = <<>>
    /\ waits = 0
    /\ result = [w \in Waits |-> "none"]
    /\ confirmed = {}

-----------------------------------------------------------------------------
(* The awaitables.                                                         *)

\* Mutant of AsyncWait: the timer is never found busy.
AsyncWaitUnguarded(c) ==
    /\ pc = "user" /\ co[c] = "idle" /\ waits < MaxWaits
    /\ waits' = waits + 1
    /\ tf' = [tf EXCEPT !.h = c, !.initiated = TRUE, !.wait = waits']
    /\ sq' = Append(sq, [op |-> "timeout", wait |-> waits'])
    /\ refs' = refs + 2
    /\ co' = [co EXCEPT ![c] = "waiting"]
    /\ UNCHANGED <<cf, handles, pc, back, armed, cq, result, confirmed>>

\* await_ready and await_suspend of async_wait.  The awaitable and the SQE
\* hold a reference each.
AsyncWait(c) ==
    /\ pc = "user" /\ co[c] = "idle" /\ waits < MaxWaits
    /\ ~tf.initiated
    /\ waits' = waits + 1
    /\ tf' = [tf EXCEPT !.h = c, !.initiated = TRUE, !.wait = waits']
    /\ sq' = Append(sq, [op |-> "timeout", wait |-> waits'])
    /\ refs' = refs + 2
    /\ co' = [co EXCEPT ![c] = "waiting"]
    /\ UNCHANGED <<cf, handles, pc, back, armed, cq, result, confirmed>>

\* Mutant of MustCancel: the destructor leaves the timeout in the kernel.
MustCancelNever == FALSE

\* ~timer_awaitable: is there a timeout to cancel?
MustCancel == tf.initiated /\ ~tf.done

\* The cancel is submitted at once, together with what was queued before it.
DropCancel(ret) ==
    IF MustCancel
    THEN /\ sq' = Append(sq, [op |-> "drop", wait |-> 0])
         /\ pc' = "submit" /\ back' = ret
    ELSE UNCHANGED <<sq, pc, back>>

\* The timer is busy: await_ready throws, and the awaitable that is destroyed
\* on the way out sees the frame of the coroutine that does wait.
AsyncWaitBusy(c) ==
    /\ pc = "user" /\ co[c] = "idle"
    /\ tf.initiated
    /\ DropCancel("user")
    /\ UNCHANGED <<frameVars, co, handles, armed, cq, histVars>>

AsyncCancel(c) ==
    /\ pc = "user" /\ co[c] = "idle"
    /\ ~cf.initiated
    /\ cf' = [cf EXCEPT !.h = c, !.initiated = TRUE]
    /\ sq' = Append(sq, [op |-> "cancel", wait |-> 0])
    /\ refs' = refs + 2
    /\ co' = [co EXCEPT ![c] = "cancelling"]
    /\ UNCHANGED <<tf, handles, pc, back, armed, cq, histVars>>

\* Mutant of WaitReturns: the result is not looked at.
WaitReturnsSuccess(c) ==
    /\ co[c] = "waiting"
    /\ result' = [result EXCEPT ![tf.wait] = "expired"]
    /\ tf' = NewFrame
    /\ UNCHANGED <<cf, confirmed>>

\* timer_awaitable::await_resume, then ~timer_awaitable, which finds the frame
\* reset.
WaitReturns(c) ==
    /\ co[c] = "waiting"
    /\ result' = [result EXCEPT ![tf.wait] =
                     IF tf.ec = "ok" THEN "expired" ELSE tf.ec]
    /\ tf' = NewFrame
    /\ UNCHANGED <<cf, confirmed>>

\* timer_cancel_awaitable::await_resume.
CancelReturns(c) ==
    /\ co[c] = "cancelling"
    /\ cf.initiated /\ cf.done
    /\ confirmed' = IF cf.ec = "ok" THEN confirmed \cup {cf.wait} ELSE confirmed
    /\ cf' = CancelReset
    /\ UNCHANGED <<tf, result>>

Resume ==
    /\ pc = "user" /\ handles # <<>>
    /\ LET c == Head(handles) IN
         /\ WaitReturns(c) \/ CancelReturns(c)
         /\ co' = [co EXCEPT ![c] = "idle"]
    /\ handles' = Tail(handles)
    /\ refs' = refs - 1
    /\ UNCHANGED <<pc, back, kernVars, waits>>

-----------------------------------------------------------------------------
(* The loop: submit, then process every completion, then resume.           *)

SubmitAndWait ==
    /\ pc = "user" /\ handles = <<>>
    /\ pc' = "submit" /\ back' = "reap"
    /\ UNCHANGED <<frameVars, co, handles, kernVars, histVars>>

\* get_sqe submits when the submission queue is full.
SubmitFull ==
    /\ pc = "user" /\ sq # <<>>
    /\ pc' = "submit" /\ back' = "user"
    /\ UNCHANGED <<frameVars, co, handles, kernVars, histVars>>

TimeoutCqe(ec) == [op |-> "timeout", ec |-> ec, wait |-> armed]
CancelCqe(ec)  == [op |-> "cancel", ec |-> ec, wait |-> armed]

\* The kernel takes one SQE.  A cancel that finds its target completes both,
\* in either order; the one with null user_data posts nothing of its own
\* (IOSQE_CQE_SKIP_SUCCESS, and its failure is skipped by the loop).  ENOENT
\* stands for every way a cancel can come too late.
KernelTakes ==
    /\ pc = "submit" /\ sq # <<>>
    /\ sq' = Tail(sq)
    /\ CASE Head(sq).op = "timeout" ->
              armed' = Head(sq).wait /\ cq' = cq
         [] Head(sq).op = "cancel" ->
              IF armed = 0
              THEN cq' = Append(cq, CancelCqe("ENOENT")) /\ armed' = 0
              ELSE /\ armed' = 0
                   /\ \/ cq' = cq \o <<CancelCqe("ok"), TimeoutCqe("ECANCELED")>>
                      \/ cq' = cq \o <<TimeoutCqe("ECANCELED"), CancelCqe("ok")>>
         [] Head(sq).op = "drop" ->
              /\ armed' = 0
              /\ cq' = IF armed = 0 THEN cq
                       ELSE Append(cq, TimeoutCqe("ECANCELED"))
    /\ UNCHANGED <<frameVars, loopVars, histVars>>

SubmitDone ==
    /\ pc = "submit" /\ sq = <<>>
    /\ pc' = back
    /\ UNCHANGED <<frameVars, co, handles, back, kernVars, histVars>>

KernelExpires ==
    /\ armed # 0 /\ pc # "end"
    /\ cq' = Append(cq, TimeoutCqe("ok"))
    /\ armed' = 0
    /\ UNCHANGED <<frameVars, loopVars, sq, histVars>>

\* Mutant of Collect: the handle of a completed operation is dropped.
CollectNothing(h) == handles

\* handle() of either frame: the handle is taken out.
Collect(h) == IF h = None THEN handles ELSE Append(handles, h)

\* timeout_frame::await_process_cqe and handle(); 0 and ETIME are no errors.
\* cancel_frame::await_process_cqe and handle().
\* The reference of the operation ends with the intrusive_ptr of the loop.
Process(e) ==
    /\ IF e.op = "timeout"
       THEN /\ tf' = [tf EXCEPT !.done = TRUE, !.ec = e.ec, !.h = None]
            /\ handles' = Collect(tf.h)
            /\ cf' = cf
       ELSE /\ cf' = [cf EXCEPT !.done = TRUE, !.ec = e.ec, !.h = None,
                                !.wait = e.wait]
            /\ handles' = Collect(cf.h)
            /\ tf' = tf
    /\ refs' = refs - 1

Reap ==
    /\ pc = "reap" /\ cq # <<>>
    /\ Process(Head(cq))
    /\ cq' = Tail(cq)
    /\ UNCHANGED <<co, pc, back, sq, armed, histVars>>

ReapDone ==
    /\ pc = "reap" /\ cq = <<>>
    /\ pc' = "user"
    /\ UNCHANGED <<frameVars, co, handles, back, kernVars, histVars>>

-----------------------------------------------------------------------------
(* run() is left by an exception: the coroutines are destroyed, then the    *)
(* completions are released.                                               *)

Abort ==
    /\ pc = "user"
    /\ pc' = "submit" /\ back' = "abort"
    /\ UNCHANGED <<frameVars, co, handles, kernVars, histVars>>

\* A coroutine goes with its awaitable, if it has one, and its copy of the
\* timer.
DestroyCoro(c) ==
    /\ pc = "abort" /\ co[c] # "gone"
    /\ co' = [co EXCEPT ![c] = "gone"]
    /\ refs' = refs - (IF co[c] = "idle" THEN 1 ELSE 2)
    /\ IF co[c] = "waiting" THEN DropCancel("abort")
                            ELSE UNCHANGED <<sq, pc, back>>
    /\ UNCHANGED <<tf, cf, handles, armed, cq, histVars>>

FlushStart ==
    /\ pc = "abort" /\ \A c \in Coros : co[c] = "gone"
    /\ pc' = "flush"
    /\ handles' = <<>>
    /\ UNCHANGED <<frameVars, co, back, kernVars, histVars>>

\* ~guard: every CQE gives back the reference of its operation.  A pointer is
\* released once (the blacklist); each frame has one operation in flight.
Flush ==
    /\ pc = "flush" /\ cq # <<>>
    /\ refs' = refs - 1
    /\ cq' = Tail(cq)
    /\ UNCHANGED <<tf, cf, loopVars, sq, armed, histVars>>

\* The owner of the timer lets go of it.
FlushDone ==
    /\ pc = "flush" /\ cq = <<>>
    /\ pc' = "end"
    /\ refs' = refs - 1
    /\ UNCHANGED <<tf, cf, co, handles, back, kernVars, histVars>>

-----------------------------------------------------------------------------

UserStep == \E c \in Coros : AsyncWait(c) \/ AsyncWaitBusy(c) \/ AsyncCancel(c)

LoopStep == \/ Resume \/ SubmitAndWait \/ SubmitDone \/ KernelTakes \/ Reap
            \/ ReapDone \/ FlushStart \/ Flush \/ FlushDone
            \/ \E c \in Coros : DestroyCoro(c)

Next == UserStep \/ LoopStep \/ KernelExpires \/ SubmitFull \/ Abort

Spec == Init /\ [][Next]_vars

\* The loop turns, a timeout the kernel holds expires, and no coroutine spins:
\* one that is told again and again that the timer is busy gives way to the
\* loop in the end.
FairSpec == /\ Spec /\ WF_vars(LoopStep) /\ WF_vars(KernelExpires)
            /\ SF_vars(Resume) /\ SF_vars(SubmitAndWait)

-----------------------------------------------------------------------------
(* Correctness.                                                            *)

InSq(op) == Cardinality({i \in 1..Len(sq) : sq[i].op = op})
InCq(op) == Cardinality({i \in 1..Len(cq) : cq[i].op = op})
Timeouts == InSq("timeout") + InCq("timeout") + (IF armed = 0 THEN 0 ELSE 1)
Cancels  == InSq("cancel") + InCq("cancel")

\* The reference count of the timer_impl is exact: the owner, the copies and
\* awaitables in the coroutines that are left, and one for each operation in
\* flight.  So it is freed when, and only when, the kernel knows of it no more,
\* also when run() is left half way; busy waits and dropped awaitables included.
RefCountExact ==
    /\ pc = "end" => refs = 0
    /\ refs = (IF pc = "end" THEN 0 ELSE 1) + Timeouts + Cancels
              + Cardinality({c \in Coros : co[c] # "gone"})
              + Cardinality({c \in Coros : co[c] \in {"waiting", "cancelling"}})

\* The timer_impl is freed exactly when its last user has gone: nobody's handle
\* (the owner, a coroutine, user_data of an SQE) is left or forgotten.
References == TypeOK /\ RefCountExact

\* A coroutine that waits is going to be resumed, and once: either its handle
\* is in the frame and one operation that will complete is in flight, or its
\* handle has been collected.
ResumedOnce ==
    pc \in {"user", "submit", "reap"} /\ back # "abort" =>
      \A c \in Coros :
        LET collected == Cardinality({i \in 1..Len(handles) : handles[i] = c})
        IN  collected =
              CASE co[c] = "waiting"    -> IF tf.h = c THEN 1 - Timeouts ELSE 1
                [] co[c] = "cancelling" -> IF cf.h = c THEN 1 - Cancels ELSE 1
                [] OTHER                -> 0

\* A completion always meets the wait it belongs to: no late CQE of an earlier
\* wait, cancelled or not, completes the next one.
CompletionsAreOfThisWait ==
    \A i \in 1..Len(cq) : cq[i].op = "timeout" =>
        tf.initiated /\ ~tf.done /\ cq[i].wait = tf.wait

\* Whoever waits or cancels is resumed once, by the completion of his own
\* operation (handle() and the busy test of await_ready).
Resumption == ResumedOnce /\ CompletionsAreOfThisWait

\* What async_cancel reports is true: a wait it reported as cancelled does not
\* return success.
CancelIsTruthful ==
    \A w \in confirmed : w > 0 => result[w] \in {"none", "ECANCELED"}

\* Every wait and every cancel returns, unless run() is left.
EveryWaitReturns ==
    \A c \in Coros : (co[c] \in {"waiting", "cancelling"})
                        ~> (co[c] \in {"idle", "gone"})

=============================================================================

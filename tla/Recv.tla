-------------------------------- MODULE Recv --------------------------------
(***************************************************************************)
(* async_recv: multishot receives of several streams that take their       *)
(* buffers from registered buffer rings.  Each stream has one coroutine    *)
(* that reads; a stream sends a numbered sequence of chunks, then EOF.     *)
(*                                                                         *)
(* A buffer of a ring is known by its id.  The kernel takes it from the    *)
(* ring and names it in a CQE; the recv_frame moves the memory out of      *)
(* bufs_ and puts the id on the stack buf_ids_; await_resume takes ids     *)
(* from the stack and hands them to the kernel with new memory.            *)
(***************************************************************************)
EXTENDS Naturals, Sequences, FiniteSets, SequencesExt

CONSTANTS
    Streams,
    Groups,     \* buffer groups that are registered
    NumBufs,    \* buffers in each ring
    MaxData,    \* bound: chunks each peer sends before EOF
    Uses        \* what the users do beyond the usual, see below

\* "regroup": set_buffer_group is called while data is still unread;
\* "drop": a stream is destroyed while data is still unread;
\* "cancel": somebody calls async_cancel.
ASSUME RecvAssumption ==
    /\ NumBufs \in Nat \ {0} /\ MaxData \in Nat /\ IsFiniteSet(Streams)
    /\ Uses \subseteq {"regroup", "drop", "cancel"}

Ids == 1..NumBufs

VARIABLES
    rf,         \* recv_frame of each stream
    cancelled,  \* stream_impl::stream_cancelled_
    reader,     \* what the coroutine of a stream does
    ring,       \* ids the kernel may take, per group
    stack,      \* buf_ids_ up to buf_id_pos_, per group
    bufs,       \* ids whose recv_buffer in bufs_ has memory, per group
    handles,    \* coroutines (by stream) collected from the CQEs
    pc,         \* the loop thread: in coroutines ("user") or submitting for them
                \* ("flush"), submitting before it waits, processing CQEs
    sq,         \* SQEs queued and not submitted
    armed,      \* streams whose multishot receive the kernel holds
    cq,         \* completions not processed yet
    arrived,    \* chunks the kernel has put in buffers, per stream
    got         \* history: chunks async_recv has returned, in order

frameVars == <<rf, cancelled, reader>>
ringVars  == <<ring, stack, bufs>>
kernVars  == <<sq, armed, cq, arrived>>
vars      == <<frameVars, ringVars, handles, pc, kernVars, got>>

\* What a recv_buffer holds: chunk n, or nothing (0) at EOF.
Errors == {"ENOBUFS", "ECANCELED", "ETIMEDOUT"}
NoError == "none"

Cqe == [s : Streams, kind : {"data", "eof"} \cup Errors, n : 0..MaxData,
        id : Ids \cup {0}, more : BOOLEAN]

Sqe == [op : {"recv", "timeout", "cancel"}, s : Streams]
Frame == [buffers : Seq(0..MaxData), ec : Errors \cup {NoError}, h : BOOLEAN,
          initiated : BOOLEAN, group : Groups, ring : Groups]

TypeOK ==
    /\ rf \in [Streams -> Frame]
    /\ cancelled \subseteq Streams
    /\ reader \in [Streams -> {"idle", "waiting", "eof", "gone"}]
    /\ ring \in [Groups -> Seq(Ids)] /\ stack \in [Groups -> Seq(Ids)]
    /\ bufs \in [Groups -> SUBSET Ids]
    /\ handles \in Seq(Streams)
    /\ pc \in {"user", "flush", "submit", "reap"}
    /\ sq \in Seq(Sqe)
    /\ armed \subseteq Streams
    /\ cq \in Seq(Cqe)
    /\ arrived \in [Streams -> 0..MaxData]
    /\ got \in [Streams -> Seq(0..MaxData)]

\* The constructor of buf_ring hands every id to the kernel.
FullRing == [i \in Ids |-> i]

\* The buf_rings are registered and full; h_ is null (a frame resumes one coroutine, so h_ is
\* modelled by whether it is set).
Init ==
    /\ rf \in [Streams -> {[buffers |-> <<>>, ec |-> NoError, h |-> FALSE,
                            initiated |-> FALSE, group |-> g, ring |-> g]
                           : g \in Groups}]
    /\ cancelled = {}
    /\ reader = [s \in Streams |-> "idle"]
    /\ ring = [g \in Groups |-> FullRing]
    /\ stack = [g \in Groups |-> <<>>]
    /\ bufs = [g \in Groups |-> Ids]
    /\ handles = <<>> /\ pc = "user"
    /\ sq = <<>> /\ armed = {} /\ cq = <<>>
    /\ arrived = [s \in Streams |-> 0]
    /\ got = [s \in Streams |-> <<>>]

-----------------------------------------------------------------------------
(* recv_awaitable.                                                         *)

\* recv_frame::schedule_recv.
ScheduleRecv(s) ==
    /\ rf' = [rf EXCEPT ![s].h = TRUE, ![s].initiated = TRUE,
                        ![s].ring = rf[s].group]
    /\ sq' = Append(sq, [op |-> "recv", s |-> s])

\* await_ready finds nothing and await_suspend neither.
RecvSuspends(s) ==
    /\ pc = "user" /\ reader[s] = "idle"
    /\ rf[s].buffers = <<>> /\ rf[s].ec = NoError
    /\ IF rf[s].initiated
       THEN rf' = [rf EXCEPT ![s].h = TRUE] /\ sq' = sq
       ELSE ScheduleRecv(s)
    /\ reader' = [reader EXCEPT ![s] = "waiting"]
    /\ UNCHANGED <<cancelled, ringVars, handles, pc, armed, cq, arrived, got>>

\* The buffers before the first empty one.
Data(bs) ==
    LET ends == {i \in 1..Len(bs) : bs[i] = 0} IN
    IF ends = {} THEN bs
    ELSE SubSeq(bs, 1, (CHOOSE i \in ends : \A j \in ends : i <= j) - 1)

\* Mutant of Replenish: nothing goes back.
ReplenishNone(s) == 0

\* How many ids go back to the kernel: one for each buffer before the EOF, as
\* long as the stack has one.
Replenish(s) ==
    LET n == Len(Data(rf[s].buffers))
        m == Len(stack[rf[s].group])
    IN  IF n < m THEN n ELSE m

\* await_resume: the error comes after the data.  h is what h_ has been set to.
RecvReturns(s, h) ==
    LET g == rf[s].group
        k == Replenish(s)
        left == Len(stack[g]) - k
        back == Reverse(SubSeq(stack[g], left + 1, Len(stack[g])))
        done == Len(rf[s].buffers) > 0 /\ Last(rf[s].buffers) = 0
    IN
    IF rf[s].buffers = <<>>
    THEN /\ rf' = [rf EXCEPT ![s].ec = NoError, ![s].h = h]
         /\ reader' = [reader EXCEPT ![s] = "idle"]
         /\ UNCHANGED <<ringVars, got>>
    ELSE /\ stack' = [stack EXCEPT ![g] = SubSeq(@, 1, left)]
         /\ bufs' = [bufs EXCEPT ![g] = @ \cup ToSet(back)]
         /\ ring' = [ring EXCEPT ![g] = @ \o back]
         /\ rf' = [rf EXCEPT ![s].buffers = <<>>, ![s].h = h]
         /\ got' = [got EXCEPT ![s] = @ \o rf[s].buffers]
         /\ reader' = [reader EXCEPT ![s] = IF done THEN "eof" ELSE "idle"]

\* async_recv does not suspend: await_ready finds buffers, or await_suspend
\* stores the handle in h_, finds an error and returns false.
RecvAtOnce(s) ==
    /\ pc = "user" /\ reader[s] = "idle"
    /\ rf[s].buffers # <<>> \/ rf[s].ec # NoError
    /\ RecvReturns(s, rf[s].h \/ rf[s].buffers = <<>>)
    /\ UNCHANGED <<cancelled, handles, pc, kernVars>>

Resume ==
    /\ pc = "user" /\ handles # <<>>
    /\ RecvReturns(Head(handles), rf[Head(handles)].h)
    /\ handles' = Tail(handles)
    /\ UNCHANGED <<cancelled, pc, kernVars>>

-----------------------------------------------------------------------------
(* What else the users do.                                                 *)

\* Mutant of Recycle: the id stays on the stack.
RecycleKeepsId(g) ==
    /\ pc = "user" /\ stack[g] # <<>>
    /\ bufs' = [bufs EXCEPT ![g] = @ \cup {Last(stack[g])}]
    /\ ring' = [ring EXCEPT ![g] = Append(@, Last(stack[g]))]
    /\ UNCHANGED <<stack, frameVars, handles, pc, kernVars, got>>

\* executor::recycle_buffer: memory of the user for an id on the stack; nothing
\* happens when the stack is empty.
Recycle(g) ==
    /\ pc = "user" /\ stack[g] # <<>>
    /\ stack' = [stack EXCEPT ![g] = Front(@)]
    /\ bufs' = [bufs EXCEPT ![g] = @ \cup {Last(stack[g])}]
    /\ ring' = [ring EXCEPT ![g] = Append(@, Last(stack[g]))]
    /\ UNCHANGED <<frameVars, handles, pc, kernVars, got>>

\* stream::set_buffer_group throws while a receive is under way.
SetBufferGroup(s, g) ==
    /\ pc = "user" /\ reader[s] = "idle" /\ rf[s].group # g
    /\ ~rf[s].initiated
    /\ "regroup" \in Uses \/ rf[s].buffers = <<>>
    /\ rf' = [rf EXCEPT ![s].group = g]
    /\ UNCHANGED <<cancelled, reader, ringVars, handles, pc, kernVars, got>>

\* stream::async_cancel, once in a behaviour, a bound of the model; the
\* coroutine that awaits the cancel is not followed.
AsyncCancel(s) ==
    /\ "cancel" \in Uses
    /\ pc = "user" /\ reader[s] \in {"idle", "waiting"} /\ cancelled = {}
    /\ cancelled' = cancelled \cup {s}
    /\ sq' = Append(sq, [op |-> "cancel", s |-> s])
    /\ UNCHANGED <<rf, reader, ringVars, handles, pc, armed, cq, arrived, got>>

\* ~stream: cancel_timer always submits, cancel_recv when a receive is under way.
\* The buffers that were not read go with the stream.
DropStream(s) ==
    /\ "drop" \in Uses
    /\ pc = "user" /\ reader[s] \in {"idle", "eof"}
    /\ reader' = [reader EXCEPT ![s] = "gone"]
    /\ sq' = IF rf[s].initiated THEN Append(sq, [op |-> "cancel", s |-> s]) ELSE sq
    /\ pc' = "flush"
    /\ UNCHANGED <<rf, cancelled, ringVars, handles, armed, cq, arrived, got>>

-----------------------------------------------------------------------------
(* The loop.                                                               *)

\* reserve_sqes finds the submission queue too full: it may hold any number of
\* entries, so this may happen at any time.
SubmitFull ==
    /\ pc = "user" /\ sq # <<>>
    /\ pc' = "flush"
    /\ UNCHANGED <<frameVars, ringVars, handles, kernVars, got>>

SubmitAndWait ==
    /\ pc = "user" /\ handles = <<>>
    /\ pc' = "submit"
    /\ UNCHANGED <<frameVars, ringVars, handles, kernVars, got>>

\* The error the frame reports for a failed receive.
ErrorOf(e) == IF e.kind = "ECANCELED" /\ e.s \notin cancelled
              THEN "ETIMEDOUT" ELSE e.kind

\* cqe->res > 0.
TakesBuffer(e) == e.kind = "data"

\* Mutant of BuffersAfter: an error throws away what was not read.
BuffersAfterError(e) ==
    IF e.kind \in Errors THEN <<>> ELSE Append(rf[e.s].buffers, e.n)

\* EOF is an empty buffer.
BuffersAfter(e) ==
    IF e.kind \in Errors THEN rf[e.s].buffers ELSE Append(rf[e.s].buffers, e.n)

\* Mutant of Collect: an error does not wake the reader.
CollectOnSuccess(e) ==
    IF rf[e.s].h /\ e.kind \notin Errors THEN Append(handles, e.s) ELSE handles

\* handle() takes h_.
Collect(e) == IF rf[e.s].h THEN Append(handles, e.s) ELSE handles

\* recv_frame::await_process_cqe and handle().
Process(e) ==
    LET g == rf[e.s].ring IN
    /\ rf' = [rf EXCEPT ![e.s].initiated = e.more, ![e.s].h = FALSE,
                 ![e.s].ec = IF e.kind \in Errors THEN ErrorOf(e) ELSE @,
                 ![e.s].buffers = BuffersAfter(e)]
    /\ IF TakesBuffer(e)
       THEN /\ bufs' = [bufs EXCEPT ![g] = @ \ {e.id}]
            /\ stack' = [stack EXCEPT ![g] = Append(@, e.id)]
       ELSE UNCHANGED <<bufs, stack>>
    /\ handles' = Collect(e)

Reap ==
    /\ pc = "reap" /\ cq # <<>>
    /\ Process(Head(cq))
    /\ cq' = Tail(cq)
    /\ UNCHANGED <<cancelled, reader, ring, pc, sq, armed, arrived, got>>

\* timeout_frame::await_process_cqe: the receive has been idle for too long.
\* One cancel is queued for a stream at a time, a bound of the model.
TimerStrikes(s) ==
    /\ pc = "reap" /\ rf[s].initiated
    /\ \A i \in 1..Len(sq) : sq[i].s # s
    /\ sq' = Append(sq, [op |-> "timeout", s |-> s])
    /\ UNCHANGED <<frameVars, ringVars, handles, pc, armed, cq, arrived, got>>

ReapDone ==
    /\ pc = "reap" /\ cq = <<>>
    /\ pc' = "user"
    /\ UNCHANGED <<frameVars, ringVars, handles, kernVars, got>>

-----------------------------------------------------------------------------
(* The kernel.                                                             *)

Ended(s, kind) == [s |-> s, kind |-> kind, n |-> 0, id |-> 0, more |-> FALSE]

\* A cancel, the user's or the timer's, ends the receive the kernel holds.
KernelTakes ==
    LET o == Head(sq) IN
    /\ pc \in {"flush", "submit"} /\ sq # <<>>
    /\ sq' = Tail(sq)
    /\ IF o.op = "recv"
       THEN armed' = armed \cup {o.s} /\ cq' = cq
       ELSE /\ armed' = armed \ {o.s}
            /\ cq' = IF o.s \in armed
                     THEN Append(cq, Ended(o.s, "ECANCELED"))
                     ELSE cq
    /\ UNCHANGED <<frameVars, ringVars, handles, pc, arrived, got>>

SubmitDone ==
    /\ pc \in {"flush", "submit"} /\ sq = <<>>
    /\ pc' = IF pc = "flush" THEN "user" ELSE "reap"
    /\ UNCHANGED <<frameVars, ringVars, handles, kernVars, got>>

\* The ring a receive in flight takes its buffers from.
RingOf(s) == ring[rf[s].ring]

\* A chunk arrives and there is a buffer for it.  The kernel may end the
\* multishot receive with it.
KernelReceives(s) ==
    /\ s \in armed /\ arrived[s] < MaxData /\ RingOf(s) # <<>>
    /\ arrived' = [arrived EXCEPT ![s] = @ + 1]
    /\ ring' = [ring EXCEPT ![rf[s].ring] = Tail(@)]
    /\ \E more \in BOOLEAN :
          /\ cq' = Append(cq, [s |-> s, kind |-> "data", n |-> arrived'[s],
                               id |-> Head(RingOf(s)), more |-> more])
          /\ armed' = IF more THEN armed ELSE armed \ {s}
    /\ UNCHANGED <<frameVars, stack, bufs, handles, pc, sq, got>>

\* The peer has shut down, or there is something to read and no buffer.
KernelEnds(s) ==
    /\ s \in armed
    /\ \/ /\ arrived[s] = MaxData /\ RingOf(s) # <<>>
          /\ cq' = Append(cq, Ended(s, "eof"))
       \/ /\ RingOf(s) = <<>>
          /\ cq' = Append(cq, Ended(s, "ENOBUFS"))
    /\ armed' = armed \ {s}
    /\ UNCHANGED <<frameVars, ringVars, handles, pc, sq, arrived, got>>

-----------------------------------------------------------------------------

UserStep == \/ \E s \in Streams : \/ RecvSuspends(s) \/ RecvAtOnce(s)
                                  \/ AsyncCancel(s) \/ DropStream(s)
                                  \/ \E g \in Groups : SetBufferGroup(s, g)
            \/ \E g \in Groups : Recycle(g)

LoopStep == \/ SubmitFull \/ Resume \/ SubmitAndWait \/ KernelTakes \/ SubmitDone \/ Reap
            \/ ReapDone

KernelStep == \E s \in Streams : KernelReceives(s) \/ KernelEnds(s)

Next == \/ UserStep \/ LoopStep \/ KernelStep
        \/ \E s \in Streams : TimerStrikes(s)

Spec == Init /\ [][Next]_vars

\* The loop turns, every coroutine reads again when it can, and the kernel
\* serves a receive that has data and a buffer, however often it is cancelled.
FairSpec ==
    /\ Spec
    /\ WF_vars(LoopStep) /\ SF_vars(Resume) /\ SF_vars(SubmitAndWait)
    /\ \A s \in Streams : /\ SF_vars(RecvSuspends(s) \/ RecvAtOnce(s))
                          /\ SF_vars(KernelReceives(s))
                          /\ WF_vars(KernelEnds(s))

-----------------------------------------------------------------------------
(* Correctness.                                                            *)

\* The ids of group g that CQEs not processed yet name.
IdsInCq(g) == {i \in 1..Len(cq) : cq[i].kind = "data" /\ rf[cq[i].s].ring = g}

\* Every id of a ring is in one place: offered to the kernel, named by a CQE, or
\* on the stack, and its recv_buffer has memory exactly when it is not on the
\* stack.  (The assertions on capacity() where ids are moved, and buf_id_pos_
\* staying within buf_ids_, follow.)
BuffersConserved ==
    \A g \in Groups :
        /\ Len(ring[g]) + Len(stack[g]) + Cardinality(IdsInCq(g)) = NumBufs
        /\ ToSet(ring[g]) \cup ToSet(stack[g])
              \cup {cq[i].id : i \in IdsInCq(g)} = Ids
        /\ bufs[g] = Ids \ ToSet(stack[g])

\* A completion that carries an error or ends the receive is the last one of its
\* stream, and it finds no earlier error unreported (the assertion on ec_ in
\* await_process_cqe): the receive is not started again before the coroutine
\* has seen the error.
OneErrorAtATime ==
    \A i \in 1..Len(cq) :
        /\ ~cq[i].more => \A j \in i + 1..Len(cq) : cq[j].s # cq[i].s
        /\ rf[cq[i].s].initiated /\ rf[cq[i].s].ec = NoError

\* A coroutine waits as long as, and only as long as, a receive is under way
\* and nothing has come; when it is resumed there is something to return (the
\* assertion in await_resume).  An h_ left over from a call that returned an
\* error at once is never resumed: no receive is under way until it is replaced.
ResumedWithSomething ==
    \A s \in Streams :
        LET collected == Cardinality({i \in 1..Len(handles) : handles[i] = s}) IN
        IF reader[s] = "waiting"
        THEN \/ /\ collected = 0 /\ rf[s].h /\ rf[s].initiated
                /\ rf[s].buffers = <<>> /\ rf[s].ec = NoError
             \/ /\ collected = 1 /\ ~rf[s].h
                /\ rf[s].buffers # <<>> \/ rf[s].ec # NoError
        ELSE collected = 0 /\ ~(rf[s].h /\ rf[s].initiated)

\* "resumption should replenish the buf ring": once the data that came out of a
\* ring has been read, none of its ids is left on the stack.
RingIsReplenished ==
    \A g \in Groups :
        (\A s \in Streams : rf[s].ring = g => Data(rf[s].buffers) = <<>>)
            => stack[g] = <<>>

\* Ids are neither lost nor doubled on their way through ring, completion,
\* stack and await_resume, and what has been read is offered to the kernel again.
BuffersSound == TypeOK /\ BuffersConserved /\ RingIsReplenished

\* The reader is resumed exactly when there is data or an error for it, and an
\* error is reported before the receive is started again.
ReaderIsServed == ResumedWithSomething /\ OneErrorAtATime

\* Every chunk the peer sends is returned in the end, although streams share a
\* ring with too few buffers and a receive may fail with ENOBUFS or time out
\* any number of times.
EverythingIsReceived ==
    \A s \in Streams : <>(Len(got[s]) >= MaxData)

-----------------------------------------------------------------------------
(* Refinement.                                                             *)

\* The kernel has seen the end of the stream: it is reported by a CQE, is in the
\* frame, or has been returned.
EndSeen(s) ==
    \/ \E i \in 1..Len(cq) : cq[i].s = s /\ cq[i].kind = "eof"
    \/ 0 \in ToSet(rf[s].buffers \o got[s])

Abstract == INSTANCE Channel WITH
    Conns <- Streams, Units <- MaxData, sent <- arrived,
    closed <- [s \in Streams |-> EndSeen(s)],
    received <- [s \in Streams |-> Data(got[s])],
    eof <- [s \in Streams |-> 0 \in ToSet(got[s])]

\* What async_recv returns is what the peer sent, in order, without gap or
\* repetition, and the end of file once and last: through cancellations,
\* timeouts, ENOBUFS and restarts of the multishot receive, with several
\* completions processed before the coroutine runs.
RefinesChannel == Abstract!Spec
=============================================================================

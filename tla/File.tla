-------------------------------- MODULE File --------------------------------
(***************************************************************************)
(* fiona::file: one file_impl shared by coroutines that open, write and    *)
(* read it through memory of their own or through buffers registered with  *)
(* the kernel (fixed_buffers), and the slot of the fixed file table that   *)
(* an open takes.                                                          *)
(*                                                                         *)
(* What is written is numbered (the data of the n-th write is n), so that  *)
(* the file and the buffers hold numbers.  Every transfer is at offset 0.  *)
(***************************************************************************)
EXTENDS Naturals, Sequences, FiniteSets

CONSTANTS
    Coros,      \* the coroutines that share the file
    Slots,      \* the slots of the fixed file table
    NumBufs,    \* num_bufs of register_fixed_buffers
    None,       \* a null coroutine_handle, an empty span, no fixed_buffer
    NoFd,       \* fd_ = -1, temp_fd_ = -1
    MaxWrites,  \* bound: writes started in a behaviour
    Room,       \* bound: the SQEs of the file before the queue may be full
    Uses        \* what happens beyond the usual, see below

\* "reopen": async_open of a file that is open;
\* "sharedOpen": async_open while another coroutine's is under way.
ASSUME FileAssumption ==
    /\ None \notin Coros /\ NoFd \notin Slots /\ IsFiniteSet(Coros)
    /\ NumBufs \in Nat /\ MaxWrites \in Nat /\ Room \in Nat \ {0}
    /\ Coros \cap 0..NumBufs = {}
    /\ Uses \subseteq {"reopen", "sharedOpen"}

Ids == 0..NumBufs - 1
NoIndex == NumBufs      \* buf_index_ = -1

VARIABLES
    of,           \* open_frame
    xf,           \* write_frame and read_frame
    refs,         \* ref_count::count_ of the file_impl
    fd,           \* fd_
    fds, others,  \* the free slots, the slots of other descriptors of the loop
    ids, avail,   \* fixed_buffers: buf_ids_ and avail_buf_ids_
    own,          \* the fixed_buffer each coroutine has
    mem,          \* the number in each coroutine's own buffer and fixed buffer
    co,           \* what each coroutine does with the file
    arg,          \* history: the buffer it passed, and the number expected
    handles,      \* handles collected from the CQEs, not yet resumed
    pc, back,     \* what the loop thread does, where it goes after a submit
    sq, held, cq, \* operations queued, taken by the kernel, completed
    file,         \* what the slots hold
    content,      \* the number in the file
    writes,       \* how many writes were started
    returned      \* history: the last write that has returned success

frameVars == <<of, xf, refs, fd, fds>>
poolVars  == <<ids, avail, own>>
coVars    == <<co, arg, returned, writes>>
loopVars  == <<handles, pc, back>>
kernVars  == <<sq, held, cq, file, content, others>>
vars      == <<frameVars, poolVars, mem, coVars, loopVars, kernVars>>

Transfers == {"write", "read"}
Kinds     == {"open"} \cup Transfers
Buffers   == Coros \cup Ids

Ok == "ok"
Sqe == [op : Kinds \cup {"cancel"}, of : Kinds, slot : Slots \cup {NoFd},
        buf : Buffers \cup {None}, index : Ids \cup {NoIndex}]
Cqe == [op : Kinds, res : {Ok, "error", "EFAULT"}]

\* Nothing the code points to is the null value.
ASSUME NoneAssumption == None \notin Buffers \cup Sqe \cup [id : Ids, pos : Ids]

TypeOK ==
    /\ of \in [h : Coros \cup {None}, temp : Slots \cup {NoFd},
               initiated : BOOLEAN, done : BOOLEAN]
    /\ xf \in [Transfers -> [h : Coros \cup {None}, buf : Buffers \cup {None},
                  index : Ids \cup {NoIndex}, res : {Ok, "error", "EFAULT"},
                  initiated : BOOLEAN, done : BOOLEAN]]
    /\ refs \in Nat /\ fd \in Slots \cup {NoFd}
    /\ fds \subseteq Slots /\ others \subseteq Slots
    /\ ids \in [Ids -> Ids] /\ avail \in 0..NumBufs
    /\ own \in [Coros -> [id : Ids, pos : Ids] \cup {None}]
    /\ mem \in [Buffers -> 0..MaxWrites]
    /\ co \in [Coros -> Kinds \cup {"idle", "gone"}]
    /\ arg \in [Coros -> [buf : Buffers \cup {None}, data : 0..MaxWrites]]
    /\ handles \in Seq(Coros)
    /\ pc \in {"user", "submit", "reap", "abort", "end"}
    /\ back \in {"user", "reap", "abort"}
    /\ sq \in Seq(Sqe) /\ cq \in Seq(Cqe) /\ held \in [Kinds -> Sqe \cup {None}]
    /\ file \in [Slots -> {"empty", "own", "other"}]
    /\ content \in 0..MaxWrites /\ writes \in 0..MaxWrites
    /\ returned \in 0..MaxWrites

One(b) == IF b THEN 1 ELSE 0

\* reset() of open_frame.
ResetOpen == [h |-> None, temp |-> NoFd, initiated |-> FALSE, done |-> FALSE]

\* Mutant of ResetTransfer: the index of the registered buffer stays.
ResetTransferKeepsIndex(f) == [h |-> None, buf |-> None, index |-> f.index,
                               res |-> Ok, initiated |-> FALSE, done |-> FALSE]

\* reset() of write_frame and read_frame.
ResetTransfer(f) == [h |-> None, buf |-> None, index |-> NoIndex, res |-> Ok,
                     initiated |-> FALSE, done |-> FALSE]
NewTransfer == [h |-> None, buf |-> None, index |-> NoIndex, res |-> Ok,
                initiated |-> FALSE, done |-> FALSE]

NoArg == [buf |-> None, data |-> 0]
Op(op, slot, buf, index) ==
    [op |-> op, of |-> op, slot |-> slot, buf |-> buf, index |-> index]
Cancel(op) == [op |-> "cancel", of |-> op, slot |-> NoFd, buf |-> None,
               index |-> NoIndex]

\* The constructor of fixed_buffers.
InitPool ==
    /\ ids = [i \in Ids |-> i] /\ avail = NumBufs
    /\ own = [c \in Coros |-> None]

\* The file is created and every coroutine has a copy of it.
Init ==
    /\ of = ResetOpen /\ xf = [k \in Transfers |-> NewTransfer]
    /\ refs = Cardinality(Coros) /\ fd = NoFd /\ fds = Slots /\ others = {}
    /\ InitPool /\ mem = [b \in Buffers |-> 0]
    /\ co = [c \in Coros |-> "idle"] /\ arg = [c \in Coros |-> NoArg]
    /\ handles = <<>> /\ pc = "user" /\ back = "user"
    /\ sq = <<>> /\ held = [k \in Kinds |-> None] /\ cq = <<>>
    /\ file = [s \in Slots |-> "empty"] /\ content = 0
    /\ writes = 0 /\ returned = 0

-----------------------------------------------------------------------------
(* What the coroutines do.                                                 *)

\* A coroutine that starts something.
Free(c) == pc = "user" /\ co[c] = "idle"
Active(f) == f.initiated /\ ~f.done

\* open_awaitable::await_suspend takes a slot and parks it in temp_fd_.  The SQE
\* and the awaitable hold a reference each.
AsyncOpen(c) ==
    /\ Free(c)
    /\ "reopen" \in Uses \/ fd = NoFd
    /\ "sharedOpen" \in Uses \/ ~of.initiated
    /\ \E s \in fds :
          /\ fds' = fds \ {s}
          /\ of' = [of EXCEPT !.h = c, !.temp = s, !.initiated = TRUE]
          /\ sq' = Append(sq, Op("open", s, None, NoIndex))
    /\ refs' = refs + 2
    /\ co' = [co EXCEPT ![c] = "open"]
    /\ UNCHANGED <<xf, fd, poolVars, mem, arg, returned, writes, loopVars, held,
                   cq, file, content, others>>

\* The memory a coroutine can pass: its own, and the fixed buffer it has.
BuffersOf(c) == {c} \cup (IF own[c] = None THEN {} ELSE {own[c].id})

\* async_write, async_write_fixed, async_read and async_read_fixed leave the
\* buffer in the frame before anything is looked at.
SetBuf(f, b) == IF b \in Ids THEN [f EXCEPT !.buf = b, !.index = b]
                ELSE [f EXCEPT !.buf = b]

\* What comes back must be as new as this: for a write its own number, for a
\* read the last write that had returned.
Expected(k) == IF k = "write" THEN writes + 1 ELSE returned

\* The writer fills its buffer first.
Fill(k, b) ==
    IF k = "read" THEN UNCHANGED <<mem, writes>>
    ELSE /\ writes < MaxWrites /\ writes' = writes + 1
         /\ mem' = [mem EXCEPT ![b] = writes + 1]

\* Mutant of AsyncTransfer: no EBUSY.
AsyncTransferUnguarded(c, k, b) ==
    /\ Free(c)
    /\ Fill(k, b)
    /\ LET f == SetBuf(xf[k], b) IN
          /\ xf' = [xf EXCEPT ![k] = [f EXCEPT !.h = c, !.initiated = TRUE]]
          /\ sq' = Append(sq, Op(k, fd, f.buf, f.index))
    /\ refs' = refs + 2
    /\ co' = [co EXCEPT ![c] = k]
    /\ arg' = [arg EXCEPT ![c] = [buf |-> b, data |-> Expected(k)]]
    /\ UNCHANGED <<of, fd, fds, poolVars, returned, loopVars, held, cq, file,
                   content, others>>

\* await_suspend of write_awaitable and read_awaitable: the SQE is written from
\* the frame and from fd_.
AsyncTransfer(c, k, b) ==
    /\ Free(c) /\ ~xf[k].initiated
    /\ Fill(k, b)
    /\ LET f == SetBuf(xf[k], b) IN
          /\ xf' = [xf EXCEPT ![k] = [f EXCEPT !.h = c, !.initiated = TRUE]]
          /\ sq' = Append(sq, Op(k, fd, f.buf, f.index))
    /\ refs' = refs + 2
    /\ co' = [co EXCEPT ![c] = k]
    /\ arg' = [arg EXCEPT ![c] = [buf |-> b, data |-> Expected(k)]]
    /\ UNCHANGED <<of, fd, fds, poolVars, returned, loopVars, held, cq, file,
                   content, others>>

\* EBUSY is thrown.  By then the frame of the transfer under way has the new
\* buffer, and the awaitable that is destroyed cancels that transfer.
TransferBusy(c, k, b) ==
    /\ Free(c) /\ xf[k].initiated
    /\ xf' = [xf EXCEPT ![k] = SetBuf(@, b)]
    /\ IF Active(xf[k])
       THEN sq' = Append(sq, Cancel(k)) /\ pc' = "submit" /\ back' = "user"
       ELSE UNCHANGED <<sq, pc, back>>
    /\ UNCHANGED <<of, refs, fd, fds, poolVars, mem, coVars, handles, held, cq,
                   file, content, others>>

\* fixed_buffers::get_avail_buf, whose assertion is the guard.
GetAvailBuf(c) ==
    /\ Free(c) /\ own[c] = None
    /\ avail # 0
    /\ avail' = avail - 1
    /\ own' = [own EXCEPT ![c] = [id |-> ids[avail - 1], pos |-> avail - 1]]
    /\ UNCHANGED <<frameVars, ids, mem, coVars, loopVars, kernVars>>

\* ~fixed_buffer writes its index through its own copy of the pointer and steps
\* that copy forward.
ReturnBuf(c) ==
    /\ own' = [own EXCEPT ![c] = None]
    /\ ids' = IF own[c] = None THEN ids ELSE [ids EXCEPT ![own[c].pos] = own[c].id]
    /\ avail' = avail

DropBuf(c) ==
    /\ Free(c) /\ own[c] # None
    /\ ReturnBuf(c)
    /\ UNCHANGED <<frameVars, mem, coVars, loopVars, kernVars>>

\* await_resume, then the awaitable is destroyed.
Resume ==
    /\ pc = "user" /\ handles # <<>>
    /\ LET c == Head(handles)
           k == co[c]
       IN  /\ \/ /\ k = "open" /\ of' = ResetOpen
                 /\ UNCHANGED <<xf, returned>>
              \/ /\ k \in Transfers
                 /\ xf' = [xf EXCEPT ![k] = ResetTransfer(@)]
                 /\ returned' = IF k = "write" /\ xf[k].res = Ok
                                THEN arg[c].data ELSE returned
                 /\ of' = of
           /\ co' = [co EXCEPT ![c] = "idle"]
           /\ arg' = [arg EXCEPT ![c] = NoArg]
    /\ handles' = Tail(handles)
    /\ refs' = refs - 1
    /\ UNCHANGED <<fd, fds, poolVars, mem, writes, pc, back, kernVars>>

LetGo(c) ==
    /\ Free(c)
    /\ co' = [co EXCEPT ![c] = "gone"]
    /\ refs' = refs - 1
    /\ ReturnBuf(c)
    /\ UNCHANGED <<of, xf, fd, fds, mem, arg, returned, writes, loopVars, kernVars>>

\* ~file_impl: the slot is closed at once and given back.
Destruct ==
    /\ refs = 0 /\ fd # NoFd
    /\ file' = [file EXCEPT ![fd] = "empty"]
    /\ fds' = fds \cup {fd} /\ fd' = NoFd
    /\ UNCHANGED <<of, xf, refs, poolVars, mem, coVars, loopVars, sq, held, cq,
                   content, others>>

\* Somebody else takes a slot, or closes and returns it.
Other(s) ==
    /\ pc = "user"
    /\ \/ /\ s \in fds /\ fds' = fds \ {s} /\ others' = others \cup {s}
          /\ file' = [file EXCEPT ![s] = "other"]
       \/ /\ s \in others /\ fds' = fds \cup {s} /\ others' = others \ {s}
          /\ file' = [file EXCEPT ![s] = "empty"]
    /\ UNCHANGED <<of, xf, refs, fd, poolVars, mem, coVars, loopVars, sq, held,
                   cq, content>>

-----------------------------------------------------------------------------
(* The loop: submit, then process every completion, then resume.           *)

\* Mutant of SubmitAndWait: the loop does not wait when it has nothing to submit.
SubmitAndWaitQueued ==
    /\ pc = "user" /\ handles = <<>> /\ sq # <<>>
    /\ pc' = "submit" /\ back' = "reap"
    /\ UNCHANGED <<frameVars, poolVars, mem, coVars, handles, kernVars>>

SubmitAndWait ==
    /\ pc = "user" /\ handles = <<>>
    /\ pc' = "submit" /\ back' = "reap"
    /\ UNCHANGED <<frameVars, poolVars, mem, coVars, handles, kernVars>>

\* Mutant of Collect: the handle of a completed operation is dropped.
CollectNothing(h) == handles

\* handle() gives h_ away.
Collect(h) == IF h = None THEN handles ELSE Append(handles, h)

\* Mutant of ProcessOpen: the slot of an open that failed is kept.
ProcessOpenKeepsSlot(e) ==
    /\ e.op = "open"
    /\ of' = [of EXCEPT !.done = TRUE, !.temp = NoFd, !.h = None]
    /\ fd' = IF e.res = Ok THEN of.temp ELSE fd
    /\ handles' = Collect(of.h)
    /\ UNCHANGED <<fds, xf>>

\* open_frame: the slot becomes fd_, or goes back.
ProcessOpen(e) ==
    /\ e.op = "open"
    /\ of' = [of EXCEPT !.done = TRUE, !.temp = NoFd, !.h = None]
    /\ IF e.res = Ok THEN fd' = of.temp /\ fds' = fds
       ELSE fd' = fd /\ fds' = fds \cup {of.temp}
    /\ handles' = Collect(of.h)
    /\ UNCHANGED xf

\* write_frame and read_frame.
ProcessTransfer(e) ==
    /\ e.op \in Transfers
    /\ xf' = [xf EXCEPT ![e.op].done = TRUE, ![e.op].res = e.res,
                        ![e.op].h = None]
    /\ handles' = Collect(xf[e.op].h)
    /\ UNCHANGED <<of, fd, fds>>

Reap ==
    /\ pc = "reap" /\ cq # <<>>
    /\ LET e == Head(cq) IN ProcessOpen(e) \/ ProcessTransfer(e)
    /\ refs' = refs - 1
    /\ cq' = Tail(cq)
    /\ UNCHANGED <<poolVars, mem, coVars, pc, back, sq, held, file, content,
                   others>>

ReapDone ==
    /\ pc = "reap" /\ cq = <<>>
    /\ pc' = "user"
    /\ UNCHANGED <<frameVars, poolVars, mem, coVars, handles, back, kernVars>>

-----------------------------------------------------------------------------
(* The kernel.                                                             *)

Completed(k, res) ==
    /\ cq' = Append(cq, [op |-> k, res |-> res])
    /\ held' = [held EXCEPT ![k] = None]

\* A cancel, which finds the operation by its user_data, comes too late for one
\* that a worker thread is running.
TakeCancel(k) ==
    \/ held[k] # None /\ Completed(k, "error")
    \/ UNCHANGED <<held, cq>>

KernelTakes ==
    /\ pc = "submit" /\ sq # <<>>
    /\ LET o == Head(sq) IN
          \/ o.op = "cancel" /\ TakeCancel(o.of)
          \/ o.op # "cancel" /\ held' = [held EXCEPT ![o.op] = o] /\ cq' = cq
    /\ sq' = Tail(sq)
    /\ UNCHANGED <<frameVars, poolVars, mem, coVars, loopVars, file, content,
                   others>>

\* A registered buffer is addressed by its index and must contain the span.
Addressable(o) == o.index = NoIndex \/ o.index = o.buf

KernelOpens ==
    \/ /\ Completed("open", Ok)
       /\ file' = [file EXCEPT ![held["open"].slot] = "own"]
       /\ UNCHANGED <<mem, content>>
    \/ Completed("open", "error") /\ UNCHANGED <<file, mem, content>>

KernelTransfers(k) ==
    LET o == held[k] IN
    /\ \/ /\ o.slot # NoFd /\ file[o.slot] = "own" /\ Addressable(o)
          /\ Completed(k, Ok)
          /\ IF k = "write" THEN content' = mem[o.buf] /\ mem' = mem
             ELSE mem' = [mem EXCEPT ![o.buf] = content] /\ content' = content
       \/ /\ o.slot # NoFd /\ ~Addressable(o)
          /\ Completed(k, "EFAULT") /\ UNCHANGED <<mem, content>>
       \/ Completed(k, "error") /\ UNCHANGED <<mem, content>>
    /\ file' = file

\* The loop looks at the completion queue after a submit only, so that it is
\* enough to let the kernel act during a submit.
KernelCompletes(k) ==
    /\ pc = "submit" /\ held[k] # None
    /\ IF k = "open" THEN KernelOpens ELSE KernelTransfers(k)
    /\ UNCHANGED <<frameVars, poolVars, coVars, loopVars, sq, others>>

\* reserve_sqes finds no room in the queue, which the SQEs of others may have
\* filled, and submits it.
SubmitFull ==
    /\ pc = "user" /\ Len(sq) >= Room
    /\ pc' = "submit" /\ back' = "user"
    /\ UNCHANGED <<frameVars, poolVars, mem, coVars, handles, kernVars>>

SubmitDone ==
    /\ pc = "submit" /\ sq = <<>>
    /\ pc' = back /\ back' = "user"
    /\ UNCHANGED <<frameVars, poolVars, mem, coVars, handles, kernVars>>

-----------------------------------------------------------------------------
(* run() is left by an exception.                                          *)

\* Nothing that was transferred reaches a coroutine any more.
Abort ==
    /\ pc = "user"
    /\ pc' = "submit" /\ back' = "abort" /\ handles' = <<>>
    /\ arg' = [c \in Coros |-> NoArg] /\ returned' = 0 /\ writes' = 0
    /\ mem' = [b \in Buffers |-> 0] /\ content' = 0
    /\ UNCHANGED <<frameVars, poolVars, co, sq, held, cq, file, others>>

\* The frame of the operation a coroutine waits for.
FrameOf(c) == IF co[c] = "open" THEN of ELSE xf[co[c]]

\* A coroutine goes with its awaitable, if it has one, its buffer and its file.
\* The awaitables cancel what is under way.
DestroyCoro(c) ==
    /\ pc = "abort" /\ co[c] # "gone"
    /\ co' = [co EXCEPT ![c] = "gone"]
    /\ ReturnBuf(c)
    /\ refs' = refs - 1 - One(co[c] \in Kinds)
    /\ IF co[c] \in Kinds /\ Active(FrameOf(c))
       THEN /\ sq' = Append(sq, Cancel(co[c]))
            /\ pc' = "submit" /\ back' = "abort"
       ELSE UNCHANGED <<sq, pc, back>>
    /\ UNCHANGED <<of, xf, fd, fds, mem, arg, returned, writes, handles, held,
                   cq, file, content, others>>

\* ~guard releases the frames whose completions it finds, without processing.
Flush ==
    /\ pc = "abort" /\ \A c \in Coros : co[c] = "gone"
    /\ pc' = "end"
    /\ refs' = refs - Len(cq)
    /\ cq' = <<>>
    /\ UNCHANGED <<of, xf, fd, fds, poolVars, mem, coVars, handles, back, sq,
                   held, file, content, others>>

-----------------------------------------------------------------------------

UserStep ==
    \/ \E c \in Coros : AsyncOpen(c) \/ GetAvailBuf(c) \/ DropBuf(c) \/ LetGo(c)
    \/ \E c \in Coros, k \in Transfers : \E b \in BuffersOf(c) :
          AsyncTransfer(c, k, b) \/ TransferBusy(c, k, b)
    \/ \E s \in Slots : Other(s)

LoopStep == \/ SubmitFull
            \/ Resume \/ SubmitAndWait \/ KernelTakes \/ SubmitDone
            \/ Reap \/ ReapDone \/ Destruct \/ Flush
            \/ \E c \in Coros : DestroyCoro(c)

Next == UserStep \/ LoopStep \/ Abort \/ \E k \in Kinds : KernelCompletes(k)

Spec == Init /\ [][Next]_vars

\* The loop turns, and the kernel completes what is done on a file.
FairSpec == /\ Spec /\ WF_vars(LoopStep) /\ SF_vars(Resume \/ SubmitAndWait)
            /\ \A k \in Kinds : SF_vars(KernelCompletes(k))

-----------------------------------------------------------------------------
(* Correctness.                                                            *)

InQueue(s, op) == \E i \in 1..Len(s) : s[i].op = op
InFlight(k) == InQueue(sq, k) \/ held[k] # None \/ InQueue(cq, k)

\* The file_impl has a reference for each handle, each awaitable and each
\* operation in flight, cancelled or not, until the last completion is read or
\* dropped by ~guard: only then is it freed.
References ==
    /\ TypeOK
    /\ refs = Cardinality({c \in Coros : co[c] # "gone"})
              + Cardinality({c \in Coros : co[c] \in Kinds})
              + Cardinality({k \in Kinds : InFlight(k)})

Mine == {of.temp, fd} \ {NoFd}

\* Every slot is free, the file's, parked in temp_fd_ or somebody else's, and
\* only one of these; a free slot is empty, and what fd_ names is the file.
SlotsAccounted ==
    /\ fds \cup others \cup Mine = Slots
    /\ fds \cap others = {} /\ Mine \cap (fds \cup others) = {}
    /\ of.temp # fd \/ fd = NoFd
    /\ \A s \in fds : file[s] = "empty"
    /\ fd # NoFd => file[fd] = "own"

Unwinding == pc \in {"abort", "end"} \/ back = "abort"

\* Every coroutine that waits is resumed once: its handle is in the frame of the
\* operation in flight, or was collected.
Resumption ==
    ~Unwinding =>
      \A c \in Coros :
        LET n == Cardinality({i \in 1..Len(handles) : handles[i] = c})
        IN  IF co[c] \in {"idle", "gone"} THEN n = 0
            ELSE n = IF InFlight(co[c]) /\ FrameOf(c).h = c THEN 0 ELSE 1

\* A transfer uses the memory its caller passed, although others that are turned
\* away change the frame: a write that succeeds has put the caller's data into
\* the file, a read that succeeds has put into the caller's buffer what had been
\* written before it began or something newer, and a buffer is never addressed
\* through the index of another one.
TransfersAreTheCallers ==
    \A c \in Coros :
      ~Unwinding /\ co[c] \in Transfers =>
        LET f == xf[co[c]] IN
        /\ f.res # "EFAULT"
        /\ f.done /\ f.res = Ok =>
              IF co[c] = "write" THEN content >= arg[c].data
              ELSE mem[arg[c].buf] >= arg[c].data

\* Every open, write and read returns.  The coroutines are interchangeable, and
\* c is any of them.
EveryCallReturns ==
    LET c == CHOOSE c \in Coros : TRUE IN
    co[c] \in Kinds ~> co[c] \notin Kinds

\* BOOST_ASSERT( avail_buf_ids_ != buf_ids_.data() ): get_avail_buf finds a
\* buffer as long as not all of them are out.
PoolHasBuffer ==
    Cardinality({c \in Coros : own[c] # None}) < NumBufs => avail # 0
=============================================================================

------------------------------ MODULE Executor ------------------------------
(***************************************************************************)
(* The event loop of fiona: io_context::run(), the task map, the run       *)
(* queue, spawned tasks with their reference counts and awaitables, the    *)
(* exception slot, and the pipe through which post() and waker::wake()     *)
(* reach the loop from any thread.                                         *)
(*                                                                         *)
(* A task stands for one scheduler coroutine together with the stack of    *)
(* fiona::task coroutines it awaits: inside a task control moves by        *)
(* symmetric transfer only, so a task is one thread of control.  What the  *)
(* body of a task does is the choice of the user; every library call it    *)
(* can make on the executor is an action.                                  *)
(***************************************************************************)
EXTENDS Integers, Sequences, FiniteSets

CONSTANTS
    Tasks,      \* coroutines handed to spawn() or post(), each at most once
    None,       \* a null coroutine_handle, exception_ptr or holder
    Main,       \* the code outside of run() that owns the io_context
    PipeRead,   \* the CQE of the read on the pipe
    PipeCap     \* how many words the pipe holds before write() blocks

\* What a thread writes to the pipe: an address tagged with post_mask or
\* wake_mask.
Word == [kind : {"post", "wake"}, task : Tasks]

ASSUME PipeCapAssumption == PipeCap \in Nat \ {0}
ASSUME NamesAssumption ==
    /\ None \notin Tasks /\ Main \notin Tasks /\ PipeRead \notin Tasks
    /\ None # Main /\ None \notin Word

VARIABLES
    tasks,      \* task_map::tasks_
    runQueue,   \* io_context_frame::run_queue_
    count,      \* internal_promise_base::count_
    cont,       \* internal_promise_base::continuation_
    rt,         \* promise_variant::rt_
    holder,     \* who keeps the spawn_awaitable of a task alive
    wasAwaited, \* spawn_awaitable::was_awaited_
    excPtr,     \* io_context_frame::exception_ptr_, named by the task that threw
    st,         \* where the coroutine of a task is
    failed,     \* history: the tasks whose body ended with an exception
    cur,        \* the coroutine the loop thread is executing
    handles,    \* the handles collected from a batch of CQEs, not yet resumed
    ready,      \* CQEs of the batch still to be processed
    pc,         \* where the loop thread is in io_context::run()
    outcome,    \* why run() is being left
    pipe,       \* words written to pipefd_[1] and not read yet
    reader,     \* the read the loop keeps on pipefd_[0]
    rdBuf,      \* frame::buffer_, what the completed read holds
    cq          \* the completion queue

taskVars == <<tasks, runQueue, count, cont, rt, holder, wasAwaited, excPtr,
              st, failed>>
loopVars == <<cur, handles, ready, pc, outcome>>
ioVars   == <<pipe, reader, rdBuf, cq>>
vars     == <<taskVars, loopVars, ioVars>>

\* result_type of a promise_variant.
Results == {"uninitialized", "ok", "error"}

TaskStates == {"none",       \* not created
               "posted",     \* its address is on its way through the pipe
               "ready",      \* in the run queue, not resumed yet
               "running",    \* executed by the loop thread
               "awaiting",   \* suspended in co_await of a spawn_awaitable
               "io",         \* suspended on an operation the kernel holds
               "waker",      \* suspended until somebody calls wake()
               "signalled",  \* its completion or its wake word is on the way
               "final",      \* suspended at its final suspend point
               "destroyed"}

\* The places of the loop thread between run() and its return.
InLoop == {"top", "drain", "inDrain", "wait", "process", "resume", "final"}
\* The places from which the code that owns the io_context runs.
Outside == {"idle", "failed", "dead"}

TypeOK ==
    /\ tasks \subseteq Tasks
    /\ runQueue \in Seq(Tasks)
    /\ count \in [Tasks -> Nat]
    /\ cont \in [Tasks -> Tasks \cup {None}]
    /\ rt \in [Tasks -> Results]
    /\ holder \in [Tasks -> Tasks \cup {Main, None}]
    /\ wasAwaited \in [Tasks -> BOOLEAN]
    /\ excPtr \in Tasks \cup {None}
    /\ st \in [Tasks -> TaskStates]
    /\ failed \subseteq Tasks
    /\ cur \in Tasks \cup {None}
    /\ handles \in Seq(Tasks)
    /\ ready \in Nat
    /\ pc \in InLoop \cup Outside \cup {"leave"}
    /\ outcome \in {"return", "throw", "destroy"}
    /\ pipe \in Seq(Word)
    /\ reader \in {"off", "armed", "done"}
    /\ rdBuf \in Word \cup {None}
    /\ cq \in Seq(Tasks \cup {PipeRead})

Init ==
    /\ tasks = {}
    /\ runQueue = <<>>
    /\ count = [t \in Tasks |-> 0]
    /\ cont = [t \in Tasks |-> None]
    /\ rt = [t \in Tasks |-> "uninitialized"]
    /\ holder = [t \in Tasks |-> None]
    /\ wasAwaited = [t \in Tasks |-> FALSE]
    /\ excPtr = None
    /\ st = [t \in Tasks |-> "none"]
    /\ failed = {}
    /\ cur = None
    /\ handles = <<>>
    /\ ready = 0
    /\ pc = "idle"
    /\ outcome = "return"
    /\ pipe = <<>>
    /\ reader = "off"
    /\ rdBuf = None
    /\ cq = <<>>

-----------------------------------------------------------------------------
(* Reference counting of coroutine frames.                                 *)

\* Destroying a frame destroys its locals, the spawn_awaitables it holds
\* included.  Until the last of them is gone nothing else happens on the
\* thread that called destroy().
Orphans == {c \in Tasks : holder[c] \in Tasks /\ st[holder[c]] = "destroyed"}

\* executor::spawn: the scheduler coroutine is created, entered in the task
\* map and queued; the copy in the awaitable holds the second reference.
SpawnFor(h, c) ==
    /\ st[c] = "none"
    /\ st' = [st EXCEPT ![c] = "ready"]
    /\ count' = [count EXCEPT ![c] = 2]
    /\ tasks' = tasks \cup {c}
    /\ runQueue' = Append(runQueue, c)
    /\ holder' = [holder EXCEPT ![c] = h]
    /\ UNCHANGED <<cont, rt, wasAwaited, excPtr, failed>>

\* executor_access_policy::unhandled_exception keeps the first exception.
KeepFirst(c) == IF excPtr = None THEN c ELSE excPtr

\* Mutant of Drop: the awaitable keeps its reference.
DropKeepsReference(c) ==
    /\ excPtr' = IF rt[c] = "error" /\ ~wasAwaited[c]
                 THEN KeepFirst(c) ELSE excPtr
    /\ holder' = [holder EXCEPT ![c] = None]
    /\ UNCHANGED <<tasks, runQueue, count, cont, rt, wasAwaited, st, failed>>

\* Mutant of Drop: the frame goes with its awaitable, as with a unique handle.
DropDestroys(c) ==
    /\ holder' = [holder EXCEPT ![c] = None]
    /\ count' = [count EXCEPT ![c] = 0]
    /\ tasks' = tasks \ {c}
    /\ st' = [st EXCEPT ![c] = "destroyed"]
    /\ UNCHANGED <<excPtr, runQueue, cont, rt, wasAwaited, failed>>

\* Mutant of Drop: an exception nobody awaited is dropped too.
DropForgetsException(c) ==
    /\ holder' = [holder EXCEPT ![c] = None]
    /\ count' = [count EXCEPT ![c] = @ - 1]
    /\ st' = IF count[c] = 1 THEN [st EXCEPT ![c] = "destroyed"] ELSE st
    /\ UNCHANGED <<excPtr, tasks, runQueue, cont, rt, wasAwaited, failed>>

\* ~spawn_awaitable followed by ~internal_task.
Drop(c) ==
    /\ excPtr' = IF rt[c] = "error" /\ ~wasAwaited[c]
                 THEN KeepFirst(c) ELSE excPtr
    /\ holder' = [holder EXCEPT ![c] = None]
    /\ count' = [count EXCEPT ![c] = @ - 1]
    /\ st' = IF count[c] = 1 THEN [st EXCEPT ![c] = "destroyed"] ELSE st
    /\ UNCHANGED <<tasks, runQueue, cont, rt, wasAwaited, failed>>

\* The locals of a destroyed frame go one by one.
DropOrphan ==
    /\ \E c \in Orphans : Drop(c)
    /\ UNCHANGED <<loopVars, ioVars>>

-----------------------------------------------------------------------------
(* The code outside of run().                                              *)

MainSpawn(c) ==
    /\ pc = "idle" /\ Orphans = {}
    /\ SpawnFor(Main, c)
    /\ UNCHANGED <<loopVars, ioVars>>

MainDrop(c) ==
    /\ pc \in Outside /\ Orphans = {}
    /\ holder[c] = Main
    /\ Drop(c)
    /\ UNCHANGED <<loopVars, ioVars>>

\* io_context::run() up to its loop: the pipe_awaitable queues the first read.
\* run() is called again only after it returned: after an exception the run
\* queue still holds the handle whose resume() threw.
Run ==
    /\ pc = "idle" /\ Orphans = {}
    /\ pc' = "top"
    /\ reader' = "armed"
    /\ UNCHANGED <<taskVars, cur, handles, ready, outcome, pipe, rdBuf, cq>>

-----------------------------------------------------------------------------
(* Leaving run(): ~pipe_awaitable cancels the read, ~guard destroys the    *)
(* tasks that are left and discards the completions.                       *)

Leave(why) ==
    /\ pc' = "leave"
    /\ outcome' = why
    /\ reader' = IF reader = "armed" THEN "off" ELSE reader
    /\ UNCHANGED <<pipe, rdBuf, cq>>

\* Where the loop tests exception_ptr_, then goes on.
CheckException(next) ==
    IF excPtr # None
    THEN Leave("throw")
    ELSE pc' = next /\ UNCHANGED <<outcome, ioVars>>

\* Mutant of Clear: the entry stays in the map.
ClearKeepsEntry(t) ==
    /\ pc = "leave" /\ Orphans = {}
    /\ t \in tasks
    /\ count' = [count EXCEPT ![t] = @ - 1]
    /\ st' = IF count[t] = 1 THEN [st EXCEPT ![t] = "destroyed"] ELSE st
    /\ UNCHANGED <<tasks, runQueue, cont, rt, holder, wasAwaited, excPtr, failed,
                   loopVars, ioVars>>

\* task_map::clear takes the tasks in the order of the hash map.
Clear(t) ==
    /\ pc = "leave" /\ Orphans = {}
    /\ t \in tasks
    /\ tasks' = tasks \ {t}
    /\ count' = [count EXCEPT ![t] = @ - 1]
    /\ st' = IF count[t] = 1 THEN [st EXCEPT ![t] = "destroyed"] ELSE st
    /\ UNCHANGED <<runQueue, cont, rt, holder, wasAwaited, excPtr, failed,
                   loopVars, ioVars>>

\* The rest of ~guard.  A word the read had already taken goes with it.
Flush ==
    /\ pc = "leave" /\ Orphans = {} /\ tasks = {}
    /\ pc' = IF outcome = "return" THEN "idle"
             ELSE IF outcome = "throw" THEN "failed" ELSE "dead"
    /\ cq' = <<>>
    /\ rdBuf' = None
    /\ reader' = "off"
    /\ handles' = <<>>
    /\ ready' = 0
    /\ UNCHANGED <<taskVars, cur, outcome, pipe>>

\* ~io_context is a ~guard too.
Destroy ==
    /\ pc \in {"idle", "failed"} /\ Orphans = {}
    /\ Leave("destroy")
    /\ UNCHANGED <<taskVars, cur, handles, ready>>

-----------------------------------------------------------------------------
(* The loop of io_context::run().                                          *)

Top ==
    /\ pc = "top"
    /\ IF tasks = {} THEN pc' = "final" /\ UNCHANGED <<outcome, ioVars>>
                     ELSE CheckException("drain")
    /\ UNCHANGED <<taskVars, cur, handles, ready>>

\* The front of the run queue is resumed while it is still in the queue.
DrainResume ==
    /\ pc = "drain" /\ runQueue # <<>>
    /\ pc' = "inDrain"
    /\ cur' = Head(runQueue)
    /\ st' = [st EXCEPT ![Head(runQueue)] = "running"]
    /\ UNCHANGED <<tasks, runQueue, count, cont, rt, holder, wasAwaited,
                   excPtr, failed, handles, ready, outcome, ioVars>>

\* Mutant of DrainPop: the front stays in the queue.
DrainPopNothing ==
    /\ pc = "inDrain" /\ cur = None
    /\ CheckException("drain")
    /\ UNCHANGED <<taskVars, cur, handles, ready>>

DrainPop ==
    /\ pc = "inDrain" /\ cur = None
    /\ runQueue' = Tail(runQueue)
    /\ CheckException("drain")
    /\ UNCHANGED <<tasks, count, cont, rt, holder, wasAwaited, excPtr, st,
                   failed, cur, handles, ready>>

\* Mutant of DrainDone: an empty run queue ends the loop.
DrainDoneTooEarly ==
    /\ pc = "drain" /\ runQueue = <<>>
    /\ pc' = "final"
    /\ UNCHANGED <<taskVars, cur, handles, ready, outcome, ioVars>>

DrainDone ==
    /\ pc = "drain" /\ runQueue = <<>>
    /\ pc' = IF tasks = {} THEN "final" ELSE "wait"
    /\ UNCHANGED <<taskVars, cur, handles, ready, outcome, ioVars>>

\* io_uring_submit_and_wait returns, the batch is what is in the queue now.
Wait ==
    /\ pc = "wait" /\ cq # <<>>
    /\ pc' = "process"
    /\ ready' = Len(cq)
    /\ UNCHANGED <<taskVars, cur, handles, outcome, ioVars>>

\* A CQE of an operation some task waits for: its handle is collected.
ProcessIo ==
    /\ Head(cq) # PipeRead
    /\ handles' = Append(handles, Head(cq))
    /\ UNCHANGED <<taskVars, reader, rdBuf>>

\* Mutant of ProcessWake: the word is read, its handle is not collected.
ProcessWakeLosesHandle ==
    /\ Head(cq) = PipeRead /\ rdBuf.kind = "wake"
    /\ rdBuf' = None
    /\ reader' = "armed"
    /\ UNCHANGED <<taskVars, handles>>

\* Mutant of ProcessWake: the read is not scheduled again.
ProcessWakeStopsReading ==
    /\ Head(cq) = PipeRead /\ rdBuf.kind = "wake"
    /\ handles' = Append(handles, rdBuf.task)
    /\ rdBuf' = None
    /\ reader' = "off"
    /\ UNCHANGED taskVars

\* frame::await_process_cqe for a word written by waker::wake().
ProcessWake ==
    /\ Head(cq) = PipeRead /\ rdBuf.kind = "wake"
    /\ handles' = Append(handles, rdBuf.task)
    /\ rdBuf' = None
    /\ reader' = "armed"
    /\ UNCHANGED taskVars

\* ... and for one written by post(): only the task map holds a reference.
ProcessPost ==
    LET c == rdBuf.task IN
    /\ Head(cq) = PipeRead /\ rdBuf.kind = "post"
    /\ st' = [st EXCEPT ![c] = "ready"]
    /\ count' = [count EXCEPT ![c] = 1]
    /\ tasks' = tasks \cup {c}
    /\ runQueue' = Append(runQueue, c)
    /\ rdBuf' = None
    /\ reader' = "armed"
    /\ UNCHANGED <<cont, rt, holder, wasAwaited, excPtr, failed, handles>>

Process ==
    /\ pc = "process" /\ ready > 0
    /\ ProcessIo \/ ProcessWake \/ ProcessPost
    /\ cq' = Tail(cq)
    /\ ready' = ready - 1
    /\ UNCHANGED <<cur, pc, outcome, pipe>>

\* Every CQE of the batch is processed before the first handle is resumed.
\* The code tests exception_ptr_ after each CQE: nothing in the loop over the
\* batch sets it (ExcPtrClear), so one test stands for all of them.
ProcessDone ==
    /\ pc = "process" /\ ready = 0
    /\ CheckException("resume")
    /\ UNCHANGED <<taskVars, cur, handles, ready>>

ResumeHandle ==
    /\ pc = "resume" /\ cur = None /\ handles # <<>>
    /\ cur' = Head(handles)
    /\ handles' = Tail(handles)
    /\ st' = [st EXCEPT ![Head(handles)] = "running"]
    /\ UNCHANGED <<tasks, runQueue, count, cont, rt, holder, wasAwaited,
                   excPtr, failed, ready, pc, outcome, ioVars>>

ResumeDone ==
    /\ pc = "resume" /\ cur = None /\ handles = <<>>
    /\ pc' = "top"
    /\ UNCHANGED <<taskVars, cur, handles, ready, outcome, ioVars>>

\* After the loop.
Final ==
    /\ pc = "final"
    /\ IF excPtr # None THEN Leave("throw") ELSE Leave("return")
    /\ UNCHANGED <<taskVars, cur, handles, ready>>

-----------------------------------------------------------------------------
(* What the coroutine that runs may do.                                    *)

Spawn(t, c) ==
    /\ cur = t
    /\ SpawnFor(t, c)
    /\ UNCHANGED <<loopVars, ioVars>>

DropAwaitable(t, c) ==
    /\ cur = t
    /\ holder[c] = t
    /\ Drop(c)
    /\ UNCHANGED <<loopVars, ioVars>>

\* Mutant of TaskEnded: off by one, the reference of the awaitable counts too.
TaskEndedOffByOne(c) == count[c] < 1

\* spawn_awaitable::await_suspend found the task ended: its count is down to
\* the reference of the awaitable.
TaskEnded(c) == count[c] < 2

Await(t, c) ==
    /\ cur = t
    /\ holder[c] = t
    /\ cont' = [cont EXCEPT ![c] = t]
    /\ IF TaskEnded(c)
       THEN /\ wasAwaited' = [wasAwaited EXCEPT ![c] = TRUE]
            /\ UNCHANGED <<st, cur>>
       ELSE /\ st' = [st EXCEPT ![t] = "awaiting"]
            /\ cur' = None
            /\ UNCHANGED wasAwaited
    /\ UNCHANGED <<tasks, runQueue, count, rt, holder, excPtr, failed,
                   handles, ready, pc, outcome, ioVars>>

\* co_await of an I/O operation or of an awaitable that hands out a waker.
Suspend(t) ==
    /\ cur = t
    /\ \E s \in {"io", "waker"} : st' = [st EXCEPT ![t] = s]
    /\ cur' = None
    /\ UNCHANGED <<tasks, runQueue, count, cont, rt, holder, wasAwaited,
                   excPtr, failed, handles, ready, pc, outcome, ioVars>>

\* internal_promise_base::unhandled_exception: somebody holds the awaitable.
HasAwaiter(t) == count[t] > 1

\* final_awaitable: the task leaves the map, then the continuation runs.
\* The locals of the body were destroyed before: DropAwaitable.
FinishAs(t, r) ==
    /\ rt' = [rt EXCEPT ![t] = r]
    /\ tasks' = tasks \ {t}
    /\ count' = [count EXCEPT ![t] = @ - 1]
    /\ cur' = cont[t]
    /\ wasAwaited' = [wasAwaited EXCEPT ![t] = @ \/ cont[t] # None]
    /\ st' = [u \in Tasks |->
                IF u = t THEN IF count[t] = 1 THEN "destroyed" ELSE "final"
                ELSE IF u = cont[t] THEN "running" ELSE st[u]]
    /\ UNCHANGED <<runQueue, cont, holder, excPtr, handles, ready, pc,
                   outcome, ioVars>>

Return(t) ==
    /\ cur = t
    /\ \A c \in Tasks : holder[c] # t
    /\ FinishAs(t, "ok")
    /\ UNCHANGED failed

Throw(t) ==
    /\ cur = t
    /\ \A c \in Tasks : holder[c] # t
    /\ HasAwaiter(t)
    /\ FinishAs(t, "error")
    /\ failed' = failed \cup {t}

\* Nobody would see the exception: it is thrown out of resume() and run().
ThrowOut(t) ==
    /\ cur = t
    /\ \A c \in Tasks : holder[c] # t
    /\ ~HasAwaiter(t)
    /\ st' = [st EXCEPT ![t] = "final"]
    /\ failed' = failed \cup {t}
    /\ cur' = None
    /\ Leave("throw")
    /\ UNCHANGED <<tasks, runQueue, count, cont, rt, holder, wasAwaited,
                   excPtr, handles, ready>>

-----------------------------------------------------------------------------
(* The other threads and the kernel.                                       *)

\* executor::post; write() blocks while the pipe is full.
Post(t) ==
    /\ pc # "dead"
    /\ st[t] = "none"
    /\ Len(pipe) < PipeCap
    /\ st' = [st EXCEPT ![t] = "posted"]
    /\ pipe' = Append(pipe, [kind |-> "post", task |-> t])
    /\ UNCHANGED <<tasks, runQueue, count, cont, rt, holder, wasAwaited,
                   excPtr, failed, loopVars, reader, rdBuf, cq>>

\* waker::wake, once for each time a task waits for it.
Wake(t) ==
    /\ pc # "dead"
    /\ st[t] = "waker"
    /\ Len(pipe) < PipeCap
    /\ st' = [st EXCEPT ![t] = "signalled"]
    /\ pipe' = Append(pipe, [kind |-> "wake", task |-> t])
    /\ UNCHANGED <<tasks, runQueue, count, cont, rt, holder, wasAwaited,
                   excPtr, failed, loopVars, reader, rdBuf, cq>>

KernelRead ==
    /\ reader = "armed" /\ pipe # <<>>
    /\ rdBuf' = Head(pipe)
    /\ pipe' = Tail(pipe)
    /\ reader' = "done"
    /\ cq' = Append(cq, PipeRead)
    /\ UNCHANGED <<taskVars, loopVars>>

KernelComplete(t) ==
    /\ pc \in InLoop
    /\ st[t] = "io"
    /\ st' = [st EXCEPT ![t] = "signalled"]
    /\ cq' = Append(cq, t)
    /\ UNCHANGED <<tasks, runQueue, count, cont, rt, holder, wasAwaited,
                   excPtr, failed, loopVars, pipe, reader, rdBuf>>

-----------------------------------------------------------------------------

LoopStep == \/ Top \/ DrainResume \/ DrainPop \/ DrainDone \/ Wait \/ Process
            \/ ProcessDone \/ ResumeHandle \/ ResumeDone \/ Final
            \/ DropOrphan \/ Flush
            \/ \E t \in Tasks : Clear(t)

TaskStep == \E t \in Tasks :
              \/ Suspend(t) \/ Return(t) \/ Throw(t) \/ ThrowOut(t)
              \/ \E c \in Tasks : Spawn(t, c) \/ DropAwaitable(t, c)
                                  \/ Await(t, c)

MainStep == \/ Run \/ Destroy
            \/ \E c \in Tasks : MainSpawn(c) \/ MainDrop(c)

OtherStep == \/ KernelRead
             \/ \E t \in Tasks : Post(t) \/ Wake(t) \/ KernelComplete(t)

Next == LoopStep \/ TaskStep \/ MainStep \/ OtherStep

\* The loop thread is scheduled, a coroutine that runs comes to a suspension
\* or to its end, and a read on a pipe that holds a word completes.
Fairness == WF_vars(LoopStep) /\ WF_vars(TaskStep) /\ WF_vars(KernelRead)

Spec == Init /\ [][Next]_vars

FairSpec == Spec /\ Fairness

-----------------------------------------------------------------------------
(* Correctness.                                                            *)

One(b) == IF b THEN 1 ELSE 0

Exists(t) == st[t] \notin {"none", "posted", "destroyed"}

\* internal_promise_base::count_ is the number of places that refer to the
\* frame: the entry of the task map and the spawn_awaitable.  A frame is
\* destroyed exactly when both are gone.  Every early destroy (a use after
\* free) or missing destroy (a leak) of task_map::erase_task, task_map::clear
\* and ~internal_task shows up as a difference.
RefCountExact ==
    \A t \in Tasks :
        /\ count[t] = One(t \in tasks) + One(holder[t] # None)
        /\ Exists(t) <=> count[t] > 0

\* Whatever the loop is going to resume is a frame that still exists: the
\* entries of run_queue_ (its front is exempt while its own resume() runs or
\* has thrown), the collected handles, the coroutine that runs, the
\* continuation of a task that has not ended, and the coroutine named by a
\* CQE or a wake word that the loop has yet to read.
LiveReferences ==
    pc \in InLoop =>
        /\ \A i \in 1..Len(runQueue) :
              runQueue[i] \in tasks \/ (i = 1 /\ pc = "inDrain")
        /\ \A i \in 1..Len(handles) : handles[i] \in tasks
        /\ cur # None => cur \in tasks
        /\ \A t \in tasks : cont[t] # None => cont[t] \in tasks
        /\ \A i \in 1..Len(cq) : cq[i] # PipeRead => cq[i] \in tasks
        /\ \A i \in 1..Len(pipe) :
              pipe[i].kind = "wake" => pipe[i].task \in tasks

\* A coroutine suspended in co_await of a spawn_awaitable waits for a task
\* that is still going to end and that knows its continuation: the test of
\* count_ in await_suspend and the order erase_task, continuation in
\* final_suspend leave no window in which the resumption is lost.
AwaiterWillBeResumed ==
    pc \in InLoop =>
        \A t \in Tasks : st[t] = "awaiting" =>
            \E c \in tasks : holder[c] = t /\ cont[c] = t

\* How many notifications (CQE, wake word, collected handle) are on their way
\* to t.
Positions(s, P(_)) == {i \in 1..Len(s) : P(s[i])}

Notifications(t) ==
    Cardinality(Positions(handles, LAMBDA h : h = t))
    + Cardinality(Positions(cq, LAMBDA c : c = t))
    + Cardinality(Positions(pipe, LAMBDA w : w.kind = "wake" /\ w.task = t))
    + One(rdBuf # None /\ rdBuf = [kind |-> "wake", task |-> t])

\* While the loop runs, a task that was signalled is told exactly once and a
\* task that waits for something else is not told at all: no wake-up is lost
\* when the word moves from the pipe to the read to the batch, none is
\* delivered twice.
SignalledOnce ==
    pc \in InLoop =>
        \A t \in Tasks : Notifications(t) = One(st[t] = "signalled")

\* An exception that ends a task is seen by somebody.  When run() is about to
\* return normally every failed task was awaited, or its awaitable is still
\* held outside of run() with the exception in it; otherwise run() throws.
NoLostException ==
    pc = "leave" /\ outcome = "return" =>
        /\ excPtr = None
        /\ \A t \in failed :
              \/ wasAwaited[t]
              \/ rt[t] = "error" /\ holder[t] = Main

\* run() leaves nothing behind: once it has returned, thrown or the
\* io_context is gone, the only frames left are those whose awaitable is
\* still held by the caller (directly or by such a frame), and after a normal
\* return these have ended.
NothingLeftBehind ==
    pc \in Outside /\ tasks = {} =>
        \A t \in Tasks : Exists(t) =>
            /\ holder[t] # None
            /\ pc = "idle" => st[t] = "final" /\ holder[t] = Main

\* Between the test of exception_ptr_ in the drain loop and the resumption of
\* the handles no exception is pending, so the loop never blocks in
\* submit_and_wait on top of one.
ExcPtrClear == pc \in {"drain", "wait", "process"} => excPtr = None

\* As long as the loop runs, a frame is destroyed only when its task has
\* ended: never under a coroutine that is suspended on I/O or in a queue.
DestroyedOnlyAfterItsEnd ==
    [][\A t \in Tasks :
          pc \in InLoop /\ st[t] # "destroyed" /\ st'[t] = "destroyed" =>
             st[t] = "final" \/ cur = t]_vars

\* The address of t is in the pipe or in the buffer of the completed read.
InTransit(t) ==
    \/ rdBuf = [kind |-> "post", task |-> t]
    \/ \E i \in 1..Len(pipe) : pipe[i] = [kind |-> "post", task |-> t]

\* While the loop runs, a posted task is started and a task whose operation
\* completed or whose waker was called is resumed, whatever else the loop has
\* to do and although the pipe holds few words: the read is armed again after
\* every word and every CQE of a batch is served.  (A word whose read completed
\* as an earlier run() returned is discarded by ~guard and is not in transit
\* any more.)
EveryNotificationServed ==
    \A t \in Tasks :
        ((InTransit(t) \/ st[t] = "signalled") /\ pc \in InLoop)
            ~> (st[t] = "running" \/ pc \notin InLoop)

=============================================================================

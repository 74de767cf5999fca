# fiona: models, checks and proofs

fiona is a C++20 coroutine runtime on top of io_uring: an event loop
(`io_context`, `executor`), spawned tasks, timers, TCP clients, acceptors and
streams, files, a DNS resolver and TLS. It is used from one thread per loop;
other threads reach a loop through a pipe. This directory models the parts of
it that are hard to test, checks them with TLC on small instances and proves
the main results about the event loop, the timer, the client, the file, the
acceptor, the stream and the receives with TLAPS, for any number of tasks,
coroutines, slots, streams, buffers and operations.

Source paths below are relative to the repository.

## 1. Inventory

| Component | State | Operations | Hard part |
|---|---|---|---|
| Event loop (`src/io_context.cpp`) | run queue, exception slot, batch of completions, read on the pipe | `run`, `~guard`, `~io_context` | handles kept in several places while tasks end; leaving `run()` half way |
| Spawned tasks (`include/fiona/executor.hpp`, `detail/common.hpp`) | task map, `count_`, `continuation_`, result, `was_awaited_` | `spawn`, `co_await`, `~spawn_awaitable`, end of a task | await against end; exceptions nobody awaits |
| Post and wakers (`executor.hpp`, `io_context.cpp`) | pipe, tagged words | `post`, `waker::wake` | other threads; one word at a time |
| Timer (`src/time.cpp`) | `timeout_frame`, `cancel_frame`, reference count | `async_wait`, `async_cancel`, destructors | expiry against cancel, a busy timer |
| TCP client (`src/tcp.cpp`, `src/detail/stream_impl.hpp`) | frames of socket, connect, close, timer; `fd_`, `connected_` | `async_connect`, `async_close`, `~client` | a chain of linked operations, shared use |
| Acceptor (`src/tcp.cpp`) | frames of accept, cancel, close; `fd_` | `async_accept`, `async_cancel`, `async_close`, destructors | a slot reserved before the peer comes |
| Fixed file table (`executor.hpp`) | `fds_` | `get_available_fd`, `release_fd` | a slot is returned in many places |
| Receive and buffer rings (`tcp.cpp`, `stream_impl.hpp`, `src/common.cpp`) | `recv_frame`, `buf_ids_`, `bufs_`, ring of the kernel | `async_recv`, `set_buffer_group`, `recycle_buffer` | multishot receives that end at any time, buffers shared by streams |
| Stream (`tcp.cpp`, `stream_impl.hpp`) | one frame for each operation, the multishot timer | `async_send`, `async_recv`, `async_shutdown`, `async_cancel`, `async_close`, `timeout`, `~stream` | a timer that cancels by slot what is idle; the last handle is found by arithmetic |
| Submission queue (`detail/get_sqe.hpp`) | free entries | `get_sqe`, `reserve_sqes`, `submit_ring` | chains must not be split |
| File and fixed buffers (`src/file.cpp`, `detail/common.hpp`) | frames of open, read, write; pool of ids | `async_open`, `async_read`, `async_write`, ... | slots and ids at their limit; the buffer of a call is in a shared frame |
| Buffer sequences (`include/fiona/buffer.hpp`, `src/buffer.cpp`) | linked list of buffers | `push_back`, `pop_front`, `concat`, iteration | pointer surgery |
| DNS (`src/dns.cpp`) | a thread, a mutex, the answer | `async_resolve` | thread against destruction |
| TLS (`src/tls/tls.cpp`) | Botan channel, two buffers | handshake, send, receive, shutdown | re-entrant callbacks |
| `task<T>` (`include/fiona/task.hpp`) | continuation, result | `co_await` | - |
| Addresses, errors, durations, parameters | plain data | conversions | - |

How they interact. Every operation has a frame embedded in a reference counted
object (`timer_impl`, `client_impl`, ...). Starting it queues an SQE whose
`user_data` is the frame and adds a reference to the object. The loop submits
the queue, waits, walks a batch of completions: it calls `await_process_cqe` of
each frame, takes the coroutine handle out of it, drops the reference, and only
after the whole batch resumes the handles it has collected. So between a
completion and the resumption of its coroutine other completions are processed
and other coroutines run; whatever an awaitable does in its destructor may
happen at any such point.

What makes the components correct: no frame or object is freed while a handle
or the kernel refers to it, and none is kept without reason; a suspended
coroutine is resumed once, by the operation it waits for; slots and buffer ids
have one owner; exceptions are seen by somebody; waits, connects, closes and
receives come to an end; what is received is what was sent. `PROJECT.json` lists the places where this can go
wrong (`hazards`), with the property that watches each of them or the reason
why there is none.

## 2. Modules

| Module | Models | Composes |
|---|---|---|
| `Executor` | event loop, task map, spawn, await, post, wake | loop, tasks, pipe, kernel |
| `ExecutorProofs`, `TimerProofs`, `FileProofs`, `AcceptorProofs`, `RecvProofs`, `ClientProofs`, `StreamProofs` | theorems about `Executor`, `Timer`, `File`, `Acceptor`, `Recv`, `Client`, `Stream` | |
| `Counting` | lemmas: how many entries of a queue, or points of a function, have a property | used by all of them but `ExecutorProofs` |
| `Timer` | one timer shared by coroutines | frames, loop, kernel's timeout |
| `Client` | one client shared by coroutines, file table | frames, loop, chain of operations, other sockets |
| `Acceptor` | one acceptor shared by coroutines, file table | frames, loop, accepted streams |
| `Stream` | one connected stream shared by coroutines, its timer | frames, loop, slot, kernel, who gets the slot next |
| `Recv` | several streams on several buffer rings | frames, loop, rings, kernel, peers |
| `File` | one file shared by coroutines, registered buffers, file table | frames, loop, pool, kernel, file |
| `BufferSequence` | the linked lists of `recv_buffer`s, as operators on a heap | |
| `Tls` | a TLS client and a TLS server in one session | two endpoints, `BufferSequence`, a TCP connection, Botan |
| `Channel` | abstract: what a connection promises to its reader | implemented by `Recv` and by `Tls` |
| `MCExecutor`, `MCTimer`, `MCClient`, `MCAcceptor`, `MCStream`, `MCRecv`, `MCFile`, `MCTls` | instances for TLC | |

Variables have the names of the members they stand for, or a comment says which
they are; actions have the names of the functions. `"map"` in `PROJECT.json`
gives the lines of each definition.

**Executor.** A task is one scheduler coroutine with the stack of `task<T>`
coroutines it awaits: control moves in that stack by symmetric transfer only, so
it is one thread of control. `pc` is the place of the loop thread in `run()`:
`top` (the test of the task map), `drain`/`inDrain` (the run queue; its front is
popped after `resume()` returned), `wait`, `process` (one completion a step),
`resume` (the collected handles), `final` and `leave` (destructors of
`pipe_awaitable` and `guard`), and `idle`, `failed`, `dead` outside. What a
coroutine does while it runs is the choice of its author: spawn, await, drop an
awaitable, wait for the kernel or for a waker, return, throw. Each library call
is one action. Other threads write words to a pipe of `PipeCap` words. The
destruction of a frame destroys its locals, and with them the awaitables it
holds: `DropOrphan` does that one by one before anything else happens on the
thread. `failed` is a history variable. An exception nobody would see, because
nobody holds the awaitable of the task, leaves `resume()` and `run()` (`ThrowOut`).

**Timer, Client, Acceptor, Stream, Recv, File** share one picture of the loop: `user`
(coroutines run, `handles` are those still to be resumed), `submit`
(`sq` goes to the kernel entry by entry), `reap` (a batch of completions), and
for `run()` left by an exception `abort` (coroutines are destroyed in any
order), `flush` (`~guard` drops the references of the completions that are
left) and `end`. The kernel's half of an operation is a variable of its own
(`armed`, `conn`, `acc`, `held`, `file`, `ring`), changed by actions marked external in
the map: they are written from the way the code uses liburing (linked
operations, `IOSQE_CQE_SKIP_SUCCESS`, cancel by `user_data` or by file,
multishot). An operation linked behind another one runs after the submitting
call has returned (`work`). Waits, connects and accepts are numbered in history
variables so that a property can say which one a completion belongs to.

**Stream** has all operations of a stream at once, each with its frame, because
`~stream` counts them and the timer cancels whatever the slot leads to. The slot
may be given to another socket as soon as the close has been processed
(`OtherTakes`), so that an SQE written with the old number can be seen to go
astray. Time is the number of expiries processed since an operation began or
made progress: at zero and one the clock may say either, at two (`Overdue`) it
is overdue for certain. `connected_` is in `Client`, where a failed send may take it
away at any moment (`ConnectionLost`); `stream_cancelled_` and the missing buffer
group (EINVAL) belong to `Recv`. The submission queue may be full when an
operation is started, also by the timer while completions are processed, and is
submitted then (`SubmitFull`, in all modules of this group; in `Stream` and `File`
once `Room` SQEs are queued).

**File** numbers the writes, so that the file and the buffers hold numbers and a
property can say whose data went where. Opening, reading and writing run in
workers of the kernel: a cancel may come too late.

**BufferSequence** is pointer surgery as in the header: a heap with `next_`,
`prev_`, `head_`, `tail_`, `num_bufs_`, the sentry of a list being a node of its
own, and one operator for each member function. `Tls` uses it in long chains:
ciphertext arrives in `bufs`, is parked in `output_sequence_`, its buffers are
filled with plaintext and move to `input_sequence_`, which is moved out to the
caller, who concatenates what he gets.

**Tls** cuts everything into cells: a record is a header cell and a cell per unit
of plaintext, buffers hold `Cap` cells, TCP delivers any number of cells at a
time. Botan keeps an incomplete record and calls the callbacks for a complete
one, as the library relies on; a record with something missing in it or before it
does not authenticate, and `received_data` throws (`bad`). Each endpoint has a
coroutine for the handshake and the shutdown and, in between, one that sends and
one that receives. What an endpoint does depends on what it can see itself: it
shuts down when it has sent and read everything, and it sends when its handshake is
complete. The one restraint is `MaySend`: who has sent the last message of the
handshake (`lastWord`, the server in TLS 1.2, the client in TLS 1.3) waits for
something from its peer before it sends, except with `"earlyData"`. A
send fails when the peer has closed or the connection is broken, a receive fails
when it is broken, or when the timer of the stream ends it although nothing can
come any more (`Standstill`). Who ends, in whatever way, closes the connection.

**Channel** says that the reader gets the units in the order in which they were
sent, none lost or repeated, several at a time if it happens, and the end of
file once and last. In `Recv` a unit is a chunk the peer sent and the refinement
mapping reads `received` off what `async_recv` returned; in `Tls` a unit is a
cell given to `async_send` and the channel is the whole session.

Payloads, addresses, durations and `res` values are reduced to what the
properties distinguish: a chunk is its number, an address does not occur, a
timeout expires at any moment, an error is one of a few names.

## 3. What TLC checks

| Run | Instance | States | Shows |
|---|---|---|---|
| `executor` | 3 tasks, pipe of 2 | 343 k | reference counts exact, no dangling handle, no lost await, each notification delivered once, no lost exception, nothing leaked; every word in the pipe is served |
| `timer` | 3 coroutines, 3 waits | 39 k | `References`: freed exactly when the last user goes, through busy waits, cancels and destruction; `Resumption`: one resumption, by one's own completion; `async_cancel` tells the truth; every wait returns |
| `client` | 3 coroutines, 2 slots, 2 connects | 206 k | references, the arithmetic of `~client`, slots with their sockets, success means connected, one resumption each, nothing left behind; connects and closes return |
| `acceptor` | 3 coroutines, 2 slots, 3 accepts | 168 k | references, slots with their files, completions meet their own accept; a close ends the accept in flight, cancel and close return |
| `stream` | 2 coroutines, 1 change of the timeout, a queue that may be full from 5 entries on | 356 k | references of all operations and the arithmetic of `~stream` with a timer that cancels on its own; one resumption each; nothing strays to the next owner of the slot; nothing stays in the kernel; every call returns with a silent peer |
| `recv_safety` | 2 streams, 1 ring of 2, 2 chunks each | 1.1 M | buffer ids conserved and the ring refilled, readers resumed exactly when there is something; `RefinesChannel` |
| `recv_liveness` | 2 streams, 2 rings of 1, 1 chunk each | 116 k | everything sent is received, whatever ENOBUFS and timeouts do |
| `file` | 2 coroutines, 2 slots, 1 registered buffer, 1 write, a queue that may be full from 2 entries on | 246 k | references, slots, one resumption each; transfers use the caller's memory; every call returns |
| `tls` | 3 cells one way, 1 the other, records up to 3, buffers of 2, either side has the last word, a connection that may break | 49 k | the lists of buffers stay lists and share no buffer; `RefinesChannel`; every call returns and, if nothing breaks, everything is received and both sides shut down properly unless `async_recv` of the server has met the close_notify |
| `file_pool`, `tls_early_data`, `tls_shutdown` | | | the findings of section 6 |

Bounds. The number of tasks, coroutines and streams is the least with which
every pair of roles and a third party occur: one awaits, one is awaited, one
arrives through the pipe; one operates, one is refused or cancels, one closes
or outlives the others. Two words fill the pipe so that a writer has to wait
while a read is completed and one is queued. Two slots let the table run empty
while another socket returns one. `MaxWaits`, `MaxConnects` and `MaxAccepts` of
two or three allow a late completion of one attempt to meet the next one, which
is the case the numbering is for. Two buffers and two chunks allow one stream to
hold a buffer that the other one lacks; the ring of one buffer in
`recv_liveness` makes ENOBUFS the normal case. Two coroutines on a stream are
one that waits and one that interferes, and the timer is the third party; one
change of the timeout lets a removal meet an expiry, a close and the last
handle. One registered buffer and one write suffice for a read and a write that
each coroutine may do with either kind of memory, and for being turned away
while the other one's transfer is under way. Buffers of two cells and records of
up to three with their header make records begin, end and continue anywhere in a
buffer, and two records share one. `Room` of `Stream` and `File` is the number of
its own SQEs the queue takes before it may be full. A call queues one or two: with
five, and two for a file, the SQEs of one turn are still taken by the kernel in two
parts, with completions and an exception between them; the theorems hold for any
`Room`. `CHECK_DEADLOCK` is off: a loop
whose users do nothing more, or that has been left, stops.

Fairness. `WF(LoopStep)`: the loop thread is scheduled. `SF(Resume)` and
`SF(SubmitAndWait)`: a coroutine does not run for ever between two suspensions,
so the loop gets its turn; without it a coroutine that calls a refused
operation in a loop would hold the thread. `WF(KernelExpires)`,
`WF(KernelConnects)`: a timeout expires, a connect is decided (a timeout is
linked to it). In `Recv` the user reads again (`SF`) and the kernel
serves a receive that has data and a buffer again and again (`SF`: timeouts may
cancel it in between). In `Acceptor` nothing makes a peer come. In `Stream` the peer does nothing either; the
timer expires again and again (`SF(Expire)`) and a worker finishes a shutdown.
In `File` the kernel finishes what it began on a file (`SF`). In `Tls` the two
loops turn, TCP takes and delivers or fails (all `WF`), both sides send and read
what they have to, and who waits in vain does not try again for ever
(`SF(RecvFails)`: the timer ends the receive and the caller gives up). In `Executor`
only the loop, a running coroutine and the read on the pipe are fair; nobody is
obliged to wake anybody.

Assumptions on use, all visible in guards or in `Uses`: `run()` is called again
only after it returned normally; a waker is woken once; a stream has a buffer
group before it receives and one coroutine that reads; a client is not
closed by two coroutines at once and not connected during a close; an acceptor
or a stream is cancelled, closed or shut down by one coroutine at a time; a file
is opened once; operations are started on the thread of their loop. The constant
`Uses` of a module adds what the runs leave out, to see what it does:

| Module, `Uses` | What fails, and why |
|---|---|
| `Client`, `socketFails` | `Resumption`, `References`: the severed connect completes in the batch of the failed socket, although `await_resume` asserts that it has not (`src/tcp.cpp:1283`); the coroutine is collected through both frames |
| `Client`, `sharedReconnect` (3 connects) | `Resumption`: `await_ready` looks at the `socket_frame`, which a reconnect does not use (`src/tcp.cpp:1189`) |
| `Client`, `sharedClose` | `Resumption`: the second close overwrites `h_` (`src/tcp.cpp:804`) |
| `Client`, `connectInClose` | `SlotsSound`: the connect uses the slot the close gives back |
| `Recv`, `regroup` (2 groups) | `BuffersSound`: `await_resume` replenishes the ring of the new group (`src/tcp.cpp:1046`) |
| `Stream`, `lateLoop` | `References`, `NothingLeftBehind`: two expiries before the first cancel completes make two references of which `~stream` counts one (`src/detail/stream_impl.hpp:531`) |
| `Stream`, `timerEnds` | `NothingLeftBehind`, `SlotIsOwn`: a timer the kernel has ended is armed again after its removal found nothing |
| `File`, `reopen`, `sharedOpen` | `SlotsAccounted`, with the latter also `Resumption` and `References`: `async_open` looks neither at `fd_` nor at `initiated_` |
| `Tls`, `earlyData` | `BuffersSound`: the finding `tls_early_data` |
| `Tls`, `shortSend` | `RefinesChannel`, `SessionEnds`: the rest of `send_buf_` is thrown away and the full size returned (`src/tls/tls.cpp:472`), what follows does not authenticate; every call still returns |

`"reset"` of `Tls` is not a use: the connection breaks. The `tls` run has it.

Every property of a passing run has a mutant: a definition next to the original,
marked "Mutant of", that changes it as a plausible slip in the code would, and
under which TLC finds the property violated.

## 4. What is proved

`ExecutorProofs` proves, for every set of tasks and every capacity of the pipe
(assumptions `PipeCapAssumption`, `NamesAssumption` of `Executor`: the capacity
is positive, the special values are not tasks):

| Theorem | Statement |
|---|---|
| `TypeCorrect` | `Spec => []TypeOK` |
| `RefCountsAreExact` | `Spec => []RefCountExact` |
| `NoDanglingHandle` | `Spec => []LiveReferences` |
| `AwaitersAreResumed` | `Spec => []AwaiterWillBeResumed` |
| `ExceptionsAreNotLost` | `Spec => []NoLostException` |
| `NoFrameIsLeaked` | `Spec => []NothingLeftBehind` |
| `NoBlockingOnException` | `Spec => []ExcPtrClear` |
| `FramesOutliveTheirTask` | `Spec => DestroyedOnlyAfterItsEnd` |

They rest on one inductive invariant,

    IInv == TypeOK /\ RefCountExact /\ Control /\ (Healthy => HealthyInv)

`RefCountExact` is nearly inductive alone; the others are not. That the front
of the run queue may be resumed needs that it is in the task map (`QueueInv`),
which needs that a task is queued once and ends only when it runs. That a handle
in a batch may be resumed needs that a task is notified in one place only, be it
the completion queue, the pipe, the completed read or the batch (`NoteInv`,
`PipeInv`). That an awaiting coroutine is resumed needs that awaitable,
continuation and state agree and that a continuation belongs to one task
(`AwaitInv`). That an exception is not lost needs that a failed task was
awaited, or its awaitable still holds the exception, or an exception is pending
(`FailInv`). All of these are given up when `run()` is left by an exception or
by `~io_context`, after which nothing is resumed (`Healthy`); counts and control
are not. `Control` ties `pc` to the rest, for instance that no exception is
pending when the loop goes on to wait. There is one lemma for each action
(`...Step`), `NextInv` combines them and `ExecutorInvariant` is the result. Queues are handled through the
set of their elements and the absence of repetitions (`Elem`, `Inj`), with two
lemmas on `Append` and `Tail`.

`SignalledOnce` (theorem `WakeUpsAreDeliveredOnce`) has a second invariant on top
of that one. `NoteInv` says that a notification is in one place at most; `Heard`
says that it is somewhere: a task the outside world has signalled and that has
not been resumed since has a word in the pipe or in the completed read, a
completion, or its handle in the batch. Both together make the cardinality of
`SignalledOnce` one.

`TimerProofs`, `FileProofs` and `AcceptorProofs` prove the safety invariants the
runs check, for any finite set of coroutines that share the object and any bound
on the number of its operations:

| Module | Theorem | Statement |
|---|---|---|
| `TimerProofs` | `ReferencesHold` | `Spec => []References` |
| | `ResumptionHolds` | `Spec => []Resumption` |
| | `CancelIsTruthfulHolds` | `Spec => []CancelIsTruthful` |
| `FileProofs` | `ReferencesHold` | `Spec => []References` |
| | `SlotsAccountedHold` | `Spec => []SlotsAccounted` |
| | `ResumptionHolds` | `Spec => []Resumption` |
| | `TransfersAreTheCallersHold` | `Spec => []TransfersAreTheCallers` |
| `AcceptorProofs` | `ReferencesHold` | `Spec => []References` |
| | `SlotsPartitionHolds` | `Spec => []SlotsPartition` |
| | `ResumptionHolds` | `Spec => []Resumption` |

Assumptions: `TimerAssumption`, `FileAssumption`, `NoneAssumption` and
`AcceptorAssumption` of the modules. They say that special values (a null handle,
a descriptor of -1, a coroutine without a fixed buffer) are none of the ordinary
ones, that bounds are numbers, and that finitely many coroutines share an object,
without which a reference count could not count them. The theorems of
`FileProofs` are for `Uses = {}`, that is, a file is not opened again while it
is open or being opened; what happens otherwise is in the table of section 3.

The three inductive invariants have the same core, which is the way the library
works:

- `Exact`: the reference count is the number of handles, of awaitables and of
  operations in flight, each written with an operator of `Counting` (`Pop`,
  `OfOp`, `Times`) so that a step changes a sum by a known amount. A
  `Cardinality` over a queue is used only through its lemmas on `Append` and
  `Tail`, since there is no induction over data to be had from the provers.
- `Frames` and `Flight`: a frame that is initiated and not done has one operation
  in flight, wherever it is (queue, linked work, kernel, completion), and any
  other frame has none; the handle is in the frame exactly then; two coroutines
  are never in the same frame.
- `Waiters`: a coroutine that waits is named by the frame, or its handle has been
  collected once. With `Flight` this is `ResumedOnce`.
- `Leave`: when `run()` was left, an accept or a timeout that the kernel holds
  belongs to a coroutine that still exists or has a cancel behind it in the
  queue. This is what makes the count zero at the end.

Each property adds what it needs. `CancelIsTruthful` needs to know of a wait the
kernel has reported as cancelled, from the completion on, that its timeout is not
armed any more and ends with ECANCELED (`Marks`). The slots of `File` need that a
slot is parked in `temp_fd_` exactly while the open is under way and stays empty
until the kernel has opened the file in it (`Parked`, `Opens`, `Opened`); those
of `Acceptor` that a close in flight, before and after the kernel got to it, is
of the slot the acceptor owns (`Closing`) and that the reserved slot is empty
until there is a connection in it (`Reserved`). `TransfersAreTheCallers` needs
that the pool gives out a buffer once (`Pool`), that frames are clean between
two transfers (`Clean`), and that a transfer in flight carries the memory of the
coroutine whose state says that it transfers (`Caller`, `Carries`); it is shown
on top of the other invariants of `File` (`Safe`), while `run()` is not being
left. In `Timer` and `Acceptor` the number of a wait or of an accept in a
completion is that of the frame (`Flight`, `Ids`), from which
`CompletionsAreOfThisWait` and `CompletionsAreOfThisAccept` follow.

`RecvProofs` is about several streams on several rings, for any finite set of
streams, any groups, any number of buffers in a ring and any number of chunks
(`RecvAssumption`: the numbers are numbers, a ring is not empty):

| Theorem | Statement |
|---|---|
| `ReaderIsServedHolds` | `Spec => []ReaderIsServed` |
| `RefinesChannelHolds` | `Spec => RefinesChannel` |
| `BuffersConservedHolds` | `Spec => []BuffersConserved` |
| `BuffersSoundHolds` | `Spec => []BuffersSound`, when `"regroup" \notin Uses` |

The four rest on invariants that build on one another:

- `Readers`: a receive is under way exactly while it is queued, in the kernel, or
  its last completion is still to come; there is one at a time, nothing follows
  its last completion, and there is none once the frame has an error or the end
  of file (`Under`). A waiting reader is named by the frame, which is then empty,
  or its handle has been collected once and there is something to return
  (`Served`).
- `Flows`: the chunks of a stream are, in this order and without a gap, in the
  hands of the user, in the frame and in the completions. What the completions
  bring are the numbers from `Seen` to `arrived`, once each and ascending
  (`Brings`), and the end of file is last wherever it is. With it every step of
  `Recv` is a step of `Channel` or changes nothing there: a chunk that reaches a
  buffer is a chunk sent, the completion of the end of file closes the channel,
  and `await_resume` receives; processing a completion is a stutter. That
  `Flows` needs `Readers` is the point of the design: a receive started again
  too early would let two completions of different receives cross.
- `Places`: the ids in the ring, on the stack and in the completions are all the
  ids of a group, in one place and once each (`Apart`, `Once`). A completion
  names an id of the ring its stream was started with, and that ring may only
  change while the stream has no completion, which is `Under` again.
- `Grouped` and `Levels`: what is unread came out of the ring of the group that
  is set, and a ring has at most as many ids on its stack as it has unread
  buffers, so none when everything has been read. `Grouped` is what
  `set_buffer_group` breaks when data is unread; hence the condition of
  `BuffersSoundHolds`, while `BuffersConservedHolds` has none.

`ClientProofs` is about a client shared by any finite, non-empty set of coroutines,
any table and any number of connects (`ClientAssumption`: special values are none
of the ordinary ones, and somebody has the client to begin with, since the
constructor's timer is stopped by the last handle and by nothing else):

| Theorem | Statement |
|---|---|
| `SlotsPartitionHolds` | `Spec => []SlotsPartition`, for any `Uses` |
| `ReferencesHold` | `Spec => []References`, when `Uses = {}` |
| `ResumptionHolds` | `Spec => []Resumption`, when `Uses = {}` |
| `SlotsSoundHolds` | `Spec => []SlotsSound`, when `Uses = {}` |
| `SuccessMeansConnectedHolds` | `Spec => []SuccessMeansConnected`, when `Uses = {}` |

The partition is inductive with the types of `fds_` and of the slots of others
(`Table`). The others hold of a client that is not connected or closed while
somebody else connects or closes it, and of a kernel that can create a socket; the
table of section 3 says which of them fails otherwise. They rest on the core above
(`Exact`, `Frames`, `Flight`, `Waiters`, `Leave`) and on what a chain of linked
operations and a slot that two sides change require:

- A socket that is queued stands for the connect linked to it, so the connect has
  one place among five (the two queues, the linked work, the kernel, the
  completions), and the frames say which attempt all of them belong to (`Places`).
- `Places` also ties the slot in an SQE, in the linked work and of the connect in
  the kernel to `fd_` as it is now. That this stays true when `fd_` is given back
  needs the order of the operations (`Order`): a connect is queued, linked and
  issued before a close that is in flight with it, and a socket completes before
  its connect. So when the completion of the close takes `fd_` away, nothing that
  is still to be issued names the slot.
- A coroutine that connects a connected client again does not have a socket to
  wait for. Its connect completes, and it is resumed, before a close that was
  started after it (`AgainFirst`); otherwise the close would make the client lose
  its slot under a connect whose number says it is still to come.
- `Connected`: `connected_` speaks of the file in the slot unless the client is
  being closed or connected, and of a connect with no close during it
  (`closedDuring`) the slot is still there when its coroutine returns.
- `FreeSlotsAreClosed` follows from `Places`: when the completion of a close is
  processed the file in the slot has been closed, also when the connect in the
  kernel held the slot until then.

`ActiveSum` turns `Exact` and `Flight` into what `~client` computes: the count
without the active frames is the number of handles.

`StreamProofs` is about a stream shared by any finite, non-empty set of coroutines
and any number of calls of `stream::timeout` (`StreamAssumption`; non-empty because
the timer of a stream nobody has would never be stopped):

| Theorem | Statement |
|---|---|
| `ResumptionHolds` | `Spec => []Resumption`, for any `Uses` |
| `ReferencesHold` | `Spec => []References`, when `Uses = {}` |
| `SlotIsOwnHolds` | `Spec => []SlotIsOwn`, when `Uses = {}` |
| `NothingLeftBehindHolds` | `Spec => []NothingLeftBehind`, when `Uses = {}` |

`Uses = {}` says that the loop deals with one expiry of the timer before the next
one, and that the kernel does not end the multishot timer; without it TLC finds
the three false (table of section 3). The invariant has two layers,

    Calls == Types /\ Control /\ Frames /\ Waiters /\ (pc # "end" => FlightOf(CallOps))
    IInv  == Calls /\ Exact /\ Clock /\ Slot /\ Leave

- `Calls` is the core above for the operations coroutines wait for, and does not
  mention the timer. It is inductive by itself: whatever the timer cancels, and
  however often it expires, reaches a coroutine only as a completion of its own
  operation. A multishot receive needs more than one place (`FlightOf`, `Pairs`): a
  completion with MORE may be behind which the last one follows, never another
  way round, and while only the former has come the kernel still has the receive.
- `Exact` counts the references: one for a handle, one for an awaitable, one for
  each operation waited for, and none for a completion with MORE.
- `Clock`: there is one expiry to process, or none, and no cancel of the timer's
  under way then, so that it has one reference at most; this is what `~stream`
  counts on. A cancelled timer has its removal behind it in the queue
  (`Covered`). A close cancels the timer, and the timer's last completion comes
  before that of the close (`Precedes`); so the timer does not outlive `fd_`, and
  finds it when it expires.
- `Slot`: every SQE that names the slot is queued before the one with which
  somebody else fills it (`InTime`), since the completion of the close that gives
  it away comes after them; a close that is task work still owns it.
- `Leave`: a send is waited for or has its cancel in the queue; when all
  coroutines are gone the timer and the receive have theirs, and once that was
  submitted the kernel has none of the three. With `Exact` the count is zero at
  the end.

In all seven modules there is a lemma for each action, or for each kind of them,
with a step for each conjunct the action can disturb, and one that combines
them; the theorems above follow from it. Before it was proved each inductive
invariant was checked by TLC on the instance of its run.

Only model-checked are all liveness properties (fairness and `ENABLED` are out
of the provers' reach), what `BufferSequence` and `Tls` compute (recursive
operators) and with it the refinement of `Channel` by `Tls`, and
what `Client` and `Stream` do with other `Uses` (but for `SlotsPartition` of the
one and `Resumption` of the other). The one invariant of a run without a theorem is
`BuffersSound` of `Tls`: it speaks of the lists `BufferSequence` builds by
recursion.

## 5. Not modelled

- The DNS resolver: a thread that runs `getaddrinfo` and wakes the coroutine. The
  hand-over is the waker of `Executor`; what is left is the lifetime of a
  `std::thread` (hazard at `src/dns.cpp:73`).
- The count of free entries of the submission queue. That it may be full at any
  moment is in every module with a queue.
- Botan: certificates, policies, credentials. A handshake that is called again
  (EINVAL) changes nothing and is left out. The read adaptor of
  `detail/buffers_adaptor.hpp`, which nothing in the library uses.
- The failures of the constructor of the acceptor (socket, bind, listen,
  registration): an exception before there is anything to share; where the
  registration fails the slot it had taken is not returned (`src/tcp.cpp:211`).
- `task<T>` by itself: its stack is one thread of control of a spawned task.
- Copies of a `spawn_awaitable`, a pipe read that fails, a second `run()` after
  an exception, a waker woken twice; the lifetime of the caller's memory while a
  worker of the kernel still uses it.
- Memory exhaustion in `await_suspend`, `get_sqe` failing after a submit.
- Addresses, error texts, durations: conversions without state.

## 6. Findings

Each is a run that TLC must find violated; what is violated is an assertion of
the repository.

1. `file_pool`. `~fixed_buffer` steps its own copy of `avail_buf_ids_` forward
   (`include/fiona/detail/common.hpp:60`); the pool never gets a buffer back, and
   `avail_buf_ids_ != buf_ids_.data()` fails at call `num_bufs` + 1 of
   `get_avail_buf`.
2. `tls_early_data`. A record that reaches the server in the same receive as the
   end of the handshake finds `input_sequence_` and `output_sequence_` empty, and
   `front()` of an empty sequence is used (`src/tls/tls.cpp:300`).
3. `tls_shutdown`. The client shuts down as soon as its own input and output are
   done, as `test/tls/tls_test.cpp:654` and 832 do. When its close_notify arrives
   together with its last data, `async_recv` of the server consumes it, Botan
   having recorded it in `close_notify_received_`; `async_shutdown` of the server
   receives before it looks there (`src/tls/tls.cpp:691`), and that of the client
   waits for the answer. The tests check success on both sides. The model has the
   timer of the stream end both waits with an error. With this case set aside,
   both sides shut down properly: that is the premise in `SessionEnds`.
What the settings of `Uses` in section 3 show beyond these are disagreements of
the code with what one would expect of it under uses that neither the
documentation nor the tests settle. One more, `stream_cancelled_` being set for good
(`src/detail/stream_impl.hpp:389`), changes only which error a timeout reports
and is in the model without a property.

## 7. Plan

Done: `Executor`, `Timer`, `Client`, `File`, `Acceptor`, `Stream` and `Recv` with
proofs of every safety property their passing runs check, the refinement of
`Channel` by `Recv` included; `BufferSequence`, `Tls`, and the refinement of
`Channel` by `Tls`.

Next, in this order:

1. Lemmas about `BufferSequence`: `PushBack`, `PopFront`, `MoveTo` and `Concat`
   take heaps with `IsList` to heaps with `IsList`, for which the traversal has to be
   written as a recursive function.
2. The resolver on top of the waker, and a submission queue with a capacity.

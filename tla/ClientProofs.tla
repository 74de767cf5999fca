---------------------------- MODULE ClientProofs ----------------------------
(***************************************************************************)
(* Proofs about fiona::tcp::client, for any finite set of coroutines that  *)
(* share it, any file table and any number of connects.                    *)
(***************************************************************************)
EXTENDS Client, Counting

-----------------------------------------------------------------------------
(* The slots of the file table, whatever the users and the kernel do.      *)

Table == fds \subseteq Slots /\ others \subseteq Slots /\ SlotsPartition

\* The slot of the client, if it has one, is given back.
LEMMA GivenBack ==
    ASSUME Table, fds' = fds \cup ({fd} \ {NoFd}), fd' = NoFd, UNCHANGED others
    PROVE  Table'
<1>1. {fd} \ {NoFd} \subseteq Slots
  BY DEF Table, SlotsPartition
<1>2. fds' \subseteq Slots /\ others' \subseteq Slots
  BY <1>1 DEF Table
<1>3. NoFd \notin Slots
  BY ClientAssumption
<1>4. SlotsPartition'
  BY <1>2, <1>3 DEF Table, SlotsPartition
<1>5. QED BY <1>2, <1>4 DEF Table

\* Nothing is taken or given back.
LEMMA TableSame ==
    ASSUME Table, UNCHANGED <<fd, fds, others>>
    PROVE  Table'
BY DEF Table, SlotsPartition

\* async_connect takes a slot, or uses the one it has.
LEMMA ConnectTable ==
    ASSUME Table, NEW c \in Coros, AsyncConnect(c)
    PROVE  Table'
<1>1. PICK s \in IF fd = NoFd THEN fds ELSE {fd} :
         fd' = s /\ fds' = fds \ {s} /\ UNCHANGED others
  BY DEF AsyncConnect, BeginConnect
<1>2. CASE fd = NoFd
  <2>1. s \in fds /\ s \in Slots /\ s # NoFd
    BY <1>1, <1>2, ClientAssumption DEF Table
  <2>2. QED BY <1>1, <1>2, <2>1 DEF Table, SlotsPartition
<1>3. CASE fd # NoFd
  BY <1>1, <1>3 DEF Table, SlotsPartition
<1>4. QED BY <1>2, <1>3

\* The loop processes a completion.
LEMMA ReapTable ==
    ASSUME Table, Reap
    PROVE  Table'
<1>1. CASE ProcessTimer
  BY <1>1, TableSame DEF ProcessTimer, fdVars
<1>2. CASE ProcessSocket
  <2>1. /\ UNCHANGED others
        /\ \/ UNCHANGED <<fd, fds>>
           \/ fds' = fds \cup ({fd} \ {NoFd}) /\ fd' = NoFd
    BY <1>2 DEF ProcessSocket
  <2>2. QED BY <2>1, TableSame, GivenBack
<1>3. CASE ProcessConnect
  BY <1>3, TableSame DEF ProcessConnect
<1>4. CASE ProcessClose
  BY <1>4, GivenBack DEF ProcessClose
<1>5. QED BY <1>1, <1>2, <1>3, <1>4 DEF Reap

\* ~stream_impl, and the other sockets.
LEMMA OthersTable ==
    ASSUME Table, Destruct \/ OtherStep
    PROVE  Table'
<1>1. CASE Destruct
  <2>1. fds' = fds \cup ({fd} \ {NoFd}) /\ fd' = NoFd /\ UNCHANGED others
    BY <1>1 DEF Destruct
  <2>2. QED BY <2>1, GivenBack
<1>2. ASSUME NEW s \in Slots, OtherTakes(s) PROVE Table'
  BY <1>2 DEF OtherTakes, Table, SlotsPartition
<1>3. ASSUME NEW s \in Slots, OtherReturns(s) PROVE Table'
  BY <1>3 DEF OtherReturns, Table, SlotsPartition
<1>4. QED BY <1>1, <1>2, <1>3 DEF OtherStep

\* The other steps.
LEMMA QuietTable ==
    ASSUME Table,
           \/ \E c \in Coros : \/ ConnectAgain(c) \/ ConnectNoSlot(c)
                               \/ ConnectBusy(c) \/ AsyncClose(c) \/ LetGo(c)
                               \/ DestroyCoro(c)
           \/ Resume \/ SubmitAndWait \/ SubmitFull
           \/ KernelTakes \/ KernelWorks \/ SubmitDone
           \/ ReapDone \/ FlushStart \/ Flush \/ FlushDone \/ KernelConnects
           \/ ConnectionLost \/ Abort \/ UNCHANGED vars
    PROVE  Table'
<1>1. ASSUME NEW c \in Coros, \/ ConnectAgain(c) \/ ConnectNoSlot(c)
                              \/ ConnectBusy(c) \/ AsyncClose(c) \/ LetGo(c)
                              \/ DestroyCoro(c)
      PROVE  UNCHANGED <<fd, fds, others>>
  BY <1>1 DEF ConnectAgain, BeginConnect, ConnectNoSlot, ConnectBusy, AsyncClose,
              LetGo, DestroyCoro, fdVars
<1>2. ASSUME \/ Resume \/ SubmitAndWait \/ SubmitFull
             \/ KernelTakes \/ KernelWorks \/ SubmitDone
             \/ ReapDone \/ FlushStart \/ Flush \/ FlushDone \/ KernelConnects
             \/ ConnectionLost \/ Abort \/ UNCHANGED vars
      PROVE  UNCHANGED <<fd, fds, others>>
  BY <1>2 DEF Resume, SubmitAndWait, SubmitFull, KernelTakes, KernelWorks,
     SubmitDone, ReapDone,
              FlushStart, Flush, FlushDone, KernelConnects, ConnectionLost, Abort, vars,
              fdVars
<1>3. QED BY <1>1, <1>2, TableSame

\* SlotsPartition, whatever the users and the kernel do: every slot is free, the
\* client's or another socket's, although it is given back in three places (the
\* completion of a failed socket, that of a close, ~stream_impl).
THEOREM SlotsPartitionHolds == Spec => []SlotsPartition
<1>1. Init => Table
  BY ClientAssumption DEF Init, InitialFds, Table, SlotsPartition
<1>2. Table /\ [Next]_vars => Table'
  BY ConnectTable, ReapTable, OthersTable, QuietTable
  DEF Next, UserStep, LoopStep
<1>3. Table => SlotsPartition
  BY DEF Table
<1>4. QED BY <1>1, <1>2, <1>3, PTL DEF Spec
-----------------------------------------------------------------------------
(* The inductive invariant, when the client is used as intended.           *)

\* run() is being left.
Leaving == back \in {"clear", "abort"}

\* Completions are dropped, no longer processed.
Dropping == pc \in {"flush", "end"}

AllGone == \A c \in Coros : co[c] = "gone"

Ops == {"timer", "socket", "connect", "close"}

\* The frame of the operation waits for its completion.
Waits(op) ==
    \/ op = "timer" /\ tm.initiated
    \/ op = "socket" /\ Active(sf)
    \/ op = "connect" /\ Active(cf)
    \/ op = "close" /\ Active(clf)

\* What the kernel holds of an operation.
Held(op) == \/ op = "timer" /\ armed
            \/ op = "connect" /\ conn # NoConn

\* InFlight and Connecting in terms of the counts the lemmas are about.
Fl(op) == (((OfOp(sq, op) + OfOp(work, op)) + OfOp(cq, op)) + Bit(Held(op)))
          + (IF op = "connect" THEN OfOp(sq, "socket") ELSE 0)

Control ==
    /\ pc \in {"abort", "flush", "end"} => Leaving
    /\ Leaving => pc \in {"submit", "abort", "flush", "end"}
    /\ pc \in {"reap", "abort", "flush", "end"} => sq = <<>>
    /\ pc \in {"user", "reap"} => work = <<>>
    /\ pc \in {"flush", "end"} => AllGone /\ others = {}
    /\ pc = "end" => cq = <<>>

Alive == {"idle", "connecting", "closing"}
Busy  == {"connecting", "closing"}

\* RefCountExact in terms of these counts.
Exact ==
    refs = (Pop(co, Coros, Alive) + Pop(co, Coros, Busy))
           + (((Fl("timer") + Fl("socket")) + Fl("connect")) + Fl("close"))

\* What the frames say.
Frames ==
    /\ (sf.done => sf.initiated) /\ sf.res = Ok
    /\ (cf.done => cf.initiated) /\ (cf.h # None <=> Active(cf))
    /\ (~cf.done => cf.res = Ok) /\ (cf.initiated => cf.n > 0)
    /\ (clf.done => clf.initiated) /\ (clf.h # None <=> Active(clf))
    /\ sf.initiated => cf.initiated /\ sf.n = cf.n
    /\ Active(sf) => Active(cf)
    /\ clf.done => fd = NoFd

\* A frame has one operation in flight or none, as it says.
Flight == ~Dropping => \A op \in Ops : Fl(op) = Bit(Waits(op))

Ready(c) == \/ co[c] = "connecting" /\ cf.done
            \/ co[c] = "closing" /\ clf.done

\* Who waits is in the frame, or its handle has been collected once.
Waiters ==
    /\ \A c, d \in Coros : co[c] = co[d] /\ co[c] \in Busy => c = d
    /\ ~Leaving =>
         /\ cf.h # None => co[cf.h] = "connecting"
         /\ clf.h # None => co[clf.h] = "closing"
         /\ cf.initiated <=> \E c \in Coros : co[c] = "connecting"
         /\ \A c \in Coros : co[c] = "closing" => clf.initiated
         /\ \A c \in Coros : Times(handles, c) = Bit(Ready(c))

\* A connect was started before a close that is in flight with it, and the
\* socket completes before the connect.
Order ==
    /\ Precedes(sq, "timer", "removeTimer")
    /\ Precedes(sq, "socket", "close") /\ Precedes(sq, "connect", "close")
    /\ Precedes(work, "connect", "close")
    /\ Precedes(cq, "socket", "connect")
    /\ OfOp(work, "close") > 0 \/ OfOp(cq, "close") > 0
          => OfOp(sq, "socket") = 0 /\ OfOp(sq, "connect") = 0
    /\ OfOp(cq, "close") > 0 => OfOp(work, "connect") = 0

\* The connect of a client that is connected.
Again == cf.initiated /\ ~sf.initiated

\* Whoever connects is ahead of whoever closes.
InTurn == \A i \in 1..Len(handles) : co[handles[i]] = "closing" =>
             \E j \in 1..Len(handles) : j < i /\ co[handles[j]] = "connecting"

\* Such a connect completes, and its coroutine is resumed, before a close that
\* was started after it.
AgainFirst ==
    /\ Again => Precedes(cq, "connect", "close")
    /\ Again /\ ~Leaving => /\ clf.initiated \/ (fd # NoFd /\ connected)
                            /\ InTurn

\* The operations in flight, wherever they are, are those of the frames and of
\* the slot of the client.
SqPlace(e) ==
    /\ e.op = "socket" => e.slot = fd /\ fd # NoFd /\ e.n = cf.n /\ sf.initiated
    /\ e.op = "connect" => /\ e.slot = fd /\ fd # NoFd /\ e.n = cf.n /\ Again
                           /\ file[fd] = "connected"
    /\ e.op = "close" => e.slot = fd
WorkPlace(e) ==
    /\ e.op \in {"connect", "close"} /\ e.slot = fd
    /\ e.op = "connect" =>
          fd # NoFd /\ e.n = cf.n /\ sf.initiated /\ file[fd] = "fresh"
ConnPlace ==
    conn # NoConn =>
      /\ conn.n = cf.n /\ cf.n > 0 /\ sf.initiated
      /\ \/ conn.slot = NoFd /\ (fd = NoFd \/ clf.initiated)
         \/ conn.slot = fd /\ fd # NoFd /\ file[fd] = "fresh"
CqPlace(e) ==
    /\ e.op = "socket" => e.n = cf.n /\ e.res = Ok
    /\ e.op = "connect" =>
          /\ e.n = cf.n /\ (e.res = "EISCONN" <=> Again)
          /\ e.res = Ok => fd = NoFd \/ clf.initiated \/ file[fd] = "connected"
    /\ e.op = "close" => conn.slot = NoFd /\ (fd = NoFd \/ file[fd] = "empty")

Places ==
    /\ \A i \in 1..Len(sq) : SqPlace(sq[i])
    /\ \A i \in 1..Len(work) : WorkPlace(work[i])
    /\ ConnPlace
    /\ \A i \in 1..Len(cq) : CqPlace(cq[i])

\* What connected_ and the history say of the slot.
Connected ==
    /\ connected /\ fd # NoFd /\ ~clf.initiated /\ ~(Active(cf) /\ sf.initiated)
          => file[fd] = "connected"
    /\ cf.initiated /\ ~closedDuring => ~clf.initiated
    /\ cf.initiated /\ ~closedDuring /\ (\E c \in Coros : co[c] = "connecting")
          => fd # NoFd
    /\ cf.done /\ cf.res = Ok /\ ~closedDuring => connected

\* When nobody has the client any more, the timer is removed, and everything is
\* submitted before run() goes on.
Leave ==
    AllGone =>
      /\ OfOp(sq, "timer") > 0 \/ armed
           => \E i \in 1..Len(sq) : sq[i].op = "removeTimer"
      /\ \/ pc = "submit" /\ back \in {"user", "abort"}
         \/ sq = <<>> /\ work = <<>>

End == pc = "end" /\ conn = NoConn => refs = 0 /\ fd = NoFd

Core  == /\ TypeOK /\ Control /\ Exact /\ Frames /\ Flight /\ Waiters
Flow  == Order /\ AgainFirst /\ Places
Owner == Table /\ FreeSlotsAreClosed /\ Connected
IInv  == Core /\ Flow /\ Owner /\ Leave /\ End

-----------------------------------------------------------------------------
(* Facts used by several actions.                                          *)

\* The queues of the client obey the laws of counting and of order.
LEMMA Laws ==
    /\ OpLaws(Sqe) /\ OpLaws(Cqe) /\ OrderLaws(Sqe) /\ OrderLaws(Cqe)
    /\ TimesLaws(Coros)
    /\ \A f, S : Pop(f, Coros, S) \in Nat
BY OfOpFacts, OrderFacts, TimesFacts, PopNat, ClientAssumption

\* The counts are numbers.
LEMMA Numbers ==
    ASSUME TypeOK
    PROVE  /\ \A op : /\ OfOp(sq, op) \in Nat /\ OfOp(work, op) \in Nat
                      /\ OfOp(cq, op) \in Nat
           /\ \A op : Fl(op) \in Nat
           /\ \A c : Times(handles, c) \in Nat
           /\ \A f, S : Pop(f, Coros, S) \in Nat
<1>1. \A op : /\ OfOp(sq, op) \in Nat /\ OfOp(work, op) \in Nat
              /\ OfOp(cq, op) \in Nat
  BY Laws DEF TypeOK, OpLaws
<1>2. ASSUME NEW op PROVE Fl(op) \in Nat
  <2>1. Bit(Held(op)) \in Nat
    BY DEF Bit
  <2>2. QED BY <1>1, <2>1 DEF Fl
<1>3. QED BY <1>1, <1>2, Laws DEF TypeOK, TimesLaws

\* What is counted for each operation.
LEMMA Sums ==
    /\ Fl("timer") = (((OfOp(sq, "timer") + OfOp(work, "timer"))
                       + OfOp(cq, "timer")) + Bit(armed)) + 0
    /\ Fl("socket") = (((OfOp(sq, "socket") + OfOp(work, "socket"))
                        + OfOp(cq, "socket")) + 0) + 0
    /\ Fl("connect") = (((OfOp(sq, "connect") + OfOp(work, "connect"))
                         + OfOp(cq, "connect")) + Bit(conn # NoConn))
                       + OfOp(sq, "socket")
    /\ Fl("close") = (((OfOp(sq, "close") + OfOp(work, "close"))
                       + OfOp(cq, "close")) + 0) + 0
BY DEF Fl, Held, Bit

\* The types of the records that are queued.
LEMMA SqeFacts ==
    ASSUME NEW op \in {"timer", "removeTimer", "socket", "connect", "cancelSocket",
                       "cancelConnect", "close", "sever"},
           NEW s \in Slots \cup {NoFd}, NEW n \in 0..MaxConnects
    PROVE  /\ Op(op, s, n) \in Sqe /\ Op(op, s, n).op = op
           /\ Op(op, s, n).slot = s /\ Op(op, s, n).n = n
BY DEF Op, Sqe

LEMMA CqeFacts ==
    ASSUME NEW op \in Ops, NEW r \in Errors \cup {Ok}, NEW n \in 0..MaxConnects
    PROVE  /\ Done(op, r, n) \in Cqe /\ Done(op, r, n).op = op
           /\ Done(op, r, n).res = r /\ Done(op, r, n).n = n
BY DEF Ops, Done, Cqe

\* Zero is a number of a connect, -1 a descriptor.
LEMMA Zero ==
    /\ 0 \in 0..MaxConnects /\ NoFd \in Slots \cup {NoFd}
    /\ \A n \in 0..MaxConnects : n < MaxConnects => n + 1 \in 0..MaxConnects
BY ClientAssumption

\* The frame between two operations.
LEMMA ResetFacts ==
    /\ ResetFrame \in Frame /\ ResetFrame.h = None /\ ResetFrame.res = Ok
    /\ ResetFrame.initiated = FALSE /\ ResetFrame.done = FALSE /\ ResetFrame.n = 0
BY Zero DEF ResetFrame, Frame

\* A coroutine that changes its state.
LEMMA OneMoves ==
    ASSUME NEW c \in Coros, \A d \in Coros \ {c} : co'[d] = co[d]
    PROVE  /\ Pop(co', Coros, Alive) + Bit(co[c] \in Alive)
                 = Pop(co, Coros, Alive) + Bit(co'[c] \in Alive)
           /\ Pop(co', Coros, Busy) + Bit(co[c] \in Busy)
                 = Pop(co, Coros, Busy) + Bit(co'[c] \in Busy)
<1>1. IsFiniteSet(Coros)
  BY ClientAssumption
<1>2. ASSUME NEW S
      PROVE  Pop(co', Coros, S) + Bit(co[c] \in S)
                = Pop(co, Coros, S) + Bit(co'[c] \in S)
  BY <1>1, PopChange DEF Bit
<1>3. QED BY <1>2

\* A sum of numbers is zero when all of them are.
LEMMA SumZero ==
    ASSUME NEW a \in Nat, NEW b \in Nat, NEW c \in Nat, NEW d \in Nat, NEW e \in Nat
    PROVE  /\ (((a + b) + c) + d) + e = 0
                 <=> a = 0 /\ b = 0 /\ c = 0 /\ d = 0 /\ e = 0
           /\ (((a + b) + c) + d) + e = 1 =>
                 /\ a > 0 => a = 1 /\ b = 0 /\ c = 0 /\ d = 0 /\ e = 0
                 /\ b > 0 => a = 0 /\ b = 1 /\ c = 0 /\ d = 0 /\ e = 0
                 /\ c > 0 => a = 0 /\ b = 0 /\ c = 1 /\ d = 0 /\ e = 0
                 /\ d > 0 => a = 0 /\ b = 0 /\ c = 0 /\ d = 1 /\ e = 0
                 /\ e > 0 => a = 0 /\ b = 0 /\ c = 0 /\ d = 0 /\ e = 1
OBVIOUS

\* The places where a connect, or the socket it is linked to, can be.
LEMMA ConnectPlaces ==
    ASSUME TypeOK, Fl("connect") \in {0, 1}
    PROVE  /\ Fl("connect") = 0 =>
                /\ OfOp(sq, "connect") = 0 /\ OfOp(work, "connect") = 0
                /\ OfOp(cq, "connect") = 0 /\ conn = NoConn
                /\ OfOp(sq, "socket") = 0
           /\ OfOp(sq, "connect") > 0 =>
                /\ OfOp(sq, "connect") = 1 /\ OfOp(work, "connect") = 0
                /\ OfOp(cq, "connect") = 0 /\ conn = NoConn
                /\ OfOp(sq, "socket") = 0
           /\ OfOp(work, "connect") > 0 =>
                /\ OfOp(work, "connect") = 1 /\ OfOp(sq, "connect") = 0
                /\ OfOp(cq, "connect") = 0 /\ conn = NoConn
                /\ OfOp(sq, "socket") = 0
           /\ OfOp(cq, "connect") > 0 =>
                /\ OfOp(cq, "connect") = 1 /\ OfOp(sq, "connect") = 0
                /\ OfOp(work, "connect") = 0 /\ conn = NoConn
                /\ OfOp(sq, "socket") = 0
           /\ conn # NoConn =>
                /\ OfOp(sq, "connect") = 0 /\ OfOp(work, "connect") = 0
                /\ OfOp(cq, "connect") = 0 /\ OfOp(sq, "socket") = 0
           /\ OfOp(sq, "socket") > 0 =>
                /\ OfOp(sq, "socket") = 1 /\ OfOp(sq, "connect") = 0
                /\ OfOp(work, "connect") = 0 /\ OfOp(cq, "connect") = 0
                /\ conn = NoConn
<1> DEFINE a == OfOp(sq, "connect")
           b == OfOp(work, "connect")
           c == OfOp(cq, "connect")
           d == Bit(conn # NoConn)
           e == OfOp(sq, "socket")
<1>1. a \in Nat /\ b \in Nat /\ c \in Nat /\ e \in Nat
  BY Numbers
<1>2. d \in Nat /\ (d = 0 <=> conn = NoConn) /\ (d > 0 <=> conn # NoConn)
  BY DEF Bit
<1>3. Fl("connect") = (((a + b) + c) + d) + e
  BY Sums
<1> HIDE DEF a, b, c, d, e
<1>4. /\ Fl("connect") = 0 => a = 0 /\ b = 0 /\ c = 0 /\ d = 0 /\ e = 0
      /\ a > 0 => a = 1 /\ b = 0 /\ c = 0 /\ d = 0 /\ e = 0
      /\ b > 0 => a = 0 /\ b = 1 /\ c = 0 /\ d = 0 /\ e = 0
      /\ c > 0 => a = 0 /\ b = 0 /\ c = 1 /\ d = 0 /\ e = 0
      /\ d > 0 => a = 0 /\ b = 0 /\ c = 0 /\ d = 1 /\ e = 0
      /\ e > 0 => a = 0 /\ b = 0 /\ c = 0 /\ d = 0 /\ e = 1
  BY <1>1, <1>2, <1>3
<1>5. QED BY <1>2, <1>4 DEF a, b, c, e

\* Those of the other operations.
LEMMA OtherPlaces ==
    ASSUME TypeOK, NEW op \in {"timer", "socket", "close"}, Fl(op) \in {0, 1}
    PROVE  /\ Fl(op) = 0 => /\ OfOp(sq, op) = 0 /\ OfOp(work, op) = 0
                            /\ OfOp(cq, op) = 0 /\ (op = "timer" => ~armed)
           /\ OfOp(sq, op) > 0 =>
                /\ OfOp(sq, op) = 1 /\ OfOp(work, op) = 0 /\ OfOp(cq, op) = 0
                /\ (op = "timer" => ~armed)
           /\ OfOp(work, op) > 0 =>
                OfOp(work, op) = 1 /\ OfOp(sq, op) = 0 /\ OfOp(cq, op) = 0
           /\ OfOp(cq, op) > 0 =>
                /\ OfOp(cq, op) = 1 /\ OfOp(sq, op) = 0 /\ OfOp(work, op) = 0
                /\ (op = "timer" => ~armed)
           /\ op = "timer" /\ armed =>
                OfOp(sq, op) = 0 /\ OfOp(work, op) = 0 /\ OfOp(cq, op) = 0
<1> DEFINE a == OfOp(sq, op)
           b == OfOp(work, op)
           c == OfOp(cq, op)
           d == Bit(op = "timer" /\ armed)
<1>1. a \in Nat /\ b \in Nat /\ c \in Nat
  BY Numbers
<1>2. d \in Nat /\ (d = 0 <=> ~(op = "timer" /\ armed)) /\ (d > 0 <=> op = "timer" /\ armed)
  BY DEF Bit
<1>3. Fl(op) = (((a + b) + c) + d) + 0
  BY Sums DEF Bit
<1> HIDE DEF a, b, c, d
<1>4. /\ Fl(op) = 0 => a = 0 /\ b = 0 /\ c = 0 /\ d = 0
      /\ a > 0 => a = 1 /\ b = 0 /\ c = 0 /\ d = 0
      /\ b > 0 => a = 0 /\ b = 1 /\ c = 0 /\ d = 0
      /\ c > 0 => a = 0 /\ b = 0 /\ c = 1 /\ d = 0
      /\ d > 0 => a = 0 /\ b = 0 /\ c = 0 /\ d = 1
  BY <1>1, <1>2, <1>3
<1>5. QED BY <1>2, <1>4 DEF a, b, c

\* While completions are processed there is at most one of each operation.
LEMMA AtMostOne ==
    ASSUME Core, ~Dropping
    PROVE  \A op \in Ops : Fl(op) \in {0, 1} /\ (Fl(op) = 1 <=> Waits(op))
BY DEF Core, Flight, Bit

\* What is queued is counted.
LEMMA Queued ==
    ASSUME TypeOK
    PROVE  /\ \A i \in 1..Len(sq) : OfOp(sq, sq[i].op) > 0
           /\ \A i \in 1..Len(work) : OfOp(work, work[i].op) > 0
           /\ \A i \in 1..Len(cq) : OfOp(cq, cq[i].op) > 0
           /\ sq # <<>> => OfOp(sq, Head(sq).op) > 0
           /\ work # <<>> => OfOp(work, Head(work).op) > 0
           /\ cq # <<>> => OfOp(cq, Head(cq).op) > 0
<1>1. ASSUME NEW T, NEW s \in Seq(T), OpLaws(T)
      PROVE  /\ \A i \in 1..Len(s) : OfOp(s, s[i].op) > 0
             /\ s # <<>> => OfOp(s, Head(s).op) > 0
  <2>1. ASSUME NEW i \in 1..Len(s) PROVE OfOp(s, s[i].op) > 0
    <3>1. OfOp(s, s[i].op) \in Nat /\ OfOp(s, s[i].op) # 0
      BY <1>1 DEF OpLaws
    <3>2. QED BY <3>1
  <2>2. s # <<>> => 1 \in 1..Len(s) /\ Head(s) = s[1]
    OBVIOUS
  <2>3. QED BY <2>1, <2>2
<1>2. sq \in Seq(Sqe) /\ work \in Seq(Sqe) /\ cq \in Seq(Cqe)
  BY DEF TypeOK
<1>3. OpLaws(Sqe) /\ OpLaws(Cqe)
  BY Laws
<1>4. /\ \A i \in 1..Len(sq) : OfOp(sq, sq[i].op) > 0
      /\ sq # <<>> => OfOp(sq, Head(sq).op) > 0
  BY <1>1, <1>2, <1>3
<1>5. /\ \A i \in 1..Len(work) : OfOp(work, work[i].op) > 0
      /\ work # <<>> => OfOp(work, Head(work).op) > 0
  BY <1>1, <1>2, <1>3
<1>6. /\ \A i \in 1..Len(cq) : OfOp(cq, cq[i].op) > 0
      /\ cq # <<>> => OfOp(cq, Head(cq).op) > 0
  BY <1>1, <1>2, <1>3
<1>7. QED BY <1>4, <1>5, <1>6

-----------------------------------------------------------------------------
(* The kernel takes, works and completes: frames and coroutines stay.      *)

\* What a step of the kernel leaves alone.
KernelQuiet == UNCHANGED <<sf, cf, clf, tm, refs, fd, connected, fds, others, co,
                           handles, pc, back, connects, closedDuring>>

\* What a step of the kernel has to keep.
LEMMA KernelRest ==
    ASSUME IInv, KernelQuiet, pc # "end",
           sq' \in Seq(Sqe), work' \in Seq(Sqe), cq' \in Seq(Cqe),
           file' \in [Slots -> {"empty", "fresh", "connected", "other"}],
           conn' \in [n : 0..MaxConnects, slot : Slots \cup {NoFd}],
           armed' \in BOOLEAN,
           \A op \in Ops : Fl(op)' = Fl(op),
           sq = <<>> => sq' = <<>>, work = <<>> /\ pc # "submit" => work' = <<>>,
           Order', Again => Precedes(cq', "connect", "close"), Places',
           FreeSlotsAreClosed', Leave',
           connected /\ fd # NoFd /\ ~clf.initiated /\ ~(Active(cf) /\ sf.initiated)
              => file'[fd] = "connected"
    PROVE  IInv'
<1>1. UNCHANGED <<sf, cf, clf, tm, refs, fd, connected, fds, others, co,
                  handles, pc, back, connects, closedDuring>>
  BY DEF KernelQuiet
<1>2. TypeOK'
  BY <1>1 DEF IInv, Core, TypeOK
<1>3. Control'
  BY <1>1 DEF IInv, Core, Control, Leaving, AllGone
<1>4. Exact'
  BY <1>1 DEF IInv, Core, Exact, Ops
<1>5. Frames'
  BY <1>1 DEF IInv, Core, Frames, Active
<1>6. Flight'
  <2>1. \A op : Waits(op)' <=> Waits(op)
    BY <1>1 DEF Waits, Active
  <2>2. QED BY <1>1, <2>1 DEF IInv, Core, Flight, Dropping, Bit
<1>7. Waiters'
  BY <1>1 DEF IInv, Core, Waiters, Ready, Leaving
<1>8. AgainFirst'
  <2>1. (Again' <=> Again) /\ (InTurn' <=> InTurn)
    BY <1>1 DEF Again, InTurn
  <2>2. QED BY <1>1, <2>1 DEF IInv, Flow, AgainFirst, Leaving
<1>9. Table'
  BY <1>1, TableSame DEF IInv, Owner
<1>10. Connected'
  <2>1. (Active(cf)' <=> Active(cf))
    BY <1>1 DEF Active
  <2>2. QED BY <1>1, <2>1 DEF IInv, Owner, Connected
<1>11. End'
  BY <1>1 DEF End
<1>12. QED BY <1>2, <1>3, <1>4, <1>5, <1>6, <1>7, <1>8, <1>9, <1>10, <1>11
       DEF IInv, Core, Flow, Owner

\* The first of the submission queue is taken.
LEMMA TakeFacts ==
    ASSUME IInv, pc = "submit", sq # <<>>, sq' = Tail(sq)
    PROVE  /\ Head(sq) \in Sqe /\ sq' \in Seq(Sqe) /\ SqPlace(Head(sq))
           /\ OfOp(sq, Head(sq).op) = OfOp(sq', Head(sq).op) + 1
           /\ \A op : op # Head(sq).op => OfOp(sq', op) = OfOp(sq, op)
           /\ \A op : OfOp(sq', op) \in Nat
           /\ \A i \in 1..Len(sq') : i + 1 \in 1..Len(sq) /\ sq'[i] = sq[i + 1]
           /\ \A a, b : Precedes(sq, a, b) => Precedes(sq', a, b)
           /\ \A a, b : Precedes(sq, a, b) /\ Head(sq).op = b => OfOp(sq, a) = 0
           /\ OfOp(sq, Head(sq).op) > 0
           /\ ~Dropping /\ TypeOK /\ Core
           /\ AllGone => back \in {"user", "abort"}
<1>1. TypeOK /\ Core /\ sq \in Seq(Sqe)
  BY DEF IInv, Core, TypeOK
<1>2. /\ sq' \in Seq(Sqe) /\ Head(sq) \in Sqe /\ 1 \in 1..Len(sq) /\ Head(sq) = sq[1]
      /\ \A i \in 1..Len(sq') : i + 1 \in 1..Len(sq) /\ sq'[i] = sq[i + 1]
  BY <1>1, TailEntries
<1>3. SqPlace(Head(sq))
  BY <1>2 DEF IInv, Flow, Places
<1>4. \A op : OfOp(sq', op) \in Nat
  BY <1>2, Laws DEF OpLaws
<1>5. /\ OfOp(sq, Head(sq).op) = OfOp(sq', Head(sq).op) + 1
      /\ \A op : op # Head(sq).op => OfOp(sq', op) = OfOp(sq, op)
  <2>1. \A op : OfOp(sq, op) = OfOp(sq', op) + Bit(Head(sq).op = op)
    BY <1>1, Laws DEF OpLaws
  <2>2. QED BY <1>4, <2>1 DEF Bit
<1>6. /\ \A a, b : Precedes(sq, a, b) => Precedes(sq', a, b)
      /\ \A a, b : Precedes(sq, a, b) /\ Head(sq).op = b => OfOp(sq, a) = 0
  BY <1>1, Laws DEF OrderLaws
<1>7. OfOp(sq, Head(sq).op) > 0
  BY <1>1, Queued
<1>8. AllGone => back \in {"user", "abort"}
  BY DEF IInv, Leave
<1>9. ~Dropping
  BY DEF Dropping
<1>10. QED BY <1>1, <1>2, <1>3, <1>4, <1>5, <1>6, <1>7, <1>8, <1>9

\* A completion is posted.
LEMMA PostFacts ==
    ASSUME TypeOK, NEW e \in Cqe, cq' = Append(cq, e)
    PROVE  /\ cq' \in Seq(Cqe)
           /\ OfOp(cq', e.op) = OfOp(cq, e.op) + 1
           /\ \A op : op # e.op => OfOp(cq', op) = OfOp(cq, op)
           /\ \A i \in 1..Len(cq') :
                 (i \in 1..Len(cq) /\ cq'[i] = cq[i]) \/ cq'[i] = e
           /\ \A a, b : a # b /\ Precedes(cq, a, b) /\ (e.op = a => OfOp(cq, b) = 0)
                 => Precedes(cq', a, b)
<1>1. cq \in Seq(Cqe)
  BY DEF TypeOK
<1>2. /\ cq' \in Seq(Cqe)
      /\ \A i \in 1..Len(cq') :
            (i \in 1..Len(cq) /\ cq'[i] = cq[i]) \/ cq'[i] = e
  BY <1>1, Entries
<1>3. /\ OfOp(cq', e.op) = OfOp(cq, e.op) + 1
      /\ \A op : op # e.op => OfOp(cq', op) = OfOp(cq, op)
  <2>1. \A op : OfOp(cq', op) = OfOp(cq, op) + Bit(e.op = op) /\ OfOp(cq, op) \in Nat
    BY <1>1, Laws DEF OpLaws
  <2>2. QED BY <2>1 DEF Bit
<1>4. \A a, b : a # b /\ Precedes(cq, a, b) /\ (e.op = a => OfOp(cq, b) = 0)
                 => Precedes(cq', a, b)
  BY <1>1, Laws DEF OrderLaws
<1>5. QED BY <1>2, <1>3, <1>4

\* A linked operation waits for its turn.
LEMMA LinkFacts ==
    ASSUME TypeOK, NEW e \in Sqe, work' = Append(work, e)
    PROVE  /\ work' \in Seq(Sqe)
           /\ OfOp(work', e.op) = OfOp(work, e.op) + 1
           /\ \A op : op # e.op => OfOp(work', op) = OfOp(work, op)
           /\ \A i \in 1..Len(work') :
                 (i \in 1..Len(work) /\ work'[i] = work[i]) \/ work'[i] = e
           /\ \A a, b : a # b /\ Precedes(work, a, b)
                         /\ (e.op = a => OfOp(work, b) = 0)
                 => Precedes(work', a, b)
<1>1. work \in Seq(Sqe)
  BY DEF TypeOK
<1>2. /\ work' \in Seq(Sqe)
      /\ \A i \in 1..Len(work') :
            (i \in 1..Len(work) /\ work'[i] = work[i]) \/ work'[i] = e
  BY <1>1, Entries
<1>3. /\ OfOp(work', e.op) = OfOp(work, e.op) + 1
      /\ \A op : op # e.op => OfOp(work', op) = OfOp(work, op)
  <2>1. \A op : OfOp(work', op) = OfOp(work, op) + Bit(e.op = op) /\ OfOp(work, op) \in Nat
    BY <1>1, Laws DEF OpLaws
  <2>2. QED BY <2>1 DEF Bit
<1>4. \A a, b : a # b /\ Precedes(work, a, b) /\ (e.op = a => OfOp(work, b) = 0)
                 => Precedes(work', a, b)
  BY <1>1, Laws DEF OrderLaws
<1>5. QED BY <1>2, <1>3, <1>4

\* The sums of the operations, term by term.
LEMMA SameSums ==
    ASSUME (((OfOp(sq', "timer") + OfOp(work', "timer")) + OfOp(cq', "timer"))
              + Bit(armed')) + 0
             = (((OfOp(sq, "timer") + OfOp(work, "timer")) + OfOp(cq, "timer"))
                + Bit(armed)) + 0,
           (((OfOp(sq', "socket") + OfOp(work', "socket")) + OfOp(cq', "socket"))
              + 0) + 0
             = (((OfOp(sq, "socket") + OfOp(work, "socket")) + OfOp(cq, "socket"))
                + 0) + 0,
           (((OfOp(sq', "connect") + OfOp(work', "connect")) + OfOp(cq', "connect"))
              + Bit(conn' # NoConn)) + OfOp(sq', "socket")
             = (((OfOp(sq, "connect") + OfOp(work, "connect"))
                + OfOp(cq, "connect")) + Bit(conn # NoConn)) + OfOp(sq, "socket"),
           (((OfOp(sq', "close") + OfOp(work', "close")) + OfOp(cq', "close"))
              + 0) + 0
             = (((OfOp(sq, "close") + OfOp(work, "close")) + OfOp(cq, "close"))
                + 0) + 0
    PROVE  \A op \in Ops : Fl(op)' = Fl(op)
<1>1. /\ Fl("timer")' = Fl("timer") /\ Fl("socket")' = Fl("socket")
      /\ Fl("connect")' = Fl("connect") /\ Fl("close")' = Fl("close")
  BY DEF Fl, Held, Bit
<1>2. QED BY <1>1 DEF Ops

\* A connect in flight completes.
LEMMA ConnectSum ==
    ASSUME TypeOK, OfOp(sq', "connect") = OfOp(sq, "connect"),
           OfOp(sq', "socket") = OfOp(sq, "socket"),
           OfOp(work', "connect") = OfOp(work, "connect"),
           OfOp(cq', "connect") \in Nat,
           OfOp(cq', "connect") + Bit(conn' # NoConn)
              = OfOp(cq, "connect") + Bit(conn # NoConn)
    PROVE  (((OfOp(sq', "connect") + OfOp(work', "connect")) + OfOp(cq', "connect"))
              + Bit(conn' # NoConn)) + OfOp(sq', "socket")
             = (((OfOp(sq, "connect") + OfOp(work, "connect"))
                + OfOp(cq, "connect")) + Bit(conn # NoConn)) + OfOp(sq, "socket")
<1> DEFINE a == OfOp(sq, "connect")
           b == OfOp(work, "connect")
           c == OfOp(cq, "connect")
           d == Bit(conn # NoConn)
           e == OfOp(sq, "socket")
           x == OfOp(cq', "connect")
           y == Bit(conn' # NoConn)
<1>1. a \in Nat /\ b \in Nat /\ c \in Nat /\ e \in Nat
  BY Numbers
<1>2. d \in Nat /\ y \in Nat
  BY DEF Bit
<1>3. x \in Nat /\ x + y = c + d
  OBVIOUS
<1> HIDE DEF a, b, c, d, e, x, y
<1>4. (((a + b) + x) + y) + e = (((a + b) + c) + d) + e
  BY <1>1, <1>2, <1>3
<1>5. QED BY <1>4 DEF a, b, c, d, e, x, y

\* What is not counted is not queued.
LEMMA Absent ==
    ASSUME TypeOK, NEW op
    PROVE  /\ OfOp(sq, op) = 0 => \A i \in 1..Len(sq) : sq[i].op # op
           /\ OfOp(work, op) = 0 => \A i \in 1..Len(work) : work[i].op # op
           /\ OfOp(cq, op) = 0 => \A i \in 1..Len(cq) : cq[i].op # op
BY Laws DEF TypeOK, OpLaws

\* The timer is armed.
LEMMA TakeTimer ==
    ASSUME IInv, KernelQuiet, pc = "submit", sq # <<>>, sq' = Tail(sq),
           Head(sq).op = "timer", armed' = TRUE, UNCHANGED <<work, file, conn, cq>>
    PROVE  IInv'
<1>1. /\ sq' \in Seq(Sqe)
      /\ OfOp(sq, Head(sq).op) = OfOp(sq', Head(sq).op) + 1
      /\ \A op : op # Head(sq).op => OfOp(sq', op) = OfOp(sq, op)
      /\ \A op : OfOp(sq', op) \in Nat
      /\ \A i \in 1..Len(sq') : i + 1 \in 1..Len(sq) /\ sq'[i] = sq[i + 1]
      /\ \A a, b : Precedes(sq, a, b) => Precedes(sq', a, b)
      /\ OfOp(sq, "timer") > 0
      /\ ~Dropping /\ TypeOK /\ Core
      /\ AllGone => back \in {"user", "abort"}
  BY TakeFacts
<1>2. /\ \A op : OfOp(sq, op) \in Nat /\ OfOp(work, op) \in Nat /\ OfOp(cq, op) \in Nat
  BY <1>1, Numbers
<1>3. ~armed
  <2>1. Fl("timer") \in {0, 1}
    BY <1>1, AtMostOne DEF Ops
  <2>2. QED BY <1>1, <2>1, OtherPlaces
<1>4. /\ OfOp(sq, "timer") = OfOp(sq', "timer") + 1
      /\ \A op : op # "timer" => OfOp(sq', op) = OfOp(sq, op)
  BY <1>1, <1>2 DEF Bit
<1>5. \A op \in Ops : Fl(op)' = Fl(op)
  <2>1. Bit(armed) = 0 /\ Bit(armed') = 1
    BY <1>3 DEF Bit
  <2>2. (((OfOp(sq', "timer") + OfOp(work', "timer")) + OfOp(cq', "timer"))
              + Bit(armed')) + 0
             = (((OfOp(sq, "timer") + OfOp(work, "timer")) + OfOp(cq, "timer"))
                + Bit(armed)) + 0
    BY <1>1, <1>2, <1>4, <2>1
  <2>3. QED BY <1>4, <2>2, SameSums
<1>6. Order'
  BY <1>1, <1>4 DEF IInv, Flow, Order
<1>7. Places'
  <2>1. /\ \A e : SqPlace(e)' <=> SqPlace(e)
        /\ \A e : WorkPlace(e)' <=> WorkPlace(e)
        /\ \A e : CqPlace(e)' <=> CqPlace(e)
        /\ ConnPlace' <=> ConnPlace
    BY DEF KernelQuiet, SqPlace, WorkPlace, CqPlace, ConnPlace, Again
  <2>2. QED BY <1>1, <2>1 DEF IInv, Flow, Places
<1>8. Leave'
  <2>1. SUFFICES ASSUME AllGone
                 PROVE  \E i \in 1..Len(sq') : sq'[i].op = "removeTimer"
    BY <1>1 DEF Leave, KernelQuiet, AllGone
  <2>2. PICK i \in 1..Len(sq) : sq[i].op = "removeTimer"
    BY <1>1, <2>1 DEF IInv, Leave
  <2>3. sq \in Seq(Sqe) /\ sq[1] = Head(sq)
    BY <1>1 DEF TypeOK
  <2>4. i # 1
    BY <2>2, <2>3
  <2>5. i - 1 \in 1..Len(sq') /\ sq'[i - 1] = sq[i]
    BY <2>3, <2>4
  <2>6. QED BY <2>2, <2>5
<1>9. /\ work' \in Seq(Sqe) /\ cq' \in Seq(Cqe)
      /\ file' \in [Slots -> {"empty", "fresh", "connected", "other"}]
      /\ conn' \in [n : 0..MaxConnects, slot : Slots \cup {NoFd}]
  BY <1>1 DEF TypeOK
<1>10. FreeSlotsAreClosed'
  BY DEF IInv, Owner, FreeSlotsAreClosed, KernelQuiet
<1>11. /\ Again => Precedes(cq', "connect", "close")
       /\ connected /\ fd # NoFd /\ ~clf.initiated /\ ~(Active(cf) /\ sf.initiated)
              => file'[fd] = "connected"
  BY DEF IInv, Flow, Owner, AgainFirst, Connected
<1>12. QED BY <1>1, <1>5, <1>6, <1>7, <1>8, <1>9, <1>10, <1>11, KernelRest

\* The timer is removed, for which its completion is posted.
LEMMA TakeRemove ==
    ASSUME IInv, KernelQuiet, pc = "submit", sq # <<>>, sq' = Tail(sq),
           Head(sq).op = "removeTimer", armed' = FALSE,
           cq' = IF armed THEN Append(cq, Done("timer", "ECANCELED", 0)) ELSE cq,
           UNCHANGED <<work, file, conn>>
    PROVE  IInv'
<1> DEFINE e == Done("timer", "ECANCELED", 0)
<1>1. /\ sq' \in Seq(Sqe)
      /\ OfOp(sq, Head(sq).op) = OfOp(sq', Head(sq).op) + 1
      /\ \A op : op # Head(sq).op => OfOp(sq', op) = OfOp(sq, op)
      /\ \A op : OfOp(sq', op) \in Nat
      /\ \A i \in 1..Len(sq') : i + 1 \in 1..Len(sq) /\ sq'[i] = sq[i + 1]
      /\ \A a, b : Precedes(sq, a, b) => Precedes(sq', a, b)
      /\ \A a, b : Precedes(sq, a, b) /\ Head(sq).op = b => OfOp(sq, a) = 0
      /\ ~Dropping /\ TypeOK /\ Core
      /\ AllGone => back \in {"user", "abort"}
  BY TakeFacts
<1>2. /\ \A op : OfOp(sq, op) \in Nat /\ OfOp(work, op) \in Nat /\ OfOp(cq, op) \in Nat
  BY <1>1, Numbers
<1>3. e \in Cqe /\ e.op = "timer"
  BY Zero, CqeFacts DEF Ops, Errors
<1> HIDE DEF e
<1>4. \A op \in Ops : OfOp(sq', op) = OfOp(sq, op)
  BY <1>1, <1>2 DEF Bit, Ops
<1>5. /\ cq' \in Seq(Cqe)
      /\ OfOp(cq', "timer") = OfOp(cq, "timer") + Bit(armed)
      /\ \A op : op # "timer" => OfOp(cq', op) = OfOp(cq, op)
      /\ \A i \in 1..Len(cq') :
            (i \in 1..Len(cq) /\ cq'[i] = cq[i]) \/ cq'[i] = e
      /\ \A a, b : a # b /\ a # "timer" /\ Precedes(cq, a, b) => Precedes(cq', a, b)
  <2>1. CASE armed
    <3>1. cq' = Append(cq, e)
      BY <2>1 DEF e
    <3>2. QED BY <1>1, <1>2, <1>3, <2>1, <3>1, PostFacts DEF Bit
  <2>2. CASE ~armed
    BY <1>1, <1>2, <2>2 DEF TypeOK, Bit
  <2>3. QED BY <2>1, <2>2
<1>6. \A op \in Ops : Fl(op)' = Fl(op)
  <2>1. Bit(armed) \in Nat /\ Bit(armed') = 0
    BY DEF Bit
  <2>2. (((OfOp(sq', "timer") + OfOp(work', "timer")) + OfOp(cq', "timer"))
              + Bit(armed')) + 0
             = (((OfOp(sq, "timer") + OfOp(work, "timer")) + OfOp(cq, "timer"))
                + Bit(armed)) + 0
    BY <1>2, <1>4, <1>5, <2>1 DEF Ops
  <2>3. QED BY <1>4, <1>5, <2>2, SameSums DEF Ops
<1>7. Order'
  BY <1>1, <1>4, <1>5 DEF IInv, Flow, Order, Ops
<1>8. Places'
  <2>1. /\ \A x : SqPlace(x)' <=> SqPlace(x)
        /\ \A x : WorkPlace(x)' <=> WorkPlace(x)
        /\ \A x : CqPlace(x)' <=> CqPlace(x)
        /\ ConnPlace' <=> ConnPlace
    BY DEF KernelQuiet, SqPlace, WorkPlace, CqPlace, ConnPlace, Again
  <2>2. CqPlace(e)
    BY <1>3 DEF CqPlace
  <2>3. QED BY <1>1, <1>5, <2>1, <2>2 DEF IInv, Flow, Places
<1>9. Leave'
  <2>1. OfOp(sq, "timer") = 0
    BY <1>1 DEF IInv, Flow, Order
  <2>2. OfOp(sq', "timer") = 0
    BY <1>4, <2>1 DEF Ops
  <2>3. QED BY <1>1, <2>2 DEF Leave, KernelQuiet, AllGone
<1>10. /\ work' \in Seq(Sqe) /\ armed' \in BOOLEAN
       /\ file' \in [Slots -> {"empty", "fresh", "connected", "other"}]
       /\ conn' \in [n : 0..MaxConnects, slot : Slots \cup {NoFd}]
  BY <1>1 DEF TypeOK
<1>11. FreeSlotsAreClosed'
  BY DEF IInv, Owner, FreeSlotsAreClosed, KernelQuiet
<1>12. Again => Precedes(cq', "connect", "close")
  BY <1>5 DEF IInv, Flow, AgainFirst
<1>13. connected /\ fd # NoFd /\ ~clf.initiated /\ ~(Active(cf) /\ sf.initiated)
              => file'[fd] = "connected"
  BY DEF IInv, Owner, Connected
<1>14. QED BY <1>1, <1>5, <1>6, <1>7, <1>8, <1>9, <1>10, <1>11, <1>12, <1>13,
          KernelRest

\* The socket is created, and the connect comes with the task work.
LEMMA TakeSocket ==
    ASSUME IInv, KernelQuiet, pc = "submit", sq # <<>>, sq' = Tail(sq),
           NEW o, o = Head(sq), o.op = "socket",
           file' = [file EXCEPT ![o.slot] = "fresh"],
           cq' = Append(cq, Done("socket", Ok, o.n)),
           work' = Append(work, [o EXCEPT !.op = "connect"]),
           UNCHANGED <<conn, armed>>
    PROVE  IInv'
<1> DEFINE e == Done("socket", Ok, o.n)
           l == [o EXCEPT !.op = "connect"]
<1>1. /\ sq' \in Seq(Sqe) /\ o \in Sqe /\ SqPlace(o)
      /\ OfOp(sq, o.op) = OfOp(sq', o.op) + 1
      /\ \A op : op # o.op => OfOp(sq', op) = OfOp(sq, op)
      /\ \A op : OfOp(sq', op) \in Nat
      /\ \A i \in 1..Len(sq') : i + 1 \in 1..Len(sq) /\ sq'[i] = sq[i + 1]
      /\ \A a, b : Precedes(sq, a, b) => Precedes(sq', a, b)
      /\ OfOp(sq, "socket") > 0
      /\ ~Dropping /\ TypeOK /\ Core
      /\ AllGone => back \in {"user", "abort"}
  BY TakeFacts
<1>2. /\ \A op : OfOp(sq, op) \in Nat /\ OfOp(work, op) \in Nat /\ OfOp(cq, op) \in Nat
  BY <1>1, Numbers
<1>3. /\ e \in Cqe /\ e.op = "socket" /\ e.n = o.n /\ e.res = Ok
      /\ l \in Sqe /\ l.op = "connect" /\ l.n = o.n /\ l.slot = o.slot
  <2>1. o.n \in 0..MaxConnects
    BY <1>1 DEF Sqe
  <2>2. e \in Cqe /\ e.op = "socket" /\ e.n = o.n /\ e.res = Ok
    BY <2>1 DEF Done, Cqe
  <2>3. l \in Sqe /\ l.op = "connect" /\ l.n = o.n /\ l.slot = o.slot
    BY <1>1 DEF Sqe
  <2>4. QED BY <2>2, <2>3
<1>4. o.slot = fd /\ fd # NoFd /\ o.n = cf.n /\ sf.initiated /\ fd \in Slots
  BY <1>1 DEF SqPlace, TypeOK
<1>5. cq' = Append(cq, e) /\ work' = Append(work, l)
  OBVIOUS
<1> HIDE DEF e, l
<1>6. /\ cq' \in Seq(Cqe)
      /\ OfOp(cq', e.op) = OfOp(cq, e.op) + 1
      /\ \A op : op # e.op => OfOp(cq', op) = OfOp(cq, op)
      /\ \A i \in 1..Len(cq') :
            (i \in 1..Len(cq) /\ cq'[i] = cq[i]) \/ cq'[i] = e
      /\ \A a, b : a # b /\ Precedes(cq, a, b) /\ (e.op = a => OfOp(cq, b) = 0)
                 => Precedes(cq', a, b)
  BY <1>1, <1>3, <1>5, PostFacts
<1>7. /\ work' \in Seq(Sqe)
      /\ OfOp(work', l.op) = OfOp(work, l.op) + 1
      /\ \A op : op # l.op => OfOp(work', op) = OfOp(work, op)
      /\ \A i \in 1..Len(work') :
            (i \in 1..Len(work) /\ work'[i] = work[i]) \/ work'[i] = l
      /\ \A a, b : a # b /\ Precedes(work, a, b) /\ (l.op = a => OfOp(work, b) = 0)
                 => Precedes(work', a, b)
  BY <1>1, <1>3, <1>5, LinkFacts
<1>8. /\ OfOp(sq, "connect") = 0 /\ OfOp(work, "connect") = 0
      /\ OfOp(cq, "connect") = 0 /\ conn = NoConn /\ Active(cf)
  <2>1. Fl("connect") \in {0, 1} /\ (Fl("connect") = 1 <=> Waits("connect"))
    BY <1>1, AtMostOne DEF Ops
  <2>2. /\ OfOp(sq, "connect") = 0 /\ OfOp(work, "connect") = 0
        /\ OfOp(cq, "connect") = 0 /\ conn = NoConn /\ OfOp(sq, "socket") = 1
    BY <1>1, <2>1, ConnectPlaces
  <2>3. Waits("connect")
    BY <1>1, <2>1, <2>2, ConnectPlaces
  <2>4. QED BY <2>2, <2>3 DEF Waits
<1>9. OfOp(work, "close") = 0 /\ OfOp(cq, "close") = 0
  BY <1>1, <1>2 DEF IInv, Flow, Order
<1>10. /\ OfOp(sq, "socket") = OfOp(sq', "socket") + 1
       /\ \A op : op # "socket" => OfOp(sq', op) = OfOp(sq, op)
       /\ OfOp(cq', "socket") = OfOp(cq, "socket") + 1
       /\ \A op : op # "socket" => OfOp(cq', op) = OfOp(cq, op)
       /\ OfOp(work', "connect") = OfOp(work, "connect") + 1
       /\ \A op : op # "connect" => OfOp(work', op) = OfOp(work, op)
  BY <1>1, <1>3, <1>6, <1>7
<1>11. \A op \in Ops : Fl(op)' = Fl(op)
  <2>1. Bit(conn # NoConn) \in Nat /\ Bit(conn' # NoConn) = Bit(conn # NoConn)
    BY DEF Bit
  <2>2. (((OfOp(sq', "socket") + OfOp(work', "socket")) + OfOp(cq', "socket"))
              + 0) + 0
             = (((OfOp(sq, "socket") + OfOp(work, "socket")) + OfOp(cq, "socket"))
                + 0) + 0
    <3>1. /\ OfOp(sq, "socket") = OfOp(sq', "socket") + 1
          /\ OfOp(cq', "socket") = OfOp(cq, "socket") + 1
          /\ OfOp(work', "socket") = OfOp(work, "socket")
          /\ OfOp(sq', "socket") \in Nat /\ OfOp(cq, "socket") \in Nat
          /\ OfOp(work, "socket") \in Nat
      BY <1>1, <1>2, <1>10
    <3>2. QED BY <3>1
  <2>3. (((OfOp(sq', "connect") + OfOp(work', "connect")) + OfOp(cq', "connect"))
              + Bit(conn' # NoConn)) + OfOp(sq', "socket")
             = (((OfOp(sq, "connect") + OfOp(work, "connect"))
                + OfOp(cq, "connect")) + Bit(conn # NoConn)) + OfOp(sq, "socket")
    <3>1. /\ OfOp(sq, "socket") = OfOp(sq', "socket") + 1
          /\ OfOp(sq', "connect") = OfOp(sq, "connect")
          /\ OfOp(cq', "connect") = OfOp(cq, "connect")
          /\ OfOp(work', "connect") = OfOp(work, "connect") + 1
          /\ OfOp(sq', "socket") \in Nat /\ OfOp(cq, "connect") \in Nat
          /\ OfOp(work, "connect") \in Nat /\ OfOp(sq, "connect") \in Nat
      BY <1>1, <1>2, <1>10
    <3>2. QED BY <2>1, <3>1
  <2>4. QED BY <1>10, <2>2, <2>3, SameSums
<1>12. Order'
  <2>1. Precedes(cq', "socket", "connect")
    BY <1>3, <1>6, <1>8 DEF IInv, Flow, Order
  <2>2. Precedes(work', "connect", "close")
    BY <1>3, <1>7, <1>9 DEF IInv, Flow, Order
  <2>3. OfOp(work', "close") = 0 /\ OfOp(cq', "close") = 0
    BY <1>9, <1>10
  <2>4. QED BY <1>1, <2>1, <2>2, <2>3 DEF IInv, Flow, Order
<1>13. /\ \A i \in 1..Len(sq) : sq[i].op # "connect"
       /\ \A i \in 1..Len(work) : work[i].op # "connect" /\ work[i].op # "close"
       /\ \A i \in 1..Len(cq) : cq[i].op # "connect" /\ cq[i].op # "close"
  BY <1>1, <1>8, <1>9, Absent
<1>14. file'[fd] = "fresh" /\ \A s \in Slots : s # fd => file'[s] = file[s]
  BY <1>1, <1>4 DEF TypeOK
<1>15. UNCHANGED <<sf, cf, clf, fd, conn>>
  BY DEF KernelQuiet
<1>16. Places'
  <2>1. (\A i \in 1..Len(sq) : SqPlace(sq[i]))'
    BY <1>1, <1>13, <1>15 DEF IInv, Flow, Places, SqPlace
  <2>2. (\A i \in 1..Len(work) : WorkPlace(work[i]))'
    <3>1. \A i \in 1..Len(work') : work'[i] = l
      BY <1>7, <1>13 DEF IInv, Flow, Places, WorkPlace
    <3>2. WorkPlace(l)'
      BY <1>3, <1>4, <1>14, <1>15 DEF WorkPlace
    <3>3. QED BY <3>1, <3>2
  <2>3. (\A i \in 1..Len(cq) : CqPlace(cq[i]))'
    <3>1. CqPlace(e)'
      BY <1>3, <1>4, <1>15 DEF CqPlace
    <3>2. \A x : x.op # "connect" /\ x.op # "close" /\ CqPlace(x) => CqPlace(x)'
      BY <1>15 DEF CqPlace
    <3>3. QED BY <1>6, <1>13, <3>1, <3>2 DEF IInv, Flow, Places
  <2>4. ConnPlace'
    BY <1>8, <1>15 DEF ConnPlace
  <2>5. QED BY <2>1, <2>2, <2>3, <2>4 DEF Places
<1>17. Leave'
  <2>1. SUFFICES ASSUME AllGone, OfOp(sq, "timer") > 0 \/ armed
                 PROVE  \E i \in 1..Len(sq') : sq'[i].op = "removeTimer"
    BY <1>1, <1>10 DEF Leave, KernelQuiet, AllGone
  <2>2. PICK i \in 1..Len(sq) : sq[i].op = "removeTimer"
    BY <1>1, <2>1 DEF IInv, Leave
  <2>3. sq \in Seq(Sqe) /\ sq[1] = Head(sq)
    BY <1>1 DEF TypeOK
  <2>4. i # 1
    BY <2>2, <2>3
  <2>5. i - 1 \in 1..Len(sq') /\ sq'[i - 1] = sq[i]
    BY <2>3, <2>4
  <2>6. QED BY <2>2, <2>5
<1>18. /\ conn' \in [n : 0..MaxConnects, slot : Slots \cup {NoFd}]
       /\ file' \in [Slots -> {"empty", "fresh", "connected", "other"}]
       /\ armed' \in BOOLEAN
  BY <1>1 DEF TypeOK
<1>19. FreeSlotsAreClosed'
  BY <1>4, <1>14 DEF IInv, Owner, Table, SlotsPartition, FreeSlotsAreClosed,
                     KernelQuiet
<1>20. ~Again
  BY <1>4 DEF Again
<1>21. QED BY <1>1, <1>4, <1>6, <1>7, <1>8, <1>11, <1>12, <1>16, <1>17, <1>18,
          <1>19, <1>20, KernelRest

\* Nothing of the timer is taken.
LEMMA LeaveTake ==
    ASSUME IInv, KernelQuiet, pc = "submit", sq # <<>>, sq' = Tail(sq),
           Head(sq).op \notin {"timer", "removeTimer"}, armed' = armed
    PROVE  Leave'
<1>1. /\ OfOp(sq', "timer") = OfOp(sq, "timer") /\ TypeOK
      /\ AllGone => back \in {"user", "abort"}
  BY TakeFacts
<1>2. SUFFICES ASSUME AllGone, OfOp(sq, "timer") > 0 \/ armed
               PROVE  \E i \in 1..Len(sq') : sq'[i].op = "removeTimer"
  BY <1>1 DEF Leave, KernelQuiet, AllGone
<1>3. PICK i \in 1..Len(sq) : sq[i].op = "removeTimer"
  BY <1>1, <1>2 DEF IInv, Leave
<1>4. sq \in Seq(Sqe) /\ sq[1] = Head(sq)
  BY <1>1 DEF TypeOK
<1>5. i # 1
  BY <1>3, <1>4
<1>6. i - 1 \in 1..Len(sq') /\ sq'[i - 1] = sq[i]
  BY <1>4, <1>5
<1>7. QED BY <1>3, <1>6

\* A connect of a connected client fails at once.
LEMMA TakeConnect ==
    ASSUME IInv, KernelQuiet, pc = "submit", sq # <<>>, sq' = Tail(sq),
           NEW o, o = Head(sq), o.op = "connect", StartConnect(o),
           UNCHANGED <<work, file, armed>>
    PROVE  IInv'
<1> DEFINE e == Done("connect", "EISCONN", o.n)
<1>1. /\ sq' \in Seq(Sqe) /\ o \in Sqe /\ SqPlace(o)
      /\ OfOp(sq, o.op) = OfOp(sq', o.op) + 1
      /\ \A op : op # o.op => OfOp(sq', op) = OfOp(sq, op)
      /\ \A op : OfOp(sq', op) \in Nat
      /\ \A i \in 1..Len(sq') : i + 1 \in 1..Len(sq) /\ sq'[i] = sq[i + 1]
      /\ \A a, b : Precedes(sq, a, b) => Precedes(sq', a, b)
      /\ OfOp(sq, "connect") > 0
      /\ ~Dropping /\ TypeOK /\ Core
  BY TakeFacts
<1>2. /\ \A op : OfOp(sq, op) \in Nat /\ OfOp(work, op) \in Nat /\ OfOp(cq, op) \in Nat
  BY <1>1, Numbers
<1>3. e \in Cqe /\ e.op = "connect" /\ e.n = o.n /\ e.res = "EISCONN"
  <2>1. o.n \in 0..MaxConnects
    BY <1>1 DEF Sqe
  <2>2. QED BY <2>1 DEF Done, Cqe, Errors
<1>4. o.slot = fd /\ fd # NoFd /\ o.n = cf.n /\ Again /\ file[fd] = "connected"
  BY <1>1 DEF SqPlace
<1>5. cq' = Append(cq, e) /\ conn' = conn
  BY <1>4 DEF StartConnect
<1> HIDE DEF e
<1>6. /\ cq' \in Seq(Cqe)
      /\ OfOp(cq', e.op) = OfOp(cq, e.op) + 1
      /\ \A op : op # e.op => OfOp(cq', op) = OfOp(cq, op)
      /\ \A i \in 1..Len(cq') :
            (i \in 1..Len(cq) /\ cq'[i] = cq[i]) \/ cq'[i] = e
      /\ \A a, b : a # b /\ Precedes(cq, a, b) /\ (e.op = a => OfOp(cq, b) = 0)
                 => Precedes(cq', a, b)
  BY <1>1, <1>3, <1>5, PostFacts
<1>7. OfOp(work, "close") = 0 /\ OfOp(cq, "close") = 0
  BY <1>1, <1>2 DEF IInv, Flow, Order
<1>8. /\ OfOp(sq, "connect") = OfOp(sq', "connect") + 1
      /\ \A op : op # "connect" => OfOp(sq', op) = OfOp(sq, op)
      /\ OfOp(cq', "connect") = OfOp(cq, "connect") + 1
      /\ \A op : op # "connect" => OfOp(cq', op) = OfOp(cq, op)
  BY <1>1, <1>3, <1>6
<1>9. \A op \in Ops : Fl(op)' = Fl(op)
  <2>1. Bit(conn # NoConn) \in Nat /\ Bit(conn' # NoConn) = Bit(conn # NoConn)
    BY <1>5 DEF Bit
  <2>2. (((OfOp(sq', "connect") + OfOp(work', "connect")) + OfOp(cq', "connect"))
              + Bit(conn' # NoConn)) + OfOp(sq', "socket")
             = (((OfOp(sq, "connect") + OfOp(work, "connect"))
                + OfOp(cq, "connect")) + Bit(conn # NoConn)) + OfOp(sq, "socket")
    <3>1. /\ OfOp(sq, "connect") = OfOp(sq', "connect") + 1
          /\ OfOp(cq', "connect") = OfOp(cq, "connect") + 1
          /\ OfOp(sq', "socket") = OfOp(sq, "socket")
          /\ OfOp(sq', "connect") \in Nat /\ OfOp(cq, "connect") \in Nat
          /\ OfOp(work, "connect") \in Nat /\ OfOp(sq, "socket") \in Nat
      BY <1>1, <1>2, <1>8
    <3>2. QED BY <2>1, <3>1
  <2>3. QED BY <1>8, <2>2, SameSums
<1>10. Order'
  <2>1. Precedes(cq', "socket", "connect")
    BY <1>3, <1>6 DEF IInv, Flow, Order
  <2>2. OfOp(work', "close") = 0 /\ OfOp(cq', "close") = 0
    BY <1>7, <1>8
  <2>3. QED BY <1>1, <2>1, <2>2 DEF IInv, Flow, Order
<1>11. Precedes(cq', "connect", "close")
  BY <1>3, <1>4, <1>6, <1>7 DEF IInv, Flow, AgainFirst
<1>12. Places'
  <2>1. /\ \A x : SqPlace(x)' <=> SqPlace(x)
        /\ \A x : WorkPlace(x)' <=> WorkPlace(x)
        /\ \A x : CqPlace(x)' <=> CqPlace(x)
        /\ ConnPlace' <=> ConnPlace
    BY <1>5 DEF KernelQuiet, SqPlace, WorkPlace, CqPlace, ConnPlace, Again
  <2>2. CqPlace(e)
    BY <1>3, <1>4 DEF CqPlace, Ok
  <2>3. QED BY <1>1, <1>6, <2>1, <2>2 DEF IInv, Flow, Places
<1>13. Leave'
  BY LeaveTake
<1>14. /\ work' \in Seq(Sqe) /\ armed' \in BOOLEAN
       /\ file' \in [Slots -> {"empty", "fresh", "connected", "other"}]
       /\ conn' \in [n : 0..MaxConnects, slot : Slots \cup {NoFd}]
  BY <1>1, <1>5 DEF TypeOK
<1>15. FreeSlotsAreClosed'
  BY DEF IInv, Owner, FreeSlotsAreClosed, KernelQuiet
<1>16. file'[fd] = "connected"
  BY <1>4
<1>17. QED BY <1>1, <1>6, <1>9, <1>10, <1>11, <1>12, <1>13, <1>14, <1>15, <1>16,
          KernelRest

\* A connect in flight is cancelled.
LEMMA InterruptFacts ==
    ASSUME IInv, Interrupt, UNCHANGED <<sf, cf, clf, fd, file>>
    PROVE  /\ conn' = NoConn /\ conn' \in [n : 0..MaxConnects, slot : Slots \cup {NoFd}]
           /\ cq' \in Seq(Cqe)
           /\ OfOp(cq', "connect") = OfOp(cq, "connect") + Bit(conn # NoConn)
           /\ \A op : op # "connect" => OfOp(cq', op) = OfOp(cq, op)
           /\ Precedes(cq', "socket", "connect")
           /\ Again => Precedes(cq', "connect", "close")
           /\ (\A i \in 1..Len(cq) : CqPlace(cq[i]))'
           /\ ConnPlace'
<1>1. TypeOK /\ conn' = NoConn /\ conn \in [n : 0..MaxConnects, slot : Slots \cup {NoFd}]
      /\ NoConn.slot = NoFd
  BY DEF IInv, Core, TypeOK, Interrupt, NoConn
<1>2. conn' \in [n : 0..MaxConnects, slot : Slots \cup {NoFd}]
  BY <1>1, Zero DEF NoConn
<1>3. \A x : CqPlace(x) => CqPlace(x)'
  BY <1>1 DEF CqPlace, Again
<1>4. ConnPlace'
  BY <1>1 DEF ConnPlace
<1>5. \A op : OfOp(cq, op) \in Nat
  BY <1>1, Numbers
<1>6. CASE conn = NoConn
  <2>1. cq' = cq /\ Bit(conn # NoConn) = 0
    BY <1>6 DEF Interrupt, Bit
  <2>2. QED BY <1>1, <1>2, <1>3, <1>4, <1>5, <2>1
        DEF IInv, Flow, Order, AgainFirst, Places, TypeOK
<1>7. CASE conn # NoConn
  <2> DEFINE e == Done("connect", "ECANCELED", conn.n)
  <2>1. e \in Cqe /\ e.op = "connect" /\ e.n = conn.n /\ e.res = "ECANCELED"
    <3>1. conn.n \in 0..MaxConnects
      BY <1>1
    <3>2. QED BY <3>1 DEF Done, Cqe, Errors
  <2>2. cq' = Append(cq, e) /\ Bit(conn # NoConn) = 1
    BY <1>7 DEF Interrupt, Bit
  <2>3. conn.n = cf.n /\ ~Again
    BY <1>7 DEF IInv, Flow, Places, ConnPlace, Again
  <2> HIDE DEF e
  <2>4. /\ cq' \in Seq(Cqe)
        /\ OfOp(cq', e.op) = OfOp(cq, e.op) + 1
        /\ \A op : op # e.op => OfOp(cq', op) = OfOp(cq, op)
        /\ \A i \in 1..Len(cq') :
              (i \in 1..Len(cq) /\ cq'[i] = cq[i]) \/ cq'[i] = e
        /\ \A a, b : a # b /\ Precedes(cq, a, b) /\ (e.op = a => OfOp(cq, b) = 0)
                   => Precedes(cq', a, b)
    BY <1>1, <2>1, <2>2, PostFacts
  <2>5. CqPlace(e)
    BY <2>1, <2>3 DEF CqPlace, Ok
  <2>6. (\A i \in 1..Len(cq) : CqPlace(cq[i]))'
    BY <1>3, <2>4, <2>5 DEF IInv, Flow, Places
  <2>7. Precedes(cq', "socket", "connect")
    BY <2>1, <2>4 DEF IInv, Flow, Order
  <2>8. QED BY <1>1, <1>2, <1>4, <2>1, <2>2, <2>3, <2>4, <2>6, <2>7
<1>8. QED BY <1>6, <1>7

\* The cancels of ~connect_awaitable; that of a socket finds nothing.
LEMMA TakeCancel ==
    ASSUME IInv, KernelQuiet, pc = "submit", sq # <<>>, sq' = Tail(sq),
           \/ Head(sq).op = "cancelSocket" /\ UNCHANGED <<conn, cq>>
           \/ Head(sq).op = "cancelConnect" /\ Interrupt,
           UNCHANGED <<work, file, armed>>
    PROVE  IInv'
<1>1. /\ sq' \in Seq(Sqe)
      /\ \A op \in Ops : OfOp(sq', op) = OfOp(sq, op)
      /\ \A i \in 1..Len(sq') : i + 1 \in 1..Len(sq) /\ sq'[i] = sq[i + 1]
      /\ \A a, b : Precedes(sq, a, b) => Precedes(sq', a, b)
      /\ ~Dropping /\ TypeOK /\ Core
  BY TakeFacts DEF Ops
<1>2. /\ \A op : OfOp(sq, op) \in Nat /\ OfOp(work, op) \in Nat /\ OfOp(cq, op) \in Nat
  BY <1>1, Numbers
<1>3. UNCHANGED <<sf, cf, clf, fd, file>>
  BY DEF KernelQuiet
<1>4. /\ conn' \in [n : 0..MaxConnects, slot : Slots \cup {NoFd}]
      /\ cq' \in Seq(Cqe)
      /\ OfOp(cq', "connect") + Bit(conn' # NoConn)
            = OfOp(cq, "connect") + Bit(conn # NoConn)
      /\ OfOp(cq', "connect") \in Nat
      /\ \A op : op # "connect" => OfOp(cq', op) = OfOp(cq, op)
      /\ Precedes(cq', "socket", "connect")
      /\ Again => Precedes(cq', "connect", "close")
      /\ (\A i \in 1..Len(cq) : CqPlace(cq[i]))'
      /\ ConnPlace'
  <2>1. CASE UNCHANGED <<conn, cq>>
    <3>1. (\A x : CqPlace(x) => CqPlace(x)') /\ ConnPlace'
      BY <1>3, <2>1 DEF IInv, Flow, Places, CqPlace, Again, ConnPlace
    <3>2. QED BY <1>1, <1>2, <2>1, <3>1
          DEF IInv, Flow, Order, AgainFirst, Places, TypeOK
  <2>2. CASE Interrupt
    <3>1. /\ conn' = NoConn
          /\ conn' \in [n : 0..MaxConnects, slot : Slots \cup {NoFd}]
          /\ cq' \in Seq(Cqe)
          /\ OfOp(cq', "connect") = OfOp(cq, "connect") + Bit(conn # NoConn)
          /\ \A op : op # "connect" => OfOp(cq', op) = OfOp(cq, op)
          /\ Precedes(cq', "socket", "connect")
          /\ Again => Precedes(cq', "connect", "close")
          /\ (\A i \in 1..Len(cq) : CqPlace(cq[i]))'
          /\ ConnPlace'
      BY <1>3, <2>2, InterruptFacts
    <3>2. Bit(conn' # NoConn) = 0 /\ Bit(conn # NoConn) \in Nat
      BY <3>1 DEF Bit
    <3>3. OfOp(cq', "connect") \in Nat
      BY <1>2, <3>1, <3>2
    <3>4. QED BY <1>2, <3>1, <3>2, <3>3
  <2>3. QED BY <2>1, <2>2
<1>5. \A op \in Ops : Fl(op)' = Fl(op)
  <2>1. (((OfOp(sq', "connect") + OfOp(work', "connect")) + OfOp(cq', "connect"))
              + Bit(conn' # NoConn)) + OfOp(sq', "socket")
             = (((OfOp(sq, "connect") + OfOp(work, "connect"))
                + OfOp(cq, "connect")) + Bit(conn # NoConn)) + OfOp(sq, "socket")
    BY <1>1, <1>4, ConnectSum DEF Ops
  <2>2. QED BY <1>1, <1>4, <2>1, SameSums DEF Ops
<1>6. Order'
  BY <1>1, <1>4 DEF IInv, Flow, Order, Ops
<1>7. Places'
  <2>1. /\ \A x : SqPlace(x)' <=> SqPlace(x)
        /\ \A x : WorkPlace(x)' <=> WorkPlace(x)
    BY <1>3 DEF SqPlace, WorkPlace, Again
  <2>2. (\A i \in 1..Len(sq) : SqPlace(sq[i]))'
    BY <1>1, <2>1 DEF IInv, Flow, Places
  <2>3. (\A i \in 1..Len(work) : WorkPlace(work[i]))'
    BY <2>1 DEF IInv, Flow, Places
  <2>4. QED BY <1>4, <2>2, <2>3 DEF Places
<1>8. Leave'
  BY LeaveTake
<1>9. /\ work' \in Seq(Sqe) /\ armed' \in BOOLEAN
      /\ file' \in [Slots -> {"empty", "fresh", "connected", "other"}]
  BY <1>1 DEF TypeOK
<1>10. FreeSlotsAreClosed'
  BY DEF IInv, Owner, FreeSlotsAreClosed, KernelQuiet
<1>11. connected /\ fd # NoFd /\ ~clf.initiated /\ ~(Active(cf) /\ sf.initiated)
              => file'[fd] = "connected"
  BY DEF IInv, Owner, Connected
<1>12. QED BY <1>1, <1>4, <1>5, <1>6, <1>7, <1>8, <1>9, <1>10, <1>11, KernelRest

\* The cancel of a close; the close itself comes with the task work.
LEMMA TakeClose ==
    ASSUME IInv, KernelQuiet, pc = "submit", sq # <<>>, sq' = Tail(sq),
           NEW o, o = Head(sq), o.op = "close",
           Interrupt \/ UNCHANGED <<conn, cq>>,
           work' = Append(work, o), UNCHANGED <<file, armed>>
    PROVE  IInv'
<1>1. /\ sq' \in Seq(Sqe) /\ o \in Sqe /\ SqPlace(o)
      /\ OfOp(sq, o.op) = OfOp(sq', o.op) + 1
      /\ \A op : op # o.op => OfOp(sq', op) = OfOp(sq, op)
      /\ \A op : OfOp(sq', op) \in Nat
      /\ \A i \in 1..Len(sq') : i + 1 \in 1..Len(sq) /\ sq'[i] = sq[i + 1]
      /\ \A a, b : Precedes(sq, a, b) => Precedes(sq', a, b)
      /\ \A a, b : Precedes(sq, a, b) /\ Head(sq).op = b => OfOp(sq, a) = 0
      /\ OfOp(sq, "close") > 0
      /\ ~Dropping /\ TypeOK /\ Core
  BY TakeFacts
<1>2. /\ \A op : OfOp(sq, op) \in Nat /\ OfOp(work, op) \in Nat /\ OfOp(cq, op) \in Nat
  BY <1>1, Numbers
<1>3. UNCHANGED <<sf, cf, clf, fd, file>> /\ o.slot = fd
  BY <1>1 DEF KernelQuiet, SqPlace
<1>4. /\ conn' \in [n : 0..MaxConnects, slot : Slots \cup {NoFd}]
      /\ cq' \in Seq(Cqe)
      /\ OfOp(cq', "connect") + Bit(conn' # NoConn)
            = OfOp(cq, "connect") + Bit(conn # NoConn)
      /\ OfOp(cq', "connect") \in Nat
      /\ \A op : op # "connect" => OfOp(cq', op) = OfOp(cq, op)
      /\ Precedes(cq', "socket", "connect")
      /\ Again => Precedes(cq', "connect", "close")
      /\ (\A i \in 1..Len(cq) : CqPlace(cq[i]))'
      /\ ConnPlace'
  <2>1. CASE UNCHANGED <<conn, cq>>
    <3>1. (\A x : CqPlace(x) => CqPlace(x)') /\ ConnPlace'
      BY <1>3, <2>1 DEF IInv, Flow, Places, CqPlace, Again, ConnPlace
    <3>2. QED BY <1>1, <1>2, <2>1, <3>1
          DEF IInv, Flow, Order, AgainFirst, Places, TypeOK
  <2>2. CASE Interrupt
    <3>1. /\ conn' = NoConn
          /\ conn' \in [n : 0..MaxConnects, slot : Slots \cup {NoFd}]
          /\ cq' \in Seq(Cqe)
          /\ OfOp(cq', "connect") = OfOp(cq, "connect") + Bit(conn # NoConn)
          /\ \A op : op # "connect" => OfOp(cq', op) = OfOp(cq, op)
          /\ Precedes(cq', "socket", "connect")
          /\ Again => Precedes(cq', "connect", "close")
          /\ (\A i \in 1..Len(cq) : CqPlace(cq[i]))'
          /\ ConnPlace'
      BY <1>3, <2>2, InterruptFacts
    <3>2. Bit(conn' # NoConn) = 0 /\ Bit(conn # NoConn) \in Nat
      BY <3>1 DEF Bit
    <3>3. OfOp(cq', "connect") \in Nat
      BY <1>2, <3>1, <3>2
    <3>4. QED BY <1>2, <3>1, <3>2, <3>3
  <2>3. QED BY <2>1, <2>2
<1>5. /\ work' \in Seq(Sqe)
      /\ OfOp(work', "close") = OfOp(work, "close") + 1
      /\ \A op : op # "close" => OfOp(work', op) = OfOp(work, op)
      /\ \A i \in 1..Len(work') :
            (i \in 1..Len(work) /\ work'[i] = work[i]) \/ work'[i] = o
      /\ Precedes(work', "connect", "close")
  BY <1>1, LinkFacts DEF IInv, Flow, Order
<1>6. OfOp(sq, "socket") = 0 /\ OfOp(sq, "connect") = 0
  BY <1>1 DEF IInv, Flow, Order
<1>7. /\ OfOp(sq, "close") = OfOp(sq', "close") + 1
      /\ \A op : op # "close" => OfOp(sq', op) = OfOp(sq, op)
  BY <1>1
<1>8. \A op \in Ops : Fl(op)' = Fl(op)
  <2>1. (((OfOp(sq', "connect") + OfOp(work', "connect")) + OfOp(cq', "connect"))
              + Bit(conn' # NoConn)) + OfOp(sq', "socket")
             = (((OfOp(sq, "connect") + OfOp(work, "connect"))
                + OfOp(cq, "connect")) + Bit(conn # NoConn)) + OfOp(sq, "socket")
    BY <1>1, <1>4, <1>5, <1>7, ConnectSum
  <2>2. (((OfOp(sq', "close") + OfOp(work', "close")) + OfOp(cq', "close")) + 0) + 0
             = (((OfOp(sq, "close") + OfOp(work, "close")) + OfOp(cq, "close"))
                + 0) + 0
    <3>1. /\ OfOp(sq, "close") = OfOp(sq', "close") + 1
          /\ OfOp(work', "close") = OfOp(work, "close") + 1
          /\ OfOp(cq', "close") = OfOp(cq, "close")
          /\ OfOp(sq', "close") \in Nat /\ OfOp(work, "close") \in Nat
          /\ OfOp(cq, "close") \in Nat
      BY <1>1, <1>2, <1>4, <1>5, <1>7
    <3>2. QED BY <3>1
  <2>3. QED BY <1>4, <1>5, <1>7, <2>1, <2>2, SameSums
<1>9. Order'
  <2>1. OfOp(sq', "socket") = 0 /\ OfOp(sq', "connect") = 0
    BY <1>6, <1>7
  <2>2. OfOp(cq', "close") > 0 => OfOp(work', "connect") = 0
    BY <1>4, <1>5 DEF IInv, Flow, Order
  <2>3. QED BY <1>1, <1>4, <1>5, <2>1, <2>2 DEF IInv, Flow, Order
<1>10. Places'
  <2>1. /\ \A x : SqPlace(x)' <=> SqPlace(x)
        /\ \A x : WorkPlace(x)' <=> WorkPlace(x)
    BY <1>3 DEF SqPlace, WorkPlace, Again
  <2>2. (\A i \in 1..Len(sq) : SqPlace(sq[i]))'
    BY <1>1, <2>1 DEF IInv, Flow, Places
  <2>3. WorkPlace(o)
    BY <1>3 DEF WorkPlace
  <2>4. (\A i \in 1..Len(work) : WorkPlace(work[i]))'
    BY <1>5, <2>1, <2>3 DEF IInv, Flow, Places
  <2>5. QED BY <1>4, <2>2, <2>4 DEF Places
<1>11. Leave'
  BY LeaveTake
<1>12. /\ armed' \in BOOLEAN
       /\ file' \in [Slots -> {"empty", "fresh", "connected", "other"}]
  BY <1>1 DEF TypeOK
<1>13. FreeSlotsAreClosed'
  BY DEF IInv, Owner, FreeSlotsAreClosed, KernelQuiet
<1>14. connected /\ fd # NoFd /\ ~clf.initiated /\ ~(Active(cf) /\ sf.initiated)
              => file'[fd] = "connected"
  BY DEF IInv, Owner, Connected
<1>15. QED BY <1>1, <1>4, <1>5, <1>8, <1>9, <1>10, <1>11, <1>12, <1>13, <1>14,
          KernelRest

\* The kernel takes an operation.
LEMMA KernelTakesIInv ==
    ASSUME IInv, Uses = {}, KernelTakes
    PROVE  IInv'
<1>1. /\ KernelQuiet /\ pc = "submit" /\ sq # <<>> /\ sq' = Tail(sq)
      /\ Take(Head(sq))
  BY DEF KernelTakes, KernelQuiet, frameVars, fdVars, loopVars, histVars
<1>2. PICK o : o = Head(sq)
  OBVIOUS
<1>3. Take(o)
  BY <1>1, <1>2
<1>4. CASE o.op = "timer"
  BY <1>1, <1>2, <1>3, <1>4, TakeTimer DEF Take
<1>5. CASE o.op = "removeTimer"
  BY <1>1, <1>2, <1>3, <1>5, TakeRemove DEF Take
<1>6. CASE o.op = "socket"
  <2>1. /\ file' = [file EXCEPT ![o.slot] = "fresh"]
        /\ cq' = Append(cq, Done("socket", Ok, o.n))
        /\ work' = Append(work, [o EXCEPT !.op = "connect"])
        /\ UNCHANGED <<conn, armed>>
    BY <1>3, <1>6 DEF Take
  <2>2. QED BY <1>1, <1>2, <1>6, <2>1, TakeSocket
<1>7. CASE o.op = "connect"
  BY <1>1, <1>2, <1>3, <1>7, TakeConnect DEF Take
<1>8. CASE o.op \in {"cancelSocket", "cancelConnect"}
  <2>1. /\ \/ Head(sq).op = "cancelSocket" /\ UNCHANGED <<conn, cq>>
           \/ Head(sq).op = "cancelConnect" /\ Interrupt
        /\ UNCHANGED <<work, file, armed>>
    BY <1>2, <1>3, <1>8 DEF Take
  <2>2. QED BY <1>1, <2>1, TakeCancel
<1>9. CASE o.op = "close"
  <2>1. /\ Interrupt \/ UNCHANGED <<conn, cq>>
        /\ work' = Append(work, o) /\ UNCHANGED <<file, armed>>
    BY <1>3, <1>9 DEF Take
  <2>2. QED BY <1>1, <1>2, <1>9, <2>1, TakeClose
<1>10. QED BY <1>3, <1>4, <1>5, <1>6, <1>7, <1>8, <1>9 DEF Take

\* The first of the linked operations has its turn.
LEMMA WorkFacts ==
    ASSUME IInv, pc = "submit", work # <<>>, work' = Tail(work)
    PROVE  /\ Head(work) \in Sqe /\ work' \in Seq(Sqe) /\ WorkPlace(Head(work))
           /\ OfOp(work, Head(work).op) = OfOp(work', Head(work).op) + 1
           /\ \A op : op # Head(work).op => OfOp(work', op) = OfOp(work, op)
           /\ \A op : OfOp(work', op) \in Nat
           /\ \A i \in 1..Len(work') : i + 1 \in 1..Len(work) /\ work'[i] = work[i + 1]
           /\ Precedes(work', "connect", "close")
           /\ Head(work).op = "close" => OfOp(work, "connect") = 0
           /\ OfOp(work, Head(work).op) > 0
           /\ ~Dropping /\ TypeOK /\ Core
           /\ AllGone => back \in {"user", "abort"}
<1>1. TypeOK /\ Core /\ work \in Seq(Sqe)
  BY DEF IInv, Core, TypeOK
<1>2. /\ work' \in Seq(Sqe) /\ Head(work) \in Sqe /\ 1 \in 1..Len(work)
      /\ Head(work) = work[1]
      /\ \A i \in 1..Len(work') : i + 1 \in 1..Len(work) /\ work'[i] = work[i + 1]
  BY <1>1, TailEntries
<1>3. WorkPlace(Head(work))
  BY <1>2 DEF IInv, Flow, Places
<1>4. \A op : OfOp(work', op) \in Nat
  BY <1>2, Laws DEF OpLaws
<1>5. /\ OfOp(work, Head(work).op) = OfOp(work', Head(work).op) + 1
      /\ \A op : op # Head(work).op => OfOp(work', op) = OfOp(work, op)
  <2>1. \A op : OfOp(work, op) = OfOp(work', op) + Bit(Head(work).op = op)
    BY <1>1, Laws DEF OpLaws
  <2>2. QED BY <1>4, <2>1 DEF Bit
<1>6. /\ Precedes(work', "connect", "close")
      /\ Head(work).op = "close" => OfOp(work, "connect") = 0
  BY <1>1, Laws DEF OrderLaws, IInv, Flow, Order
<1>7. OfOp(work, Head(work).op) > 0
  BY <1>1, Queued
<1>8. AllGone => back \in {"user", "abort"}
  BY DEF IInv, Leave
<1>9. ~Dropping
  BY DEF Dropping
<1>10. QED BY <1>1, <1>2, <1>3, <1>4, <1>5, <1>6, <1>7, <1>8, <1>9

\* The connect goes out on the new socket.
LEMMA WorkConnect ==
    ASSUME IInv, KernelQuiet, pc = "submit", sq = <<>>, work # <<>>,
           NEW o, o = Head(work), o.op = "connect", StartConnect(o), file' = file,
           work' = Tail(work), UNCHANGED <<sq, armed>>
    PROVE  IInv'
<1>1. /\ o \in Sqe /\ work' \in Seq(Sqe) /\ WorkPlace(o)
      /\ OfOp(work, "connect") = OfOp(work', "connect") + 1
      /\ \A op : op # "connect" => OfOp(work', op) = OfOp(work, op)
      /\ \A op : OfOp(work', op) \in Nat
      /\ \A i \in 1..Len(work') : i + 1 \in 1..Len(work) /\ work'[i] = work[i + 1]
      /\ Precedes(work', "connect", "close")
      /\ OfOp(work, "connect") > 0
      /\ ~Dropping /\ TypeOK /\ Core
      /\ AllGone => back \in {"user", "abort"}
  BY WorkFacts
<1>2. /\ \A op : OfOp(sq, op) \in Nat /\ OfOp(work, op) \in Nat /\ OfOp(cq, op) \in Nat
  BY <1>1, Numbers
<1>3. /\ o.slot = fd /\ fd # NoFd /\ o.n = cf.n /\ sf.initiated /\ file[fd] = "fresh"
      /\ o.n \in 0..MaxConnects
  BY <1>1 DEF WorkPlace, Sqe
<1>4. cq' = cq /\ conn' = [n |-> o.n, slot |-> fd]
  BY <1>3 DEF StartConnect
<1>5. /\ conn'.n = o.n /\ conn'.slot = fd
      /\ conn' \in [n : 0..MaxConnects, slot : Slots \cup {NoFd}]
  BY <1>1, <1>3, <1>4 DEF TypeOK
<1>6. conn' # NoConn
  BY <1>3, <1>5 DEF NoConn
<1>7. conn = NoConn /\ OfOp(work, "connect") = 1 /\ Active(cf)
  <2>1. Fl("connect") \in {0, 1} /\ (Fl("connect") = 1 <=> Waits("connect"))
    BY <1>1, AtMostOne DEF Ops
  <2>2. conn = NoConn /\ OfOp(work, "connect") = 1 /\ Fl("connect") # 0
    BY <1>1, <2>1, ConnectPlaces
  <2>3. QED BY <2>1, <2>2 DEF Waits
<1>8. \A op \in Ops : Fl(op)' = Fl(op)
  <2>1. Bit(conn # NoConn) = 0 /\ Bit(conn' # NoConn) = 1
    BY <1>6, <1>7 DEF Bit
  <2>2. (((OfOp(sq', "connect") + OfOp(work', "connect")) + OfOp(cq', "connect"))
              + Bit(conn' # NoConn)) + OfOp(sq', "socket")
             = (((OfOp(sq, "connect") + OfOp(work, "connect"))
                + OfOp(cq, "connect")) + Bit(conn # NoConn)) + OfOp(sq, "socket")
    <3>1. /\ OfOp(work, "connect") = OfOp(work', "connect") + 1
          /\ OfOp(work', "connect") \in Nat /\ OfOp(cq, "connect") \in Nat
          /\ OfOp(sq, "connect") \in Nat /\ OfOp(sq, "socket") \in Nat
      BY <1>1, <1>2
    <3>2. QED BY <1>4, <2>1, <3>1
  <2>3. QED BY <1>1, <1>4, <2>2, SameSums
<1>9. Order'
  <2>1. OfOp(cq, "close") = 0
    BY <1>1, <1>2 DEF IInv, Flow, Order
  <2>2. QED BY <1>1, <1>4, <2>1 DEF IInv, Flow, Order
<1>10. OfOp(cq, "close") = 0 /\ \A i \in 1..Len(cq) : cq[i].op # "close"
  <2>1. OfOp(cq, "close") = 0
    BY <1>1, <1>2 DEF IInv, Flow, Order
  <2>2. QED BY <1>1, <2>1, Absent
<1>11. UNCHANGED <<sf, cf, clf, fd, file>>
  BY DEF KernelQuiet
<1>12. Places'
  <2>1. /\ \A x : SqPlace(x)' <=> SqPlace(x)
        /\ \A x : WorkPlace(x)' <=> WorkPlace(x)
        /\ \A x : x.op # "close" /\ CqPlace(x) => CqPlace(x)'
    BY <1>11 DEF SqPlace, WorkPlace, CqPlace, Again
  <2>2. ConnPlace'
    <3>1. cf.n > 0
      BY <1>7 DEF IInv, Core, Frames, Active
    <3>2. QED BY <1>3, <1>5, <1>11, <3>1 DEF ConnPlace
  <2>3. (\A i \in 1..Len(cq) : CqPlace(cq[i]))'
    BY <1>4, <1>10, <2>1 DEF IInv, Flow, Places
  <2>4. (\A i \in 1..Len(work) : WorkPlace(work[i]))'
    BY <1>1, <2>1 DEF IInv, Flow, Places
  <2>5. (\A i \in 1..Len(sq) : SqPlace(sq[i]))'
    BY <2>1 DEF IInv, Flow, Places
  <2>6. QED BY <2>2, <2>3, <2>4, <2>5 DEF Places
<1>13. Leave'
  BY <1>1 DEF IInv, Leave, KernelQuiet, AllGone
<1>14. /\ sq' \in Seq(Sqe) /\ armed' \in BOOLEAN /\ cq' \in Seq(Cqe)
       /\ file' \in [Slots -> {"empty", "fresh", "connected", "other"}]
  BY <1>1, <1>4 DEF TypeOK
<1>15. FreeSlotsAreClosed'
  BY DEF IInv, Owner, FreeSlotsAreClosed, KernelQuiet
<1>16. Again => Precedes(cq', "connect", "close")
  BY <1>3 DEF Again
<1>17. QED BY <1>1, <1>3, <1>5, <1>7, <1>8, <1>9, <1>12, <1>13, <1>14, <1>15,
          <1>16, KernelRest

\* The slot is closed; a connect in flight keeps the socket.
LEMMA WorkClose ==
    ASSUME IInv, KernelQuiet, pc = "submit", sq = <<>>, work # <<>>,
           NEW o, o = Head(work), o.op = "close", CloseSlot(o),
           work' = Tail(work), UNCHANGED <<sq, armed>>
    PROVE  IInv'
<1> DEFINE r == IF o.slot = NoFd THEN "EBADF" ELSE Ok
           e == Done("close", r, 0)
<1>1. /\ o \in Sqe /\ work' \in Seq(Sqe) /\ WorkPlace(o)
      /\ OfOp(work, "close") = OfOp(work', "close") + 1
      /\ \A op : op # "close" => OfOp(work', op) = OfOp(work, op)
      /\ \A op : OfOp(work', op) \in Nat
      /\ \A i \in 1..Len(work') : i + 1 \in 1..Len(work) /\ work'[i] = work[i + 1]
      /\ Precedes(work', "connect", "close")
      /\ OfOp(work, "connect") = 0
      /\ OfOp(work, "close") > 0
      /\ ~Dropping /\ TypeOK /\ Core
      /\ AllGone => back \in {"user", "abort"}
  BY WorkFacts
<1>2. /\ \A op : OfOp(sq, op) \in Nat /\ OfOp(work, op) \in Nat /\ OfOp(cq, op) \in Nat
  BY <1>1, Numbers
<1>3. o.slot = fd /\ fd \in Slots \cup {NoFd}
  BY <1>1 DEF WorkPlace, TypeOK
<1>4. e \in Cqe /\ e.op = "close"
  BY Zero DEF Done, Cqe, Errors, Ok
<1>5. cq' = Append(cq, e)
  BY DEF CloseSlot
<1> HIDE DEF e, r
<1>6. /\ cq' \in Seq(Cqe)
      /\ OfOp(cq', "close") = OfOp(cq, "close") + 1
      /\ \A op : op # "close" => OfOp(cq', op) = OfOp(cq, op)
      /\ \A i \in 1..Len(cq') :
            (i \in 1..Len(cq) /\ cq'[i] = cq[i]) \/ cq'[i] = e
      /\ \A a, b : a # b /\ a # "close" /\ Precedes(cq, a, b) => Precedes(cq', a, b)
  BY <1>1, <1>4, <1>5, PostFacts
<1>7. clf.initiated
  <2>1. Fl("close") \in {0, 1} /\ (Fl("close") = 1 <=> Waits("close"))
    BY <1>1, AtMostOne DEF Ops
  <2>2. Fl("close") # 0
    BY <1>1, <2>1, OtherPlaces
  <2>3. QED BY <2>1, <2>2 DEF Waits, Active
<1>8. /\ conn' \in [n : 0..MaxConnects, slot : Slots \cup {NoFd}]
      /\ conn'.slot = NoFd /\ conn'.n = conn.n
      /\ conn' # NoConn <=> conn # NoConn
  <2>1. /\ conn \in [n : 0..MaxConnects, slot : Slots \cup {NoFd}]
        /\ NoConn.slot = NoFd /\ NoConn.n = 0
        /\ conn # NoConn => conn.n > 0 /\ conn.slot \in {NoFd, fd}
    BY <1>1 DEF TypeOK, NoConn, IInv, Flow, Places, ConnPlace
  <2>2. CASE fd # NoFd /\ conn.slot = fd
    <3>1. conn' = [conn EXCEPT !.slot = NoFd]
      BY <1>3, <2>2 DEF CloseSlot
    <3>2. /\ conn' \in [n : 0..MaxConnects, slot : Slots \cup {NoFd}]
          /\ conn'.slot = NoFd /\ conn'.n = conn.n
      BY <2>1, <3>1
    <3>3. conn # NoConn
      BY <2>1, <2>2
    <3>4. conn'.n # NoConn.n
      BY <2>1, <3>2, <3>3
    <3>5. QED BY <3>2, <3>3, <3>4
  <2>3. CASE ~(fd # NoFd /\ conn.slot = fd)
    <3>1. conn' = conn
      BY <1>3, <2>3 DEF CloseSlot
    <3>2. conn.slot = NoFd
      BY <2>1, <2>3
    <3>3. QED BY <2>1, <3>1, <3>2
  <2>4. QED BY <2>2, <2>3
<1>9. /\ file' \in [Slots -> {"empty", "fresh", "connected", "other"}]
      /\ fd # NoFd => file'[fd] = "empty"
      /\ \A s \in Slots : s # fd => file'[s] = file[s]
  BY <1>1, <1>3 DEF CloseSlot, TypeOK
<1>10. \A op \in Ops : Fl(op)' = Fl(op)
  <2>1. Bit(conn' # NoConn) = Bit(conn # NoConn)
    BY <1>8 DEF Bit
  <2>2. (((OfOp(sq', "close") + OfOp(work', "close")) + OfOp(cq', "close")) + 0) + 0
             = (((OfOp(sq, "close") + OfOp(work, "close")) + OfOp(cq, "close"))
                + 0) + 0
    <3>1. /\ OfOp(work, "close") = OfOp(work', "close") + 1
          /\ OfOp(cq', "close") = OfOp(cq, "close") + 1
          /\ OfOp(sq, "close") \in Nat /\ OfOp(work', "close") \in Nat
          /\ OfOp(cq, "close") \in Nat
      BY <1>1, <1>2, <1>6
    <3>2. QED BY <3>1
  <2>3. QED BY <1>1, <1>6, <2>1, <2>2, SameSums
<1>11. Order'
  <2>1. OfOp(sq', "socket") = 0 /\ OfOp(sq', "connect") = 0
    BY Laws DEF OpLaws
  <2>2. QED BY <1>1, <1>6, <2>1 DEF IInv, Flow, Order
<1>12. UNCHANGED <<sf, cf, clf, fd>>
  BY DEF KernelQuiet
<1>13. Places'
  <2>1. \A i \in 1..Len(work) : work[i].op # "connect"
    BY <1>1, Absent
  <2>2. \A x : x.op # "connect" /\ WorkPlace(x) => WorkPlace(x)'
    BY <1>12 DEF WorkPlace
  <2>3. (\A i \in 1..Len(work) : WorkPlace(work[i]))'
    BY <1>1, <2>1, <2>2 DEF IInv, Flow, Places
  <2>4. (\A i \in 1..Len(sq) : SqPlace(sq[i]))'
    OBVIOUS
  <2>5. ConnPlace'
    BY <1>7, <1>8, <1>12 DEF IInv, Flow, Places, ConnPlace
  <2>6. \A x : CqPlace(x) => CqPlace(x)'
    BY <1>7, <1>8, <1>9, <1>12 DEF CqPlace, Again
  <2>7. CqPlace(e)'
    BY <1>4, <1>8, <1>9, <1>12 DEF CqPlace
  <2>8. (\A i \in 1..Len(cq) : CqPlace(cq[i]))'
    BY <1>6, <2>6, <2>7 DEF IInv, Flow, Places
  <2>9. QED BY <2>3, <2>4, <2>5, <2>8 DEF Places
<1>14. Leave'
  BY <1>1 DEF IInv, Leave, KernelQuiet, AllGone
<1>15. sq' \in Seq(Sqe) /\ armed' \in BOOLEAN
  BY <1>1 DEF TypeOK
<1>16. FreeSlotsAreClosed'
  BY <1>9 DEF IInv, Owner, Table, SlotsPartition, FreeSlotsAreClosed, KernelQuiet
<1>17. Again => Precedes(cq', "connect", "close")
  BY <1>6 DEF IInv, Flow, AgainFirst
<1>18. QED BY <1>1, <1>6, <1>7, <1>8, <1>9, <1>10, <1>11, <1>13, <1>14, <1>15,
          <1>16, <1>17, KernelRest

\* The task work.
LEMMA KernelWorksIInv ==
    ASSUME IInv, KernelWorks
    PROVE  IInv'
<1>1. /\ KernelQuiet /\ pc = "submit" /\ sq = <<>> /\ work # <<>>
      /\ work' = Tail(work) /\ UNCHANGED <<sq, armed>>
  BY DEF KernelWorks, KernelQuiet, frameVars, fdVars, loopVars, histVars
<1>2. PICK o : o = Head(work)
  OBVIOUS
<1>3. o.op \in {"connect", "close"}
  <2>1. WorkPlace(Head(work))
    BY <1>1, WorkFacts
  <2>2. QED BY <1>2, <2>1 DEF WorkPlace
<1>4. CASE o.op = "connect"
  <2>1. StartConnect(o) /\ file' = file
    BY <1>2, <1>4 DEF KernelWorks
  <2>2. QED BY <1>1, <1>2, <1>4, <2>1, WorkConnect
<1>5. CASE o.op = "close"
  <2>1. CloseSlot(o)
    BY <1>2, <1>5 DEF KernelWorks
  <2>2. QED BY <1>1, <1>2, <1>5, <2>1, WorkClose
<1>6. QED BY <1>3, <1>4, <1>5

\* The peer answers, or the timeout of the connect strikes.
LEMMA KernelConnectsIInv ==
    ASSUME IInv, KernelConnects
    PROVE  IInv'
<1>1. /\ KernelQuiet /\ conn # NoConn /\ pc # "end" /\ conn' = NoConn
      /\ UNCHANGED <<sq, work, armed>> /\ TypeOK
  BY DEF KernelConnects, KernelQuiet, frameVars, fdVars, loopVars, histVars, IInv, Core
<1>2. PICK res \in {Ok, "ECONNREFUSED", "ECANCELED"} :
         /\ cq' = Append(cq, Done("connect", res, conn.n))
         /\ file' = IF res = Ok /\ conn.slot # NoFd
                    THEN [file EXCEPT ![conn.slot] = "connected"] ELSE file
  BY DEF KernelConnects
<1>0. PICK e : e = Done("connect", res, conn.n)
  OBVIOUS
<1>3. /\ conn.n \in 0..MaxConnects /\ fd \in Slots \cup {NoFd}
      /\ conn' \in [n : 0..MaxConnects, slot : Slots \cup {NoFd}]
      /\ conn'.slot = NoFd
  BY <1>1, Zero DEF TypeOK, NoConn
<1>4. e \in Cqe /\ e.op = "connect" /\ e.n = conn.n /\ e.res = res
  BY <1>0, <1>3 DEF Done, Cqe, Errors
<1>5. /\ conn.n = cf.n /\ sf.initiated /\ ~Again
      /\ \/ conn.slot = NoFd /\ (fd = NoFd \/ clf.initiated)
         \/ conn.slot = fd /\ fd # NoFd /\ file[fd] = "fresh"
  BY <1>1 DEF IInv, Flow, Places, ConnPlace, Again
<1>6. cq' = Append(cq, e)
  BY <1>0, <1>2
<1>7. /\ cq' \in Seq(Cqe)
      /\ OfOp(cq', "connect") = OfOp(cq, "connect") + 1
      /\ \A op : op # "connect" => OfOp(cq', op) = OfOp(cq, op)
      /\ \A i \in 1..Len(cq') :
            (i \in 1..Len(cq) /\ cq'[i] = cq[i]) \/ cq'[i] = e
      /\ \A a, b : a # b /\ a # "connect" /\ Precedes(cq, a, b) => Precedes(cq', a, b)
  BY <1>1, <1>4, <1>6, PostFacts
<1>8. /\ \A op : OfOp(sq, op) \in Nat /\ OfOp(work, op) \in Nat /\ OfOp(cq, op) \in Nat
  BY <1>1, Numbers
<1>9. /\ file' \in [Slots -> {"empty", "fresh", "connected", "other"}]
      /\ \A s \in Slots : s # fd => file'[s] = file[s]
      /\ fd # NoFd => file'[fd] = file[fd] \/ file'[fd] = "connected"
      /\ conn.slot = NoFd => file' = file
      /\ conn.slot # NoFd /\ res = Ok => file'[fd] = "connected"
  BY <1>1, <1>2, <1>3, <1>5 DEF TypeOK
<1>10. \A op \in Ops : Fl(op)' = Fl(op)
  <2>1. Bit(conn # NoConn) = 1 /\ Bit(conn' # NoConn) = 0
    BY <1>1 DEF Bit
  <2>2. /\ OfOp(cq', "connect") + Bit(conn' # NoConn)
              = OfOp(cq, "connect") + Bit(conn # NoConn)
        /\ OfOp(cq', "connect") \in Nat
    BY <1>7, <1>8, <2>1
  <2>3. (((OfOp(sq', "connect") + OfOp(work', "connect")) + OfOp(cq', "connect"))
              + Bit(conn' # NoConn)) + OfOp(sq', "socket")
             = (((OfOp(sq, "connect") + OfOp(work, "connect"))
                + OfOp(cq, "connect")) + Bit(conn # NoConn)) + OfOp(sq, "socket")
    BY <1>1, <2>2, ConnectSum
  <2>4. QED BY <1>1, <1>7, <2>3, SameSums
<1>11. Order'
  BY <1>1, <1>7 DEF IInv, Flow, Order
<1>12. \A i \in 1..Len(work) : work[i].op # "connect"
  <2>1. CASE Dropping
    <3>1. work = <<>>
      BY <2>1 DEF IInv, Core, Control, Leave, Dropping
    <3>2. QED BY <3>1
  <2>2. CASE ~Dropping
    <3>1. Fl("connect") \in {0, 1}
      BY <2>2, AtMostOne DEF IInv, Ops
    <3>2. OfOp(work, "connect") = 0
      BY <1>1, <3>1, ConnectPlaces
    <3>3. QED BY <1>1, <3>2, Absent
  <2>3. QED BY <2>1, <2>2
<1>13. UNCHANGED <<sf, cf, clf, fd>>
  BY <1>1 DEF KernelQuiet
<1>14. Places'
  <2>1. \A x : x.op # "connect" /\ WorkPlace(x) => WorkPlace(x)'
    BY <1>13 DEF WorkPlace
  <2>2. (\A i \in 1..Len(work) : WorkPlace(work[i]))'
    BY <1>1, <1>12, <2>1 DEF IInv, Flow, Places
  <2>3. \A x : SqPlace(x) => SqPlace(x)'
    BY <1>5, <1>13 DEF SqPlace, Again
  <2>4. (\A i \in 1..Len(sq) : SqPlace(sq[i]))'
    BY <1>1, <2>3 DEF IInv, Flow, Places
  <2>5. ConnPlace'
    BY <1>1 DEF ConnPlace
  <2>6. \A x : CqPlace(x) => CqPlace(x)'
    BY <1>3, <1>9, <1>13 DEF CqPlace, Again
  <2>7. CqPlace(e)'
    BY <1>4, <1>5, <1>9, <1>13 DEF CqPlace, Again, Ok
  <2>8. (\A i \in 1..Len(cq) : CqPlace(cq[i]))'
    BY <1>7, <2>6, <2>7 DEF IInv, Flow, Places
  <2>9. QED BY <2>2, <2>4, <2>5, <2>8 DEF Places
<1>15. Leave'
  BY <1>1 DEF IInv, Leave, KernelQuiet, AllGone
<1>16. sq' \in Seq(Sqe) /\ work' \in Seq(Sqe) /\ armed' \in BOOLEAN
  BY <1>1 DEF TypeOK
<1>17. FreeSlotsAreClosed'
  BY <1>1, <1>9 DEF IInv, Owner, Table, SlotsPartition, FreeSlotsAreClosed, KernelQuiet
<1>18. Again => Precedes(cq', "connect", "close")
  BY <1>5
<1>19. connected /\ fd # NoFd /\ ~clf.initiated /\ ~(Active(cf) /\ sf.initiated)
              => file'[fd] = "connected"
  BY <1>9 DEF IInv, Owner, Connected
<1>20. QED BY <1>1, <1>3, <1>7, <1>9, <1>10, <1>11, <1>14, <1>15, <1>16, <1>17,
          <1>18, <1>19, KernelRest

-----------------------------------------------------------------------------
(* The beginning, and the moves of the thread between its phases.          *)

\* When every coroutine is gone, nobody has the client.
LEMMA Nobody ==
    ASSUME TypeOK
    PROVE  AllGone <=> Pop(co, Coros, Alive) = 0 /\ Pop(co, Coros, Busy) = 0
<1>1. IsFiniteSet(Coros)
  BY ClientAssumption
<1>2. /\ Pop(co, Coros, Alive) = 0 <=> \A c \in Coros : co[c] \notin Alive
      /\ Pop(co, Coros, Busy) = 0 <=> \A c \in Coros : co[c] \notin Busy
  BY <1>1, PopZero
<1>3. QED BY <1>2 DEF TypeOK, AllGone, Alive, Busy

\* What a move of the thread leaves alone.
ThreadQuiet == UNCHANGED <<sf, cf, clf, tm, refs, fd, connected, fds, others, co, sq,
                           work, file, conn, armed, cq, connects, closedDuring>>

\* What a move of the thread has to keep.
LEMMA ThreadRest ==
    ASSUME IInv, ThreadQuiet,
           pc' \in {"user", "submit", "reap", "abort", "flush", "end"},
           back' \in {"user", "reap", "clear", "abort"}, handles' \in Seq(Coros),
           Dropping => Dropping', ~Leaving' => ~Leaving /\ UNCHANGED handles,
           Control', AllGone => Leave', End'
    PROVE  IInv'
<1>1. UNCHANGED <<sf, cf, clf, tm, refs, fd, connected, fds, others, co, sq,
                  work, file, conn, armed, cq, connects, closedDuring>>
  BY DEF ThreadQuiet
<1>2. TypeOK'
  BY <1>1 DEF IInv, Core, TypeOK
<1>3. \A op : Fl(op)' = Fl(op) /\ (Waits(op)' <=> Waits(op))
  BY <1>1 DEF Fl, Held, Waits, Active
<1>4. Exact'
  BY <1>1, <1>3 DEF IInv, Core, Exact
<1>5. Frames'
  BY <1>1 DEF IInv, Core, Frames, Active
<1>6. Flight'
  BY <1>3 DEF IInv, Core, Flight, Bit
<1>7. Waiters'
  <2>1. CASE Leaving'
    BY <1>1, <2>1 DEF IInv, Core, Waiters
  <2>2. CASE ~Leaving'
    <3>1. ~Leaving /\ UNCHANGED handles
      BY <2>2
    <3>2. QED BY <1>1, <3>1 DEF IInv, Core, Waiters, Ready
  <2>3. QED BY <2>1, <2>2
<1>8. Order'
  BY <1>1 DEF IInv, Flow, Order
<1>9. AgainFirst'
  <2>1. Again' <=> Again
    BY <1>1 DEF Again
  <2>2. ~Leaving' => ~Leaving /\ (InTurn => InTurn')
    BY <1>1 DEF InTurn
  <2>3. QED BY <1>1, <2>1, <2>2 DEF IInv, Flow, AgainFirst
<1>10. Places'
  <2>1. \A x : /\ SqPlace(x) => SqPlace(x)'
               /\ WorkPlace(x) => WorkPlace(x)'
               /\ CqPlace(x) => CqPlace(x)'
    BY <1>1 DEF SqPlace, WorkPlace, CqPlace, Again
  <2>2. ConnPlace'
    BY <1>1 DEF IInv, Flow, Places, ConnPlace
  <2>3. QED BY <1>1, <2>1, <2>2 DEF IInv, Flow, Places
<1>11. Table'
  BY <1>1, TableSame DEF IInv, Owner
<1>12. FreeSlotsAreClosed'
  BY <1>1 DEF IInv, Owner, FreeSlotsAreClosed
<1>13. Connected'
  BY <1>1 DEF IInv, Owner, Connected, Active
<1>14. Leave'
  <2>1. AllGone' <=> AllGone
    BY <1>1 DEF AllGone
  <2>2. QED BY <2>1 DEF Leave
<1>15. QED BY <1>2, <1>4, <1>5, <1>6, <1>7, <1>8, <1>9, <1>10, <1>11, <1>12,
           <1>13, <1>14 DEF IInv, Core, Flow, Owner

\* The loop submits, is done with it, or run() is left by an exception.
LEMMA ThreadIInv ==
    ASSUME IInv, \/ SubmitAndWait \/ SubmitFull \/ SubmitDone \/ ReapDone \/ Abort
                 \/ UNCHANGED vars
    PROVE  IInv'
<1>1. ThreadQuiet /\ UNCHANGED handles
  BY DEF SubmitAndWait, SubmitFull, SubmitDone, ReapDone, Abort, ThreadQuiet, vars,
     frameVars,
         fdVars, loopVars, kernVars, histVars
<1>2. /\ pc \in {"user", "submit", "reap", "abort", "flush", "end"}
      /\ back \in {"user", "reap", "clear", "abort"} /\ handles \in Seq(Coros)
      /\ Control
  BY DEF IInv, Core, TypeOK
<1>3. UNCHANGED <<sq, work, others, cq, co>>
  BY <1>1 DEF ThreadQuiet
<1>4. AllGone => /\ \/ pc = "submit" /\ back \in {"user", "abort"}
                    \/ sq = <<>> /\ work = <<>>
                 /\ (OfOp(sq, "timer") > 0 \/ armed
                       => \E i \in 1..Len(sq) : sq[i].op = "removeTimer")'
  BY <1>1 DEF IInv, Leave, ThreadQuiet
<1>5. /\ pc' \in {"user", "submit", "reap", "abort", "flush", "end"}
      /\ back' \in {"user", "reap", "clear", "abort"}
  BY <1>2 DEF SubmitAndWait, SubmitFull, SubmitDone, ReapDone, Abort, vars, loopVars
<1>6. Control'
  <2>1. CASE SubmitAndWait \/ SubmitFull
    BY <1>2, <1>3, <2>1 DEF SubmitAndWait, SubmitFull, Control, Leaving
  <2>2. CASE SubmitDone
    BY <1>2, <1>3, <2>2 DEF SubmitDone, Control, Leaving
  <2>3. CASE ReapDone
    BY <1>2, <1>3, <2>3 DEF ReapDone, Control, Leaving
  <2>4. CASE Abort
    BY <1>2, <1>3, <2>4 DEF Abort, Control, Leaving
  <2>5. CASE UNCHANGED vars
    BY <1>2, <1>3, <2>5 DEF vars, loopVars, Control, Leaving, AllGone
  <2>6. QED BY <2>1, <2>2, <2>3, <2>4, <2>5
<1>7. /\ Dropping => Dropping'
      /\ ~Leaving' => ~Leaving
  BY <1>2 DEF SubmitAndWait, SubmitFull, SubmitDone, ReapDone, Abort, vars, loopVars,
     Control,
              Leaving, Dropping
<1>8. AllGone => Leave'
  <2>1. CASE SubmitDone
    BY <1>2, <1>3, <1>4, <2>1 DEF SubmitDone, Leave
  <2>2. CASE ~SubmitDone
    BY <1>2, <1>3, <1>4, <2>2 DEF SubmitAndWait, SubmitFull, ReapDone, Abort, vars,
       loopVars,
                                  Leave
  <2>3. QED BY <2>1, <2>2
<1>9. End'
  BY <1>1, <1>2 DEF IInv, End, ThreadQuiet, SubmitAndWait, SubmitFull, SubmitDone,
     ReapDone,
              Abort, vars, loopVars
<1>10. QED BY <1>1, <1>2, <1>5, <1>6, <1>7, <1>8, <1>9, ThreadRest

\* A failed send clears connected_ while nobody connects.
LEMMA ConnectionLostIInv ==
    ASSUME IInv, ConnectionLost
    PROVE  IInv'
<1>1. /\ UNCHANGED <<sf, cf, clf, tm, refs, fd, fds, others, co, handles, pc, back,
                     sq, work, file, conn, armed, cq, connects, closedDuring>>
      /\ connected' = FALSE /\ ~cf.initiated
  BY DEF ConnectionLost, frameVars, loopVars, kernVars, histVars
<1>2. TypeOK'
  BY <1>1 DEF IInv, Core, TypeOK
<1>3. \A op : Fl(op)' = Fl(op) /\ (Waits(op)' <=> Waits(op))
  BY <1>1 DEF Fl, Held, Waits, Active
<1>4. Control' /\ Exact'
  BY <1>1, <1>3 DEF IInv, Core, Control, Exact, Leaving, AllGone
<1>5. Frames'
  BY <1>1 DEF IInv, Core, Frames, Active
<1>6. Flight'
  BY <1>1, <1>3 DEF IInv, Core, Flight, Dropping, Bit
<1>7. Waiters'
  BY <1>1 DEF IInv, Core, Waiters, Ready, Leaving
<1>8. Order' /\ AgainFirst'
  BY <1>1 DEF IInv, Flow, Order, AgainFirst, Again
<1>9. Places'
  <2>1. \A x : /\ SqPlace(x) => SqPlace(x)'
               /\ WorkPlace(x) => WorkPlace(x)'
               /\ CqPlace(x) => CqPlace(x)'
    BY <1>1 DEF SqPlace, WorkPlace, CqPlace, Again
  <2>2. ConnPlace'
    BY <1>1 DEF IInv, Flow, Places, ConnPlace
  <2>3. QED BY <1>1, <2>1, <2>2 DEF IInv, Flow, Places
<1>10. Table' /\ FreeSlotsAreClosed'
  BY <1>1, TableSame DEF IInv, Owner, FreeSlotsAreClosed
<1>11. Connected'
  BY <1>1 DEF IInv, Core, Frames, Owner, Connected
<1>12. Leave' /\ End'
  BY <1>1 DEF IInv, Leave, End, AllGone
<1>13. QED BY <1>2, <1>4, <1>5, <1>6, <1>7, <1>8, <1>9, <1>10, <1>11, <1>12
           DEF IInv, Core, Flow, Owner

\* The coroutines are gone, run() drops what it has collected.
LEMMA FlushStartIInv ==
    ASSUME IInv, FlushStart
    PROVE  IInv'
<1>1. /\ ThreadQuiet /\ handles' = <<>> /\ back' = back /\ pc = "abort"
      /\ pc' = "flush" /\ AllGone /\ others = {}
  BY DEF FlushStart, ThreadQuiet, frameVars, fdVars, kernVars, histVars, AllGone
<1>2. back \in {"user", "reap", "clear", "abort"} /\ Control
  BY DEF IInv, Core, TypeOK
<1>3. Leaving /\ Leaving'
  BY <1>1, <1>2 DEF Control, Leaving
<1>4. sq = <<>> /\ work = <<>>
  BY <1>1 DEF IInv, Leave
<1>5. Control'
  BY <1>1, <1>2, <1>3, <1>4 DEF Control, ThreadQuiet, AllGone
<1>6. Leave'
  BY <1>1, <1>4 DEF IInv, Leave, ThreadQuiet
<1>7. End' /\ Dropping'
  BY <1>1 DEF End, Dropping
<1>8. QED BY <1>1, <1>2, <1>3, <1>5, <1>6, <1>7, ThreadRest

\* The last completion is dropped.
LEMMA FlushDoneIInv ==
    ASSUME IInv, FlushDone
    PROVE  IInv'
<1>1. /\ ThreadQuiet /\ UNCHANGED <<handles, back>> /\ pc = "flush"
      /\ pc' = "end" /\ cq = <<>> /\ (refs > 0 \/ fd = NoFd)
  BY DEF FlushDone, ThreadQuiet, frameVars, fdVars, kernVars, histVars
<1>2. /\ back \in {"user", "reap", "clear", "abort"} /\ handles \in Seq(Coros)
      /\ Control /\ TypeOK
  BY DEF IInv, Core, TypeOK
<1>3. Leaving /\ Leaving' /\ AllGone /\ others = {} /\ sq = <<>>
  BY <1>1, <1>2 DEF Control, Leaving
<1>4. work = <<>> /\ ~armed
  <2>1. work = <<>>
    BY <1>1, <1>3 DEF IInv, Leave
  <2>2. \A i \in 1..Len(sq) : FALSE
    BY <1>3
  <2>3. QED BY <1>3, <2>1, <2>2 DEF IInv, Leave
<1>5. Control'
  BY <1>1, <1>2, <1>3, <1>4 DEF Control, ThreadQuiet, AllGone
<1>6. Leave'
  BY <1>1, <1>3, <1>4 DEF IInv, Leave, ThreadQuiet
<1>7. End'
  <2>1. SUFFICES ASSUME conn = NoConn PROVE refs = 0 /\ fd = NoFd
    BY <1>1 DEF End, ThreadQuiet
  <2>2. \A op : OfOp(<<>>, op) = 0
    BY Laws DEF OpLaws
  <2>3. Bit(armed) = 0 /\ Bit(conn # NoConn) = 0
    BY <1>4, <2>1 DEF Bit
  <2>4. Fl("timer") = 0 /\ Fl("socket") = 0 /\ Fl("connect") = 0 /\ Fl("close") = 0
    BY <1>1, <1>3, <1>4, <2>2, <2>3, Sums
  <2>5. Pop(co, Coros, Alive) = 0 /\ Pop(co, Coros, Busy) = 0
    BY <1>2, <1>3, Nobody
  <2>6. refs = 0
    BY <2>4, <2>5 DEF IInv, Core, Exact
  <2>7. QED BY <1>1, <2>6
<1>8. Dropping'
  BY <1>1 DEF Dropping
<1>9. QED BY <1>1, <1>2, <1>3, <1>5, <1>6, <1>7, <1>8, ThreadRest

\* The first completion is processed or dropped, with its reference.
LEMMA DoneFacts ==
    ASSUME TypeOK, Exact, cq # <<>>, cq' = Tail(cq), refs' = refs - 1,
           UNCHANGED <<co, sq, work, conn, armed>>, NEW o, o = Head(cq).op
    PROVE  /\ cq' \in Seq(Cqe) /\ o \in Ops /\ Head(cq) \in Cqe
           /\ 1 \in 1..Len(cq) /\ Head(cq) = cq[1]
           /\ \A i \in 1..Len(cq') : i + 1 \in 1..Len(cq) /\ cq'[i] = cq[i + 1]
           /\ \A a, b : Precedes(cq, a, b) => Precedes(cq', a, b)
           /\ \A a, b : Precedes(cq, a, b) /\ o = b => OfOp(cq, a) = 0
           /\ OfOp(cq, o) = OfOp(cq', o) + 1
           /\ \A op : op # o => OfOp(cq', op) = OfOp(cq, op)
           /\ \A op : OfOp(cq', op) \in Nat
           /\ Fl(o) = Fl(o)' + 1 /\ \A op : op # o => Fl(op)' = Fl(op)
           /\ \A op : Fl(op)' \in Nat
           /\ Exact' /\ refs' \in Nat
<1>1. cq \in Seq(Cqe)
  BY DEF TypeOK
<1>2. /\ cq' \in Seq(Cqe) /\ o \in Ops /\ Head(cq) \in Cqe
      /\ 1 \in 1..Len(cq) /\ Head(cq) = cq[1]
      /\ \A i \in 1..Len(cq') : i + 1 \in 1..Len(cq) /\ cq'[i] = cq[i + 1]
      /\ \A a, b : Precedes(cq, a, b) => Precedes(cq', a, b)
      /\ \A a, b : Precedes(cq, a, b) /\ o = b => OfOp(cq, a) = 0
      /\ \A op : OfOp(cq, op) = OfOp(cq', op) + Bit(o = op)
      /\ \A op : OfOp(cq', op) \in Nat
  <2>1. /\ cq' \in Seq(Cqe) /\ Head(cq) \in Cqe
        /\ 1 \in 1..Len(cq) /\ Head(cq) = cq[1]
        /\ \A i \in 1..Len(cq') : i + 1 \in 1..Len(cq) /\ cq'[i] = cq[i + 1]
    BY <1>1, TailEntries
  <2>2. /\ \A a, b : Precedes(cq, a, b) => Precedes(cq', a, b)
        /\ \A a, b : Precedes(cq, a, b) /\ o = b => OfOp(cq, a) = 0
        /\ \A op : OfOp(cq, op) = OfOp(cq', op) + Bit(o = op)
        /\ \A op : OfOp(cq', op) \in Nat
    <3>1. /\ \A a, b : Precedes(cq, a, b) => Precedes(cq', a, b)
          /\ \A a, b : Precedes(cq, a, b) /\ Head(cq).op = b => OfOp(cq, a) = 0
      BY <1>1, Laws DEF OrderLaws
    <3>2. \A op : OfOp(cq, op) = OfOp(cq', op) + Bit(Head(cq).op = op)
      BY <1>1, Laws DEF OpLaws
    <3>3. \A op : OfOp(cq', op) \in Nat
      BY <2>1, Laws DEF OpLaws
    <3>4. QED BY <3>1, <3>2, <3>3
  <2>3. QED BY <2>1, <2>2 DEF Cqe, Ops
<1>3. /\ OfOp(cq, o) = OfOp(cq', o) + 1
      /\ \A op : op # o => OfOp(cq', op) = OfOp(cq, op)
  BY <1>2 DEF Bit
<1>4. Fl(o) = Fl(o)' + 1 /\ \A op : op # o => Fl(op)' = Fl(op)
  <2>1. /\ \A op : OfOp(sq, op) \in Nat /\ OfOp(work, op) \in Nat
        /\ Bit(Held(o)) \in Nat
    BY Numbers DEF Bit
  <2>2. \A op : Bit(Held(op))' = Bit(Held(op))
    BY DEF Held
  <2>3. Fl(o) = Fl(o)' + 1
    <3> DEFINE s == OfOp(sq, o)
               w == OfOp(work, o)
               q == OfOp(cq, o)
               r == OfOp(cq', o)
               h == Bit(Held(o))
               e == IF o = "connect" THEN OfOp(sq, "socket") ELSE 0
    <3>1. /\ q = r + 1 /\ r \in Nat /\ s \in Nat /\ w \in Nat /\ h \in Nat /\ e \in Nat
      BY <1>2, <1>3, <2>1
    <3>2. Fl(o) = (((s + w) + q) + h) + e /\ Fl(o)' = (((s + w) + r) + h) + e
      BY <2>2 DEF Fl
    <3> HIDE DEF s, w, q, r, h, e
    <3>3. (((s + w) + q) + h) + e = ((((s + w) + r) + h) + e) + 1
      BY <3>1
    <3>4. QED BY <3>2, <3>3
  <2>4. ASSUME NEW op, op # o PROVE Fl(op)' = Fl(op)
    BY <1>3, <2>2, <2>4 DEF Fl
  <2>5. QED BY <2>3, <2>4
<1>5. ASSUME NEW op PROVE Fl(op)' \in Nat
  <2>1. OfOp(sq', op) \in Nat /\ OfOp(work', op) \in Nat /\ OfOp(sq', "socket") \in Nat
    BY Numbers
  <2>2. Bit(Held(op)') \in Nat
    BY DEF Bit
  <2>3. QED BY <1>2, <2>1, <2>2 DEF Fl
<1>6. Exact' /\ refs' \in Nat
  <2> DEFINE p == Pop(co, Coros, Alive) + Pop(co, Coros, Busy)
             u == ((Fl("timer") + Fl("socket")) + Fl("connect")) + Fl("close")
             v == ((Fl("timer")' + Fl("socket")') + Fl("connect")') + Fl("close")'
  <2>1. p \in Nat
    <3>1. Pop(co, Coros, Alive) \in Nat /\ Pop(co, Coros, Busy) \in Nat
      BY Numbers
    <3>2. QED BY <3>1
  <2>2. Fl("timer") \in Nat /\ Fl("socket") \in Nat /\ Fl("connect") \in Nat
        /\ Fl("close") \in Nat
    BY Numbers
  <2>3. /\ Fl("timer")' \in Nat /\ Fl("socket")' \in Nat /\ Fl("connect")' \in Nat
        /\ Fl("close")' \in Nat
    BY <1>5
  <2>4. u = v + 1 /\ v \in Nat
    <3> DEFINE a == Fl("timer")
               b == Fl("socket")
               c == Fl("connect")
               d == Fl("close")
               aa == Fl("timer")'
               bb == Fl("socket")'
               cc == Fl("connect")'
               dd == Fl("close")'
    <3>1. \/ a = aa + 1 /\ bb = b /\ cc = c /\ dd = d
          \/ aa = a /\ b = bb + 1 /\ cc = c /\ dd = d
          \/ aa = a /\ bb = b /\ c = cc + 1 /\ dd = d
          \/ aa = a /\ bb = b /\ cc = c /\ d = dd + 1
      BY <1>2, <1>4 DEF Ops
    <3>2. u = ((a + b) + c) + d /\ v = ((aa + bb) + cc) + dd
      OBVIOUS
    <3>3. aa \in Nat /\ bb \in Nat /\ cc \in Nat /\ dd \in Nat
      BY <2>3
    <3> HIDE DEF a, b, c, d, aa, bb, cc, dd, u, v
    <3>4. /\ ((a + b) + c) + d = (((aa + bb) + cc) + dd) + 1
          /\ ((aa + bb) + cc) + dd \in Nat
      BY <3>1, <3>3
    <3>5. QED BY <3>2, <3>4
  <2>5. refs = p + u
    BY DEF Exact
  <2>6. Pop(co', Coros, Alive) + Pop(co', Coros, Busy) = p
    OBVIOUS
  <2>7. Exact' <=> refs' = p + v
    BY <2>6 DEF Exact
  <2> HIDE DEF p, u, v
  <2>8. refs' = p + v
    BY <2>1, <2>4, <2>5
  <2>9. QED BY <2>1, <2>4, <2>7, <2>8
<1>7. QED BY <1>2, <1>3, <1>4, <1>5, <1>6

\* ~guard drops a completion and its reference.
LEMMA FlushIInv ==
    ASSUME IInv, Flush
    PROVE  IInv'
<1>1. /\ UNCHANGED <<sf, cf, clf, tm, fd, connected, fds, others, co, handles, pc,
                     back, sq, work, file, conn, armed, connects, closedDuring>>
      /\ pc = "flush" /\ cq # <<>> /\ refs' = refs - 1 /\ cq' = Tail(cq)
      /\ TypeOK /\ cq \in Seq(Cqe) /\ Control
  BY DEF Flush, fdVars, loopVars, histVars, IInv, Core, TypeOK
<1>2. sq = <<>> /\ work = <<>> /\ AllGone
  BY <1>1 DEF IInv, Leave, Control
<1>3. PICK o : o = Head(cq).op
  OBVIOUS
<1>4. /\ cq' \in Seq(Cqe)
      /\ \A i \in 1..Len(cq') : i + 1 \in 1..Len(cq) /\ cq'[i] = cq[i + 1]
      /\ \A a, b : Precedes(cq, a, b) => Precedes(cq', a, b)
      /\ Exact' /\ refs' \in Nat
  BY <1>1, <1>3, DoneFacts DEF IInv, Core
<1>5. TypeOK'
  BY <1>1, <1>4 DEF TypeOK
<1>6. Control' /\ Frames' /\ Flight'
  <2>1. Control'
    BY <1>1 DEF Control, Leaving, AllGone
  <2>2. Frames'
    BY <1>1 DEF IInv, Core, Frames, Active
  <2>3. Flight'
    BY <1>1 DEF Flight, Dropping
  <2>4. QED BY <2>1, <2>2, <2>3
<1>7. Waiters'
  BY <1>1 DEF IInv, Core, Waiters, Ready, Leaving
<1>8. Order'
  <2>1. \A op : OfOp(sq', op) = 0 /\ OfOp(work', op) = 0
    BY <1>1, <1>2, Laws DEF OpLaws
  <2>2. QED BY <1>1, <1>4, <2>1 DEF IInv, Flow, Order
<1>9. AgainFirst'
  <2>1. (Again' <=> Again) /\ (InTurn' <=> InTurn)
    BY <1>1 DEF Again, InTurn
  <2>2. QED BY <1>1, <1>4, <2>1 DEF IInv, Flow, AgainFirst, Leaving
<1>10. Places'
  <2>1. \A x : /\ SqPlace(x) => SqPlace(x)'
               /\ WorkPlace(x) => WorkPlace(x)'
               /\ CqPlace(x) => CqPlace(x)'
    BY <1>1 DEF SqPlace, WorkPlace, CqPlace, Again
  <2>2. ConnPlace'
    BY <1>1 DEF IInv, Flow, Places, ConnPlace
  <2>3. QED BY <1>1, <1>4, <2>1, <2>2 DEF IInv, Flow, Places
<1>11. Owner'
  <2>1. Table'
    BY <1>1, TableSame DEF IInv, Owner
  <2>2. FreeSlotsAreClosed'
    BY <1>1 DEF IInv, Owner, FreeSlotsAreClosed
  <2>3. Connected'
    BY <1>1 DEF IInv, Owner, Connected, Active
  <2>4. QED BY <2>1, <2>2, <2>3 DEF Owner
<1>12. Leave' /\ End'
  BY <1>1, <1>2 DEF IInv, Leave, AllGone, End
<1>13. QED BY <1>4, <1>5, <1>6, <1>7, <1>8, <1>9, <1>10, <1>11, <1>12
       DEF IInv, Core, Flow

-----------------------------------------------------------------------------
(* The destructor, and the other sockets of the loop.                      *)

\* A client without references has nothing in flight and nobody to use it.
LEMMA NoneLeft ==
    ASSUME IInv, refs = 0
    PROVE  /\ AllGone /\ ~armed /\ conn = NoConn /\ work = <<>> /\ cq = <<>>
           /\ \A i \in 1..Len(sq) : sq[i].op \notin Ops
<1>1. TypeOK
  BY DEF IInv, Core
<1> DEFINE a == Pop(co, Coros, Alive)
           b == Pop(co, Coros, Busy)
           c == Fl("timer")
           d == Fl("socket")
           e == Fl("connect")
           f == Fl("close")
<1>2. (a + b) + (((c + d) + e) + f) = 0
  BY DEF IInv, Core, Exact
<1>3. a \in Nat /\ b \in Nat /\ c \in Nat /\ d \in Nat /\ e \in Nat /\ f \in Nat
  BY <1>1, Numbers
<1> HIDE DEF a, b, c, d, e, f
<1>4. a = 0 /\ b = 0 /\ c = 0 /\ d = 0 /\ e = 0 /\ f = 0
  BY <1>2, <1>3
<1>5. AllGone
  BY <1>1, <1>4, Nobody DEF a, b
<1>6. /\ OfOp(sq, "connect") = 0 /\ OfOp(work, "connect") = 0
      /\ OfOp(cq, "connect") = 0 /\ conn = NoConn
  BY <1>1, <1>4, ConnectPlaces DEF e
<1>7. /\ OfOp(sq, "timer") = 0 /\ OfOp(work, "timer") = 0
      /\ OfOp(cq, "timer") = 0 /\ ~armed
  BY <1>1, <1>4, OtherPlaces DEF c
<1>8. OfOp(sq, "socket") = 0 /\ OfOp(work, "socket") = 0 /\ OfOp(cq, "socket") = 0
  BY <1>1, <1>4, OtherPlaces DEF d
<1>9. OfOp(sq, "close") = 0 /\ OfOp(work, "close") = 0 /\ OfOp(cq, "close") = 0
  BY <1>1, <1>4, OtherPlaces DEF f
<1>10. \A i \in 1..Len(sq) : sq[i].op \notin Ops
  BY <1>1, <1>6, <1>7, <1>8, <1>9, Absent DEF Ops
<1>11. \A i \in 1..Len(work) : FALSE
  BY <1>1, <1>6, <1>9, Absent DEF IInv, Flow, Places, WorkPlace
<1>12. \A i \in 1..Len(cq) : FALSE
  <2>1. \A i \in 1..Len(cq) : cq[i].op \notin Ops
    BY <1>1, <1>6, <1>7, <1>8, <1>9, Absent DEF Ops
  <2>2. \A i \in 1..Len(cq) : cq[i].op \in Ops
    <3>1. \A i \in 1..Len(cq) : cq[i] \in Cqe
      BY <1>1 DEF TypeOK
    <3>2. \A x \in Cqe : x.op \in Ops
      BY DEF Cqe, Ops
    <3>3. QED BY <3>1, <3>2
  <2>3. QED BY <2>1, <2>2
<1>13. work \in Seq(Sqe) /\ cq \in Seq(Cqe)
  BY <1>1 DEF TypeOK
<1>14. work = <<>> /\ cq = <<>>
  BY <1>11, <1>12, <1>13
<1>15. QED BY <1>5, <1>6, <1>7, <1>10, <1>14

\* ~stream_impl closes the slot and gives it back.
LEMMA DestructIInv ==
    ASSUME IInv, Destruct
    PROVE  IInv'
<1>1. /\ UNCHANGED <<sf, cf, clf, tm, refs, connected, others, co, handles, pc, back,
                     sq, work, conn, armed, cq, connects, closedDuring>>
      /\ refs = 0 /\ fd # NoFd /\ file' = [file EXCEPT ![fd] = "empty"]
      /\ fds' = fds \cup {fd} /\ fd' = NoFd
  BY DEF Destruct, frameVars, loopVars, histVars
<1>2. /\ AllGone /\ ~armed /\ conn = NoConn /\ work = <<>> /\ cq = <<>>
      /\ \A i \in 1..Len(sq) : sq[i].op \notin Ops
  BY <1>1, NoneLeft
<1>3. TypeOK /\ fd \in Slots
  BY <1>1 DEF IInv, Core, TypeOK
<1>4. /\ file' \in [Slots -> {"empty", "fresh", "connected", "other"}]
      /\ file'[fd] = "empty" /\ \A s \in Slots : s # fd => file'[s] = file[s]
  BY <1>1, <1>3 DEF TypeOK
<1>5. TypeOK'
  BY <1>1, <1>3, <1>4 DEF TypeOK
<1>6. \A op : Fl(op)' = Fl(op) /\ (Waits(op)' <=> Waits(op))
  BY <1>1 DEF Fl, Held, Waits, Active
<1>7. Control' /\ Exact' /\ Frames' /\ Flight'
  <2>1. Control'
    BY <1>1 DEF IInv, Core, Control, Leaving, AllGone
  <2>2. Exact'
    BY <1>1, <1>6 DEF IInv, Core, Exact
  <2>3. Frames'
    BY <1>1 DEF IInv, Core, Frames, Active
  <2>4. Flight'
    BY <1>1, <1>6 DEF IInv, Core, Flight, Bit, Dropping
  <2>5. QED BY <2>1, <2>2, <2>3, <2>4
<1>8. Waiters'
  BY <1>1 DEF IInv, Core, Waiters, Ready, Leaving
<1>9. Order'
  BY <1>1 DEF IInv, Flow, Order
<1>10. AgainFirst'
  <2>1. ~Leaving => ~cf.initiated
    BY <1>2 DEF IInv, Core, Waiters, AllGone
  <2>2. QED BY <1>1, <2>1 DEF IInv, Flow, AgainFirst, Leaving, Again
<1>11. Places'
  <2>1. (\A i \in 1..Len(sq) : SqPlace(sq[i]))'
    BY <1>1, <1>2 DEF SqPlace, Ops
  <2>2. (\A i \in 1..Len(work) : WorkPlace(work[i]))'
    BY <1>1, <1>2
  <2>3. (\A i \in 1..Len(cq) : CqPlace(cq[i]))'
    BY <1>1, <1>2
  <2>4. ConnPlace'
    BY <1>1, <1>2 DEF ConnPlace
  <2>5. QED BY <2>1, <2>2, <2>3, <2>4 DEF Places
<1>12. Owner'
  <2>1. Table'
    BY OthersTable DEF IInv, Owner
  <2>2. FreeSlotsAreClosed'
    BY <1>1, <1>3, <1>4 DEF IInv, Owner, Table, FreeSlotsAreClosed
  <2>3. ~\E c \in Coros : co[c] = "connecting"
    BY <1>2 DEF AllGone
  <2>4. Connected'
    BY <1>1, <2>3 DEF IInv, Owner, Connected
  <2>5. QED BY <2>1, <2>2, <2>4 DEF Owner
<1>13. Leave' /\ End'
  BY <1>1 DEF IInv, Leave, AllGone, End
<1>14. QED BY <1>5, <1>7, <1>8, <1>9, <1>10, <1>11, <1>12, <1>13
       DEF IInv, Core, Flow

\* Another socket of the loop takes a slot or gives it back.
LEMMA OtherIInv ==
    ASSUME IInv, OtherStep
    PROVE  IInv'
<1>1. PICK s \in Slots : OtherTakes(s) \/ OtherReturns(s)
  BY DEF OtherStep
<1>2. /\ UNCHANGED <<sf, cf, clf, tm, refs, fd, connected, co, handles, pc, back,
                     sq, work, conn, armed, cq, connects, closedDuring>>
      /\ pc \in {"user", "abort"} /\ s \in fds \cup others
      /\ fds' \subseteq fds \cup {s} /\ others' \subseteq others \cup {s}
  BY <1>1 DEF OtherTakes, OtherReturns, frameVars, loopVars, histVars
<1>3. TypeOK /\ fd \in Slots \cup {NoFd} /\ s # fd
  BY <1>2 DEF IInv, Core, TypeOK, Owner, Table, SlotsPartition
<1>4. /\ file' \in [Slots -> {"empty", "fresh", "connected", "other"}]
      /\ \A r \in Slots : r # s => file'[r] = file[r]
      /\ fd # NoFd => file'[fd] = file[fd]
  <2>1. /\ file' \in [Slots -> {"empty", "fresh", "connected", "other"}]
        /\ \A r \in Slots : r # s => file'[r] = file[r]
    BY <1>1, <1>3 DEF OtherTakes, OtherReturns, TypeOK
  <2>2. QED BY <1>3, <2>1
<1>5. TypeOK'
  BY <1>2, <1>3, <1>4 DEF TypeOK
<1>6. \A op : Fl(op)' = Fl(op) /\ (Waits(op)' <=> Waits(op))
  BY <1>2 DEF Fl, Held, Waits, Active
<1>7. Control' /\ Exact' /\ Frames' /\ Flight'
  <2>1. Control'
    BY <1>2 DEF IInv, Core, Control, Leaving
  <2>2. Exact'
    BY <1>2, <1>6 DEF IInv, Core, Exact
  <2>3. Frames'
    BY <1>2 DEF IInv, Core, Frames, Active
  <2>4. Flight'
    BY <1>2, <1>6 DEF IInv, Core, Flight, Bit, Dropping
  <2>5. QED BY <2>1, <2>2, <2>3, <2>4
<1>8. Waiters'
  BY <1>2 DEF IInv, Core, Waiters, Ready, Leaving
<1>9. Order'
  BY <1>2 DEF IInv, Flow, Order
<1>10. AgainFirst'
  <2>1. (Again' <=> Again) /\ (InTurn' <=> InTurn)
    BY <1>2 DEF Again, InTurn
  <2>2. QED BY <1>2, <2>1 DEF IInv, Flow, AgainFirst, Leaving
<1>11. Places'
  <2>1. \A x : /\ SqPlace(x) => SqPlace(x)'
               /\ WorkPlace(x) => WorkPlace(x)'
               /\ CqPlace(x) => CqPlace(x)'
    BY <1>2, <1>4 DEF SqPlace, WorkPlace, CqPlace, Again
  <2>2. ConnPlace'
    BY <1>2, <1>4 DEF IInv, Flow, Places, ConnPlace
  <2>3. QED BY <1>2, <2>1, <2>2 DEF IInv, Flow, Places
<1>12. Owner'
  <2>1. Table'
    BY OthersTable DEF IInv, Owner
  <2>2. FreeSlotsAreClosed'
    <3>1. CASE OtherTakes(s)
      BY <1>4, <3>1 DEF OtherTakes, IInv, Owner, Table, FreeSlotsAreClosed
    <3>2. CASE OtherReturns(s)
      <4>1. file'[s] = "empty"
        BY <1>3, <3>2 DEF OtherReturns, TypeOK
      <4>2. QED BY <1>4, <3>2, <4>1 DEF OtherReturns, IInv, Owner, Table,
                                         FreeSlotsAreClosed
    <3>3. QED BY <1>1, <3>1, <3>2
  <2>3. Connected'
    BY <1>2, <1>4 DEF IInv, Owner, Connected, Active
  <2>4. QED BY <2>1, <2>2, <2>3 DEF Owner
<1>13. Leave' /\ End'
  BY <1>2 DEF IInv, Leave, AllGone, End
<1>14. QED BY <1>5, <1>7, <1>8, <1>9, <1>10, <1>11, <1>12, <1>13
       DEF IInv, Core, Flow

\* The client is created and every coroutine has a copy of it.
LEMMA InitIInv ==
    ASSUME Init
    PROVE  IInv
<1>1. /\ sf = ResetFrame /\ cf = ResetFrame /\ clf = ResetFrame
      /\ tm = NewTimer /\ refs = Cardinality(Coros) + 1
      /\ fd = NoFd /\ connected = FALSE /\ fds = Slots /\ others = {}
      /\ co = [c \in Coros |-> "idle"]
      /\ handles = <<>> /\ pc = "user" /\ back = "user"
      /\ sq = <<Op("timer", NoFd, 0)>> /\ work = <<>>
      /\ file = [s \in Slots |-> "empty"] /\ conn = NoConn /\ armed = FALSE
      /\ cq = <<>> /\ connects = 0 /\ closedDuring = FALSE
  BY DEF Init, InitialFds
<1>2. /\ ResetFrame \in Frame /\ ResetFrame.h = None /\ ResetFrame.res = Ok
      /\ ResetFrame.initiated = FALSE /\ ResetFrame.done = FALSE /\ ResetFrame.n = 0
  BY ResetFacts
<1> DEFINE t == Op("timer", NoFd, 0)
<1>3. t \in Sqe /\ t.op = "timer"
  BY Zero, SqeFacts
<1>4. sq = <<t>> /\ sq = Append(<<>>, t)
  BY <1>1
<1> HIDE DEF t
<1>5. /\ sq \in Seq(Sqe) /\ Len(sq) = 1 /\ sq[1] = t
      /\ \A i \in 1..Len(sq) : sq[i].op = "timer"
  BY <1>3, <1>4
<1>6. Cardinality(Coros) \in Nat
  BY ClientAssumption, FS_CardinalityType
<1>7. TypeOK
  <2>1. tm \in [initiated : BOOLEAN, cancelled : BOOLEAN]
    BY <1>1 DEF NewTimer
  <2>2. conn \in [n : 0..MaxConnects, slot : Slots \cup {NoFd}]
    BY <1>1, Zero DEF NoConn
  <2>3. refs \in Nat /\ connects \in 0..MaxConnects
    BY <1>1, <1>6, Zero
  <2>4. co \in [Coros -> {"idle", "connecting", "closing", "gone"}]
    BY <1>1
  <2>5. file \in [Slots -> {"empty", "fresh", "connected", "other"}]
    BY <1>1
  <2>6. handles \in Seq(Coros) /\ work \in Seq(Sqe) /\ cq \in Seq(Cqe)
    BY <1>1
  <2>7. QED BY <1>1, <1>2, <1>5, <2>1, <2>2, <2>3, <2>4, <2>5, <2>6 DEF TypeOK
<1>8. /\ OfOp(sq, "timer") = 1 /\ \A op : op # "timer" => OfOp(sq, op) = 0
      /\ \A op : OfOp(work, op) = 0 /\ OfOp(cq, op) = 0
  <2>1. \A op : OfOp(<<>>, op) = 0
    BY Laws DEF OpLaws
  <2>2. \A op : OfOp(sq, op) = OfOp(<<>>, op) + Bit(t.op = op)
    <3>1. PICK z \in Seq(Sqe) : z = <<>>
      BY <1>1, <1>7 DEF TypeOK
    <3>2. sq = Append(z, t)
      BY <1>4, <3>1
    <3>3. \A op : OfOp(Append(z, t), op) = OfOp(z, op) + Bit(t.op = op)
      BY <1>3, Laws DEF OpLaws
    <3>4. QED BY <3>1, <3>2, <3>3
  <2>3. QED BY <1>1, <1>3, <2>1, <2>2 DEF Bit
<1>9. Fl("timer") = 1 /\ Fl("socket") = 0 /\ Fl("connect") = 0 /\ Fl("close") = 0
  <2>1. Bit(armed) = 0 /\ Bit(conn # NoConn) = 0
    BY <1>1 DEF Bit
  <2>2. QED BY <1>8, <2>1, Sums
<1>10. ~Leaving /\ ~Dropping /\ \A c \in Coros : co[c] = "idle"
  BY <1>1 DEF Leaving, Dropping
<1>11. Exact
  <2>1. IsFiniteSet(Coros)
    BY ClientAssumption
  <2>2. Pop(co, Coros, Alive) = Cardinality(Coros)
    BY <1>10, <2>1, PopZero DEF Alive
  <2>3. Pop(co, Coros, Busy) = 0
    BY <1>10, <2>1, PopZero DEF Busy
  <2>4. QED BY <1>1, <1>6, <1>9, <2>2, <2>3 DEF Exact
<1>12. Control /\ Frames
  <2>1. Control
    BY <1>1 DEF Control, Leaving
  <2>2. Frames
    BY <1>1, <1>2 DEF Frames, Active
  <2>3. QED BY <2>1, <2>2
<1>13. Flight
  <2>1. /\ Waits("timer") /\ ~Waits("socket") /\ ~Waits("connect") /\ ~Waits("close")
    BY <1>1, <1>2 DEF Waits, Active, NewTimer
  <2>2. QED BY <1>9, <2>1 DEF Flight, Ops, Bit
<1>14. Waiters
  <2>1. \A c \in Coros : Times(handles, c) = 0 /\ ~Ready(c)
    BY <1>1, <1>10, Laws DEF TimesLaws, Ready
  <2>2. QED BY <1>1, <1>2, <1>10, <2>1 DEF Waiters, Busy, Bit
<1>15. Flow
  <2>1. \A a, b : a # "timer" \/ b # "timer" => Precedes(sq, a, b)
    BY <1>5 DEF Precedes
  <2>2. \A a, b : Precedes(work, a, b) /\ Precedes(cq, a, b)
    BY <1>1 DEF Precedes
  <2>3. Order
    BY <1>8, <2>1, <2>2 DEF Order
  <2>4. AgainFirst
    BY <1>1, <1>2 DEF AgainFirst, Again
  <2>5. \A i \in 1..Len(sq) : SqPlace(sq[i])
    BY <1>5 DEF SqPlace
  <2>6. Places
    BY <1>1, <2>5 DEF Places, ConnPlace
  <2>7. QED BY <2>3, <2>4, <2>6 DEF Flow
<1>16. Owner
  <2>1. Table
    BY <1>1, ClientAssumption DEF Table, SlotsPartition
  <2>2. FreeSlotsAreClosed
    BY <1>1 DEF FreeSlotsAreClosed
  <2>3. Connected
    BY <1>1, <1>2 DEF Connected
  <2>4. QED BY <2>1, <2>2, <2>3 DEF Owner
<1>17. End
  BY <1>1 DEF End
<1>18. Leave
  BY <1>10, ClientAssumption DEF Leave, AllGone
<1>19. QED BY <1>7, <1>11, <1>12, <1>13, <1>14, <1>15, <1>16, <1>17, <1>18
       DEF IInv, Core

-----------------------------------------------------------------------------
(* The loop processes a completion.                                        *)

\* What every frame's completion leaves alone.
ReapQuiet == /\ pc = "reap" /\ cq # <<>> /\ cq' = Tail(cq) /\ refs' = refs - 1
             /\ UNCHANGED <<co, pc, back, sq, work, file, conn, armed, connects,
                            closedDuring>>

\* The completion that is processed is the only one of its operation.
LEMMA ReapFacts ==
    ASSUME IInv, ReapQuiet, NEW o, o = Head(cq).op
    PROVE  /\ cq' \in Seq(Cqe) /\ o \in Ops /\ Head(cq) \in Cqe /\ CqPlace(Head(cq))
           /\ \A i \in 1..Len(cq') : i + 1 \in 1..Len(cq) /\ cq'[i] = cq[i + 1]
           /\ \A a, b : Precedes(cq, a, b) => Precedes(cq', a, b)
           /\ \A a, b : Precedes(cq, a, b) /\ o = b => OfOp(cq, a) = 0
           /\ \A i \in 1..Len(cq') : cq'[i].op # o
           /\ OfOp(cq, o) > 0
           /\ sq = <<>> /\ work = <<>> /\ ~Leaving /\ ~Dropping
           /\ Waits(o) /\ Fl(o) = 1 /\ Fl(o)' = 0
           /\ \A op : op # o => Fl(op)' = Fl(op)
           /\ Exact' /\ refs' \in Nat
           /\ TypeOK /\ Core
<1>1. /\ TypeOK /\ Core /\ Exact /\ Control /\ pc = "reap" /\ cq # <<>>
      /\ cq' = Tail(cq) /\ refs' = refs - 1
      /\ UNCHANGED <<co, pc, back, sq, work, file, conn, armed, connects, closedDuring>>
  BY DEF IInv, Core, ReapQuiet
<1>2. /\ cq' \in Seq(Cqe) /\ o \in Ops /\ Head(cq) \in Cqe
      /\ 1 \in 1..Len(cq) /\ Head(cq) = cq[1]
      /\ \A i \in 1..Len(cq') : i + 1 \in 1..Len(cq) /\ cq'[i] = cq[i + 1]
      /\ \A a, b : Precedes(cq, a, b) => Precedes(cq', a, b)
      /\ \A a, b : Precedes(cq, a, b) /\ o = b => OfOp(cq, a) = 0
      /\ OfOp(cq, o) = OfOp(cq', o) + 1
      /\ \A op : OfOp(cq', op) \in Nat
      /\ Fl(o) = Fl(o)' + 1 /\ \A op : op # o => Fl(op)' = Fl(op)
      /\ \A op : Fl(op)' \in Nat
      /\ Exact' /\ refs' \in Nat
  BY <1>1, DoneFacts
<1>3. sq = <<>> /\ work = <<>> /\ ~Leaving /\ ~Dropping
  BY <1>1 DEF Control, Dropping
<1>4. Fl(o) \in {0, 1} /\ (Fl(o) = 1 <=> Waits(o))
  BY <1>1, <1>2, <1>3, AtMostOne
<1>5. Fl(o)' = 0 /\ Fl(o) = 1
  <2>1. Fl(o)' \in Nat /\ Fl(o) = Fl(o)' + 1 /\ Fl(o) \in {0, 1}
    BY <1>2, <1>4
  <2>2. QED BY <2>1
<1>6. Waits(o)
  BY <1>4, <1>5
<1>7. OfOp(cq, o) > 0
  BY <1>1, Queued
<1>8. OfOp(cq', o) = 0
  <2>1. OfOp(cq, o) = 1
    <3>1. CASE o = "connect"
      BY <1>1, <1>4, <1>7, <3>1, ConnectPlaces
    <3>2. CASE o # "connect"
      <4>1. o \in {"timer", "socket", "close"}
        BY <1>2, <3>2 DEF Ops
      <4>2. QED BY <1>1, <1>4, <1>7, <4>1, OtherPlaces
    <3>3. QED BY <3>1, <3>2
  <2>2. OfOp(cq', o) \in Nat /\ 1 = OfOp(cq', o) + 1
    BY <1>2, <2>1
  <2>3. QED BY <2>2
<1>9. \A i \in 1..Len(cq') : cq'[i].op # o
  BY <1>2, <1>8, Laws DEF OpLaws
<1>10. CqPlace(Head(cq))
  BY <1>2 DEF IInv, Flow, Places
<1>11. QED BY <1>1, <1>2, <1>3, <1>5, <1>6, <1>7, <1>9, <1>10

\* What the processing of a completion has to keep.
LEMMA ReapRest ==
    ASSUME IInv, ReapQuiet, NEW o, o = Head(cq).op, UNCHANGED others,
           sf' \in Frame, cf' \in Frame, clf' \in Frame,
           tm' \in [initiated : BOOLEAN, cancelled : BOOLEAN],
           fd' \in Slots \cup {NoFd}, connected' \in BOOLEAN,
           handles' \in Seq(Coros),
           ~Waits(o)', \A op \in Ops : op # o => (Waits(op)' <=> Waits(op)),
           Frames', Waiters', AgainFirst', ConnPlace',
           \A x : CqPlace(x) /\ x.op # o => CqPlace(x)',
           Table', FreeSlotsAreClosed', Connected'
    PROVE  IInv'
<1>1. /\ pc = "reap"
      /\ UNCHANGED <<co, pc, back, sq, work, file, conn, armed, connects, closedDuring>>
  BY DEF ReapQuiet
<1>2. /\ cq' \in Seq(Cqe) /\ o \in Ops
      /\ \A i \in 1..Len(cq') : i + 1 \in 1..Len(cq) /\ cq'[i] = cq[i + 1]
      /\ \A a, b : Precedes(cq, a, b) => Precedes(cq', a, b)
      /\ \A i \in 1..Len(cq') : cq'[i].op # o
      /\ sq = <<>> /\ work = <<>> /\ ~Leaving /\ ~Dropping
      /\ Fl(o)' = 0 /\ \A op : op # o => Fl(op)' = Fl(op)
      /\ Exact' /\ refs' \in Nat /\ TypeOK /\ Core
  BY ReapFacts
<1>3. TypeOK'
  BY <1>1, <1>2 DEF TypeOK, Table
<1>4. Control'
  BY <1>1, <1>2 DEF IInv, Core, Control, Leaving
<1>5. Flight'
  <2>1. \A op \in Ops : Fl(op)' = Bit(Waits(op)')
    BY <1>2 DEF Core, Flight, Bit
  <2>2. QED BY <2>1 DEF Flight
<1>6. Order'
  <2>1. \A op : OfOp(sq', op) = 0 /\ OfOp(work', op) = 0
    BY <1>1, <1>2, Laws DEF OpLaws
  <2>2. QED BY <1>1, <1>2, <2>1 DEF IInv, Flow, Order
<1>7. Places'
  <2>1. (\A i \in 1..Len(sq) : SqPlace(sq[i]))'
    BY <1>1, <1>2
  <2>2. (\A i \in 1..Len(work) : WorkPlace(work[i]))'
    BY <1>1, <1>2
  <2>3. (\A i \in 1..Len(cq) : CqPlace(cq[i]))'
    BY <1>2 DEF IInv, Flow, Places
  <2>4. QED BY <2>1, <2>2, <2>3 DEF Places
<1>8. Leave' /\ End'
  BY <1>1, <1>2 DEF IInv, Leave, AllGone, End
<1>9. QED BY <1>2, <1>3, <1>4, <1>5, <1>6, <1>7, <1>8 DEF IInv, Core, Flow, Owner

\* The timer has been removed.
LEMMA ReapTimer ==
    ASSUME IInv, ReapQuiet, ProcessTimer
    PROVE  IInv'
<1>1. PICK o : o = Head(cq).op
  OBVIOUS
<1>2. /\ o = "timer" /\ tm' = [initiated |-> FALSE, cancelled |-> FALSE]
      /\ UNCHANGED <<sf, cf, clf, fd, connected, fds, others, handles>>
      /\ UNCHANGED <<co, back, file, conn, closedDuring>>
  BY <1>1 DEF ProcessTimer, fdVars, ReapQuiet
<1>3. /\ TypeOK /\ \A a, b : Precedes(cq, a, b) => Precedes(cq', a, b)
  BY <1>1, ReapFacts
<1>4. /\ sf' \in Frame /\ cf' \in Frame /\ clf' \in Frame
      /\ tm' \in [initiated : BOOLEAN, cancelled : BOOLEAN]
      /\ fd' \in Slots \cup {NoFd} /\ connected' \in BOOLEAN
      /\ handles' \in Seq(Coros)
  BY <1>2, <1>3 DEF TypeOK
<1>5. ~Waits(o)' /\ \A op \in Ops : op # o => (Waits(op)' <=> Waits(op))
  BY <1>2 DEF Waits, Active
<1>6. Frames'
  BY <1>2 DEF IInv, Core, Frames, Active
<1>7. Waiters'
  BY <1>2 DEF IInv, Core, Waiters, Ready, Leaving
<1>8. AgainFirst'
  <2>1. (Again' <=> Again) /\ (InTurn' <=> InTurn)
    BY <1>2 DEF Again, InTurn
  <2>2. QED BY <1>2, <1>3, <2>1 DEF IInv, Flow, AgainFirst, Leaving
<1>9. ConnPlace' /\ \A x : CqPlace(x) => CqPlace(x)'
  BY <1>2 DEF IInv, Flow, Places, ConnPlace, CqPlace, Again
<1>10. Table'
  BY <1>2, TableSame DEF IInv, Owner
<1>11. FreeSlotsAreClosed'
  BY <1>2 DEF IInv, Owner, FreeSlotsAreClosed
<1>12. Connected'
  BY <1>2 DEF IInv, Owner, Connected, Active
<1>13. QED BY <1>1, <1>2, <1>4, <1>5, <1>6, <1>7, <1>8, <1>9, <1>10, <1>11, <1>12,
           ReapRest

\* The socket is there; its connect follows.
LEMMA ReapSocket ==
    ASSUME IInv, ReapQuiet, ProcessSocket
    PROVE  IInv'
<1>1. PICK o : o = Head(cq).op
  OBVIOUS
<1>2. /\ TypeOK /\ Waits(o) /\ CqPlace(Head(cq))
      /\ \A a, b : Precedes(cq, a, b) => Precedes(cq', a, b)
  BY <1>1, ReapFacts
<1>3. o = "socket" /\ Head(cq).res = Ok /\ Active(sf) /\ sf.res = Ok
  <2>1. o = "socket"
    BY <1>1 DEF ProcessSocket
  <2>2. QED BY <1>1, <1>2, <2>1 DEF CqPlace, Waits, IInv, Core, Frames
<1>4. /\ sf' = [sf EXCEPT !.done = TRUE, !.res = Ok, !.h = sf.h]
      /\ UNCHANGED <<cf, clf, tm, fd, connected, fds, others, handles>>
      /\ UNCHANGED <<co, back, file, conn, closedDuring>>
  BY <1>3 DEF ProcessSocket, ReapQuiet
<1>5. /\ sf' \in Frame /\ sf'.initiated = sf.initiated /\ sf'.done /\ sf'.res = Ok
      /\ sf'.n = sf.n
  <2>1. sf \in Frame
    BY <1>2 DEF TypeOK
  <2>2. QED BY <1>4, <2>1 DEF Frame
<1>6. /\ cf' \in Frame /\ clf' \in Frame
      /\ tm' \in [initiated : BOOLEAN, cancelled : BOOLEAN]
      /\ fd' \in Slots \cup {NoFd} /\ connected' \in BOOLEAN
      /\ handles' \in Seq(Coros)
  BY <1>2, <1>4 DEF TypeOK
<1>7. ~Waits(o)' /\ \A op \in Ops : op # o => (Waits(op)' <=> Waits(op))
  BY <1>3, <1>4, <1>5 DEF Waits, Active
<1>8. Frames'
  BY <1>3, <1>4, <1>5 DEF IInv, Core, Frames, Active
<1>9. Waiters'
  BY <1>4 DEF IInv, Core, Waiters, Ready, Leaving
<1>10. AgainFirst'
  <2>1. (Again' <=> Again) /\ (InTurn' <=> InTurn)
    BY <1>4, <1>5 DEF Again, InTurn
  <2>2. QED BY <1>2, <1>4, <2>1 DEF IInv, Flow, AgainFirst, Leaving
<1>11. ConnPlace' /\ \A x : CqPlace(x) => CqPlace(x)'
  BY <1>4, <1>5 DEF IInv, Flow, Places, ConnPlace, CqPlace, Again
<1>12. Table'
  BY <1>4, TableSame DEF IInv, Owner
<1>13. FreeSlotsAreClosed'
  BY <1>4 DEF IInv, Owner, FreeSlotsAreClosed
<1>14. Connected'
  BY <1>4, <1>5 DEF IInv, Owner, Connected, Active
<1>15. QED BY <1>1, <1>4, <1>5, <1>6, <1>7, <1>8, <1>9, <1>10, <1>11, <1>12, <1>13,
           <1>14, ReapRest

\* The connect completes, and its coroutine is collected.
LEMMA ReapConnect ==
    ASSUME IInv, ReapQuiet, ProcessConnect
    PROVE  IInv'
<1>1. PICK o : o = Head(cq).op
  OBVIOUS
<1>2. PICK res : res = Head(cq).res
  OBVIOUS
<1>3. /\ TypeOK /\ Core /\ Waits(o) /\ CqPlace(Head(cq)) /\ Head(cq) \in Cqe
      /\ \A a, b : Precedes(cq, a, b) => Precedes(cq', a, b)
      /\ \A a, b : Precedes(cq, a, b) /\ o = b => OfOp(cq, a) = 0
      /\ OfOp(cq, o) > 0 /\ sq = <<>> /\ work = <<>> /\ ~Leaving /\ ~Dropping
      /\ Fl(o) = 1
  BY <1>1, ReapFacts
<1>4. o = "connect" /\ Active(cf) /\ cf.h # None
  <2>1. o = "connect"
    BY <1>1 DEF ProcessConnect
  <2>2. QED BY <1>3, <2>1 DEF Waits, Core, Frames
<1>5. /\ cf' = [cf EXCEPT !.done = TRUE, !.h = None,
                          !.res = IF res = Ok THEN @ ELSE res]
      /\ connected' = (res = Ok \/ (res = "EISCONN" /\ connected))
      /\ handles' = Append(handles, cf.h)
      /\ UNCHANGED <<sf, clf, tm, fd, fds, others>>
      /\ UNCHANGED <<co, back, file, conn, closedDuring>>
  BY <1>2, <1>4 DEF ProcessConnect, ReapQuiet, Collect
<1>6. /\ sf \in Frame /\ cf \in Frame /\ clf \in Frame /\ res \in Errors \cup {Ok}
      /\ cf.h \in Coros
  <2>1. sf \in Frame /\ cf \in Frame /\ clf \in Frame
    BY <1>3 DEF TypeOK
  <2>2. cf.h \in Coros \cup {None}
    BY <2>1 DEF Frame
  <2>3. QED BY <1>2, <1>3, <1>4, <2>1, <2>2 DEF Cqe
<1>7. /\ cf' \in Frame /\ cf'.initiated = cf.initiated /\ cf'.done /\ cf'.h = None
      /\ cf'.n = cf.n /\ cf'.res = IF res = Ok THEN cf.res ELSE res
  BY <1>5, <1>6 DEF Frame
<1>8. PICK h \in Coros : h = cf.h /\ handles' = Append(handles, h)
  BY <1>5, <1>6
<1>9. /\ handles \in Seq(Coros) /\ handles' \in Seq(Coros)
      /\ \A i \in 1..Len(handles') :
            \/ i \in 1..Len(handles) /\ handles'[i] = handles[i]
            \/ handles'[i] = h
      /\ \A i \in 1..Len(handles) :
            i \in 1..Len(handles') /\ handles'[i] = handles[i]
      /\ \A c : Times(handles', c) = Times(handles, c) + Bit(h = c)
      /\ \A c : Times(handles, c) \in Nat
  <2>1. handles \in Seq(Coros)
    BY <1>3 DEF TypeOK
  <2>2. QED BY <1>8, <2>1, Entries, Laws DEF TimesLaws
<1>10. /\ sf' \in Frame /\ clf' \in Frame
       /\ tm' \in [initiated : BOOLEAN, cancelled : BOOLEAN]
       /\ fd' \in Slots \cup {NoFd} /\ connected' \in BOOLEAN
  BY <1>3, <1>5, <1>6 DEF TypeOK
<1>11. ~Active(sf)
  <2>1. OfOp(cq, "socket") = 0
    BY <1>3, <1>4 DEF IInv, Flow, Order
  <2>2. OfOp(sq, "socket") = 0 /\ OfOp(work, "socket") = 0
    BY <1>3, Laws DEF OpLaws
  <2>3. Fl("socket") = 0
    BY <2>1, <2>2, Sums
  <2>4. QED BY <1>3, <2>3, AtMostOne DEF Ops, Waits
<1>12. conn = NoConn
  <2>1. Fl("connect") \in {0, 1}
    BY <1>3, <1>4
  <2>2. QED BY <1>3, <1>4, <2>1, ConnectPlaces
<1>13. ~Waits(o)' /\ \A op \in Ops : op # o => (Waits(op)' <=> Waits(op))
  BY <1>4, <1>5, <1>7 DEF Waits, Active
<1>14. Frames'
  BY <1>4, <1>5, <1>7, <1>11 DEF IInv, Core, Frames, Active
<1>15. \A c \in Coros : co[c] = "connecting" <=> c = h
  <2>1. co[h] = "connecting"
    BY <1>3, <1>4, <1>8 DEF Core, Waiters
  <2>2. QED BY <1>3, <2>1 DEF Core, Waiters, Busy
<1>16. Waiters'
  <2>1. ~cf.done /\ ~Leaving'
    BY <1>3, <1>4, <1>5 DEF Active, Leaving
  <2>2. \A c \in Coros : Times(handles, c) = Bit(Ready(c))
    BY <1>3 DEF Core, Waiters
  <2>3. ASSUME NEW c \in Coros PROVE Times(handles', c) = Bit(Ready(c)')
    <3>1. CASE c = h
      <4>1. co[c] = "connecting" /\ ~Ready(c) /\ Ready(c)'
        BY <1>5, <1>7, <1>15, <2>1, <3>1 DEF Ready
      <4>2. QED BY <1>9, <2>2, <3>1, <4>1 DEF Bit
    <3>2. CASE c # h
      <4>1. Ready(c)' <=> Ready(c)
        BY <1>5, <1>15, <3>2 DEF Ready
      <4>2. QED BY <1>9, <2>2, <3>2, <4>1 DEF Bit
    <3>3. QED BY <3>1, <3>2
  <2>4. /\ (\A c, d \in Coros : co[c] = co[d] /\ co[c] \in Busy => c = d)'
        /\ clf'.h # None => co'[clf'.h] = "closing"
        /\ cf'.initiated <=> \E c \in Coros : co'[c] = "connecting"
        /\ \A c \in Coros : co'[c] = "closing" => clf'.initiated
    BY <1>3, <1>5, <1>7 DEF Core, Waiters
  <2>5. QED BY <1>7, <2>3, <2>4 DEF Waiters
<1>17. /\ res = "EISCONN" <=> Again
       /\ res = Ok => fd = NoFd \/ clf.initiated \/ file[fd] = "connected"
       /\ Again => connected' = connected
  <2>1. /\ res = "EISCONN" <=> Again
        /\ res = Ok => fd = NoFd \/ clf.initiated \/ file[fd] = "connected"
    BY <1>1, <1>2, <1>3, <1>4 DEF CqPlace
  <2>2. Again => connected' = connected
    BY <1>3, <1>5, <2>1 DEF Ok, TypeOK
  <2>3. QED BY <2>1, <2>2
<1>18. AgainFirst'
  <2>1. Again' <=> Again
    BY <1>5, <1>7 DEF Again
  <2>2. ASSUME Again PROVE InTurn'
    <3>1. InTurn
      BY <1>3, <2>2 DEF IInv, Flow, AgainFirst
    <3>2. SUFFICES ASSUME NEW i \in 1..Len(handles'), co[handles'[i]] = "closing"
                   PROVE  \E j \in 1..Len(handles') :
                             j < i /\ co[handles'[j]] = "connecting"
      BY <1>5 DEF InTurn
    <3>3. i \in 1..Len(handles) /\ handles'[i] = handles[i]
      BY <1>9, <1>15, <3>2
    <3>4. PICK j \in 1..Len(handles) : j < i /\ co[handles[j]] = "connecting"
      BY <3>1, <3>2, <3>3 DEF InTurn
    <3>5. QED BY <1>9, <3>4
  <2>3. QED BY <1>3, <1>5, <1>17, <2>1, <2>2 DEF IInv, Flow, AgainFirst
<1>19. ConnPlace' /\ \A x : CqPlace(x) /\ x.op # o => CqPlace(x)'
  BY <1>4, <1>5, <1>7, <1>12 DEF ConnPlace, CqPlace
<1>20. Table'
  BY <1>5, TableSame DEF IInv, Owner
<1>21. FreeSlotsAreClosed'
  BY <1>5 DEF IInv, Owner, FreeSlotsAreClosed
<1>22. Connected'
  <2>1. Connected
    BY DEF IInv, Owner
  <2>2. connected' /\ fd # NoFd /\ ~clf.initiated => file[fd] = "connected"
    <3>1. CASE res = Ok
      BY <1>17, <3>1
    <3>2. CASE res # Ok
      BY <1>5, <1>17, <2>1, <3>2 DEF Connected, Again
    <3>3. QED BY <3>1, <3>2
  <2>3. cf'.res = Ok => connected'
    BY <1>5, <1>7
  <2>4. QED BY <1>5, <1>7, <2>1, <2>2, <2>3 DEF Connected
<1>23. QED BY <1>1, <1>5, <1>7, <1>9, <1>10, <1>13, <1>14, <1>16, <1>18, <1>19,
           <1>20, <1>21, <1>22, ReapRest

\* The slot is closed and given back, and whoever closes is collected.
LEMMA ReapClose ==
    ASSUME IInv, ReapQuiet, ProcessClose
    PROVE  IInv'
<1>1. PICK o : o = Head(cq).op
  OBVIOUS
<1>2. PICK res : res = Head(cq).res
  OBVIOUS
<1>3. /\ TypeOK /\ Core /\ Waits(o) /\ CqPlace(Head(cq)) /\ Head(cq) \in Cqe
      /\ \A a, b : Precedes(cq, a, b) => Precedes(cq', a, b)
      /\ \A a, b : Precedes(cq, a, b) /\ o = b => OfOp(cq, a) = 0
      /\ sq = <<>> /\ work = <<>> /\ ~Leaving /\ ~Dropping
  BY <1>1, ReapFacts
<1>4. o = "close" /\ Active(clf) /\ clf.h # None
  <2>1. o = "close"
    BY <1>1 DEF ProcessClose
  <2>2. QED BY <1>3, <2>1 DEF Waits, Core, Frames
<1>5. /\ clf' = [clf EXCEPT !.done = TRUE, !.res = res, !.h = None]
      /\ fds' = fds \cup ({fd} \ {NoFd}) /\ fd' = NoFd /\ connected' = FALSE
      /\ handles' = Append(handles, clf.h)
      /\ UNCHANGED <<sf, cf, tm, others>>
      /\ UNCHANGED <<co, back, file, conn, closedDuring>>
  BY <1>2, <1>4 DEF ProcessClose, ReapQuiet, Collect
<1>6. /\ sf \in Frame /\ cf \in Frame /\ clf \in Frame /\ res \in Errors \cup {Ok}
      /\ clf.h \in Coros
  <2>1. sf \in Frame /\ cf \in Frame /\ clf \in Frame
    BY <1>3 DEF TypeOK
  <2>2. clf.h \in Coros \cup {None}
    BY <2>1 DEF Frame
  <2>3. QED BY <1>2, <1>3, <1>4, <2>1, <2>2 DEF Cqe
<1>7. /\ clf' \in Frame /\ clf'.initiated = clf.initiated /\ clf'.done /\ clf'.h = None
  BY <1>5, <1>6 DEF Frame
<1>8. PICK h \in Coros : h = clf.h /\ handles' = Append(handles, h)
  BY <1>5, <1>6
<1>9. /\ handles \in Seq(Coros) /\ handles' \in Seq(Coros)
      /\ \A i \in 1..Len(handles') :
            \/ i \in 1..Len(handles) /\ handles'[i] = handles[i]
            \/ handles'[i] = h
      /\ \A i \in 1..Len(handles) :
            i \in 1..Len(handles') /\ handles'[i] = handles[i]
      /\ \A c : Times(handles', c) = Times(handles, c) + Bit(h = c)
      /\ \A c : Times(handles, c) \in Nat
  <2>1. handles \in Seq(Coros)
    BY <1>3 DEF TypeOK
  <2>2. QED BY <1>8, <2>1, Entries, Laws DEF TimesLaws
<1>10. /\ sf' \in Frame /\ cf' \in Frame
       /\ tm' \in [initiated : BOOLEAN, cancelled : BOOLEAN]
       /\ fd' \in Slots \cup {NoFd} /\ connected' \in BOOLEAN
  BY <1>3, <1>5, <1>6 DEF TypeOK
<1>11. ~Waits(o)' /\ \A op \in Ops : op # o => (Waits(op)' <=> Waits(op))
  BY <1>4, <1>5, <1>7 DEF Waits, Active
<1>12. Frames'
  BY <1>4, <1>5, <1>7 DEF IInv, Core, Frames, Active
<1>13. \A c \in Coros : co[c] = "closing" <=> c = h
  <2>1. co[h] = "closing"
    BY <1>3, <1>4, <1>8 DEF Core, Waiters
  <2>2. QED BY <1>3, <2>1 DEF Core, Waiters, Busy
<1>14. Waiters'
  <2>1. ~clf.done /\ clf.initiated
    BY <1>4 DEF Active
  <2>2. \A c \in Coros : Times(handles, c) = Bit(Ready(c))
    BY <1>3 DEF Core, Waiters
  <2>3. ASSUME NEW c \in Coros PROVE Times(handles', c) = Bit(Ready(c)')
    <3>1. CASE c = h
      <4>1. co[c] = "closing" /\ ~Ready(c) /\ Ready(c)'
        BY <1>5, <1>7, <1>13, <2>1, <3>1 DEF Ready
      <4>2. QED BY <1>9, <2>2, <3>1, <4>1 DEF Bit
    <3>2. CASE c # h
      <4>1. Ready(c)' <=> Ready(c)
        BY <1>5, <1>13, <3>2 DEF Ready
      <4>2. QED BY <1>9, <2>2, <3>2, <4>1 DEF Bit
    <3>3. QED BY <3>1, <3>2
  <2>4. /\ (\A c, d \in Coros : co[c] = co[d] /\ co[c] \in Busy => c = d)'
        /\ cf'.h # None => co'[cf'.h] = "connecting"
        /\ cf'.initiated <=> \E c \in Coros : co'[c] = "connecting"
        /\ \A c \in Coros : co'[c] = "closing" => clf'.initiated
    BY <1>3, <1>5, <1>7, <2>1 DEF Core, Waiters
  <2>5. QED BY <1>7, <2>3, <2>4 DEF Waiters
<1>15. conn.slot = NoFd /\ (fd = NoFd \/ file[fd] = "empty")
  BY <1>1, <1>3, <1>4 DEF CqPlace
<1>16. AgainFirst'
  <2>1. Again' <=> Again
    BY <1>5 DEF Again
  <2>2. ASSUME Again PROVE InTurn'
    <3>1. InTurn /\ Precedes(cq, "connect", "close")
      BY <1>3, <2>2 DEF IInv, Flow, AgainFirst
    <3>2. Fl("connect") = 0
      <4>1. OfOp(cq, "connect") = 0
        BY <1>3, <1>4, <3>1
      <4>2. \A op : OfOp(sq, op) = 0 /\ OfOp(work, op) = 0
        BY <1>3, Laws DEF OpLaws
      <4>3. Bit(conn # NoConn) = 0
        BY <2>2 DEF IInv, Flow, Places, ConnPlace, Again, Bit
      <4>4. QED BY <4>1, <4>2, <4>3, Sums
    <3>3. cf.initiated /\ cf.done
      BY <1>3, <2>2, <3>2, AtMostOne DEF Ops, Waits, Active, Again
    <3>4. PICK c \in Coros : co[c] = "connecting"
      BY <1>3, <3>3 DEF Core, Waiters
    <3>5. Times(handles, c) # 0
      <4>1. Ready(c)
        BY <3>3, <3>4 DEF Ready
      <4>2. QED BY <1>3, <4>1 DEF Core, Waiters, Bit
    <3>6. PICK k \in 1..Len(handles) : handles[k] = c
      BY <1>9, <3>5, Laws DEF TimesLaws
    <3>7. SUFFICES ASSUME NEW i \in 1..Len(handles'), co[handles'[i]] = "closing"
                   PROVE  \E j \in 1..Len(handles') :
                             j < i /\ co[handles'[j]] = "connecting"
      BY <1>5 DEF InTurn
    <3>8. CASE i \in 1..Len(handles)
      <4>1. PICK j \in 1..Len(handles) : j < i /\ co[handles[j]] = "connecting"
        BY <1>9, <3>1, <3>7, <3>8 DEF InTurn
      <4>2. QED BY <1>9, <4>1
    <3>9. CASE i \notin 1..Len(handles)
      <4>1. k \in 1..Len(handles') /\ k < i /\ handles'[k] = c
        BY <1>9, <3>6, <3>7, <3>9
      <4>2. QED BY <3>4, <4>1
    <3>10. QED BY <3>8, <3>9
  <2>3. clf'.initiated
    BY <1>4, <1>7 DEF Active
  <2>4. QED BY <1>3, <2>1, <2>2, <2>3 DEF IInv, Flow, AgainFirst
<1>17. ConnPlace' /\ \A x : CqPlace(x) /\ x.op # o => CqPlace(x)'
  <2>1. ConnPlace'
    BY <1>5, <1>15 DEF IInv, Flow, Places, ConnPlace
  <2>2. \A x : CqPlace(x) => CqPlace(x)'
    BY <1>5, <1>15 DEF CqPlace, Again
  <2>3. QED BY <2>1, <2>2
<1>18. Table'
  BY <1>5, GivenBack DEF IInv, Owner
<1>19. FreeSlotsAreClosed'
  BY <1>5, <1>15 DEF IInv, Owner, FreeSlotsAreClosed
<1>20. Connected'
  <2>1. cf.initiated => closedDuring
    BY <1>4 DEF IInv, Owner, Connected, Active
  <2>2. cf.done => cf.initiated
    BY <1>3 DEF Core, Frames
  <2>3. QED BY <1>5, <2>1, <2>2 DEF Connected
<1>21. QED BY <1>1, <1>5, <1>7, <1>9, <1>10, <1>11, <1>12, <1>14, <1>16, <1>17,
           <1>18, <1>19, <1>20, ReapRest

\* A completion is processed.
LEMMA ReapIInv ==
    ASSUME IInv, Reap
    PROVE  IInv'
<1>1. ReapQuiet
  BY DEF Reap, ReapQuiet, histVars
<1>2. QED BY <1>1, ReapTimer, ReapSocket, ReapConnect, ReapClose DEF Reap

-----------------------------------------------------------------------------
(* The coroutines start operations, return from them and go.               *)

\* Before and after a step of a coroutine.
LEMMA UserFacts ==
    ASSUME IInv, pc = "user"
    PROVE  /\ TypeOK /\ Core /\ work = <<>> /\ ~Leaving /\ ~Dropping
           /\ \A op \in Ops : Fl(op) \in {0, 1} /\ (Fl(op) = 1 <=> Waits(op))
<1>1. TypeOK /\ Core /\ work = <<>> /\ ~Leaving /\ ~Dropping
  BY DEF IInv, Core, Control, Dropping
<1>2. QED BY <1>1, AtMostOne

\* What a step of a coroutine has to keep.
LEMMA UserRest ==
    ASSUME IInv, pc = "user", UNCHANGED <<work, file, conn, armed, cq, others>>,
           (pc' = pc /\ back' = back) \/ (pc' = "submit" /\ back' = "user"),
           sf' \in Frame, cf' \in Frame, clf' \in Frame,
           tm' \in [initiated : BOOLEAN, cancelled : BOOLEAN], refs' \in Nat,
           fd' \in Slots \cup {NoFd}, connected' \in BOOLEAN, fds' \subseteq fds,
           co' \in [Coros -> {"idle", "connecting", "closing", "gone"}],
           handles' \in Seq(Coros), sq' \in Seq(Sqe),
           connects' \in 0..MaxConnects, closedDuring' \in BOOLEAN,
           Exact', Frames', Flight', Waiters', Order', AgainFirst',
           (\A i \in 1..Len(sq) : SqPlace(sq[i]))', ConnPlace',
           (\A i \in 1..Len(cq) : CqPlace(cq[i]))', Table', Connected', Leave'
    PROVE  IInv'
<1>1. TypeOK /\ Control /\ work = <<>> /\ ~Leaving
  BY UserFacts DEF Core
<1>2. TypeOK'
  BY <1>1 DEF TypeOK, Table
<1>3. Control'
  BY <1>1 DEF Control, Leaving
<1>4. Places'
  BY <1>1 DEF Places
<1>5. FreeSlotsAreClosed' /\ End'
  BY <1>1 DEF IInv, Owner, FreeSlotsAreClosed, End
<1>6. QED BY <1>2, <1>3, <1>4, <1>5 DEF IInv, Core, Flow, Owner

\* A step that starts an operation counts its references.
LEMMA StartExact ==
    ASSUME TypeOK, Exact, Pop(co', Coros, Alive) = Pop(co, Coros, Alive),
           Pop(co', Coros, Busy) = Pop(co, Coros, Busy) + 1,
           NEW x \in Nat, NEW y \in Nat, NEW z \in Nat,
           Fl("timer")' = Fl("timer"), Fl("socket")' = Fl("socket") + x,
           Fl("connect")' = Fl("connect") + y, Fl("close")' = Fl("close") + z,
           refs' = refs + (((1 + x) + y) + z)
    PROVE  Exact' /\ refs' \in Nat
<1> DEFINE a == Pop(co, Coros, Alive)
           b == Pop(co, Coros, Busy)
           c == Fl("timer")
           d == Fl("socket")
           e == Fl("connect")
           f == Fl("close")
<1>1. a \in Nat /\ b \in Nat /\ c \in Nat /\ d \in Nat /\ e \in Nat /\ f \in Nat
  BY Numbers
<1>2. refs = (a + b) + (((c + d) + e) + f)
  BY DEF Exact
<1>3. Exact' <=> refs' = (a + (b + 1)) + (((c + (d + x)) + (e + y)) + (f + z))
  BY DEF Exact
<1> HIDE DEF a, b, c, d, e, f
<1>4. /\ refs' = (a + (b + 1)) + (((c + (d + x)) + (e + y)) + (f + z))
      /\ refs' \in Nat
  BY <1>1, <1>2
<1>5. QED BY <1>3, <1>4

\* So does one that gives references back.
LEMMA GoExact ==
    ASSUME TypeOK, Exact, NEW x \in Nat, NEW y \in Nat,
           Pop(co', Coros, Alive) + x = Pop(co, Coros, Alive),
           Pop(co', Coros, Busy) + y = Pop(co, Coros, Busy),
           Fl("timer")' = Fl("timer"), Fl("socket")' = Fl("socket"),
           Fl("connect")' = Fl("connect"), Fl("close")' = Fl("close"),
           refs' = refs - (x + y)
    PROVE  Exact' /\ refs' \in Nat
<1> DEFINE a == Pop(co, Coros, Alive)
           b == Pop(co, Coros, Busy)
           aa == Pop(co', Coros, Alive)
           bb == Pop(co', Coros, Busy)
           c == Fl("timer")
           d == Fl("socket")
           e == Fl("connect")
           f == Fl("close")
<1>1. /\ aa \in Nat /\ bb \in Nat /\ c \in Nat /\ d \in Nat /\ e \in Nat /\ f \in Nat
      /\ a = aa + x /\ b = bb + y
  BY Numbers
<1>2. refs = (a + b) + (((c + d) + e) + f)
  BY DEF Exact
<1>3. Exact' <=> refs' = (aa + bb) + (((c + d) + e) + f)
  BY DEF Exact
<1> HIDE DEF a, b, aa, bb, c, d, e, f
<1>4. refs' = (aa + bb) + (((c + d) + e) + f) /\ refs' \in Nat
  BY <1>1, <1>2
<1>5. QED BY <1>3, <1>4

\* An operation is queued.
LEMMA QueueFacts ==
    ASSUME TypeOK, NEW e \in Sqe, sq' = Append(sq, e)
    PROVE  /\ sq' \in Seq(Sqe)
           /\ OfOp(sq', e.op) = OfOp(sq, e.op) + 1
           /\ \A op : op # e.op => OfOp(sq', op) = OfOp(sq, op)
           /\ \A i \in 1..Len(sq') :
                 (i \in 1..Len(sq) /\ sq'[i] = sq[i]) \/ sq'[i] = e
           /\ \A a, b : a # b /\ Precedes(sq, a, b) /\ (e.op = a => OfOp(sq, b) = 0)
                 => Precedes(sq', a, b)
<1>1. sq \in Seq(Sqe)
  BY DEF TypeOK
<1>2. /\ sq' \in Seq(Sqe)
      /\ \A i \in 1..Len(sq') :
            (i \in 1..Len(sq) /\ sq'[i] = sq[i]) \/ sq'[i] = e
  BY <1>1, Entries
<1>3. /\ OfOp(sq', e.op) = OfOp(sq, e.op) + 1
      /\ \A op : op # e.op => OfOp(sq', op) = OfOp(sq, op)
  <2>1. \A op : OfOp(sq', op) = OfOp(sq, op) + Bit(e.op = op) /\ OfOp(sq, op) \in Nat
    BY <1>1, Laws DEF OpLaws
  <2>2. QED BY <2>1 DEF Bit
<1>4. \A a, b : a # b /\ Precedes(sq, a, b) /\ (e.op = a => OfOp(sq, b) = 0)
                 => Precedes(sq', a, b)
  BY <1>1, Laws DEF OrderLaws
<1>5. QED BY <1>2, <1>3, <1>4

\* Nothing of a connect is in flight.
LEMMA NoConnect ==
    ASSUME IInv, ~Dropping, ~Active(cf)
    PROVE  /\ OfOp(sq, "connect") = 0 /\ OfOp(sq, "socket") = 0
           /\ OfOp(cq, "connect") = 0 /\ OfOp(cq, "socket") = 0
           /\ conn = NoConn /\ Fl("connect") = 0 /\ Fl("socket") = 0
           /\ \A i \in 1..Len(sq) : sq[i].op \notin {"connect", "socket"}
           /\ \A i \in 1..Len(cq) : cq[i].op \notin {"connect", "socket"}
<1>1. TypeOK /\ Core
  BY DEF IInv, Core
<1>2. \A op \in Ops : Fl(op) \in {0, 1} /\ (Fl(op) = 1 <=> Waits(op))
  BY <1>1, AtMostOne
<1>3. ~Active(sf)
  BY <1>1 DEF Core, Frames
<1>4. Fl("connect") = 0 /\ Fl("socket") = 0
  BY <1>2, <1>3 DEF Ops, Waits
<1>5. /\ OfOp(sq, "connect") = 0 /\ OfOp(sq, "socket") = 0
      /\ OfOp(cq, "connect") = 0 /\ conn = NoConn
  BY <1>1, <1>4, ConnectPlaces
<1>6. OfOp(cq, "socket") = 0
  BY <1>1, <1>4, OtherPlaces
<1>7. QED BY <1>1, <1>4, <1>5, <1>6, Absent

\* Nothing of a close is in flight.
LEMMA NoClose ==
    ASSUME IInv, ~Dropping, ~Active(clf)
    PROVE  /\ OfOp(sq, "close") = 0 /\ OfOp(work, "close") = 0 /\ OfOp(cq, "close") = 0
           /\ Fl("close") = 0
           /\ \A i \in 1..Len(sq) : sq[i].op # "close"
           /\ \A i \in 1..Len(cq) : cq[i].op # "close"
<1>1. TypeOK /\ Core
  BY DEF IInv, Core
<1>2. Fl("close") = 0
  BY <1>1, AtMostOne DEF Ops, Waits
<1>3. OfOp(sq, "close") = 0 /\ OfOp(work, "close") = 0 /\ OfOp(cq, "close") = 0
  BY <1>1, <1>2, OtherPlaces
<1>4. QED BY <1>1, <1>2, <1>3, Absent

\* The frame of an operation that starts.
LEMMA StartedFacts ==
    ASSUME TypeOK, NEW f \in Frame, NEW c \in Coros, connects < MaxConnects
    PROVE  /\ Started(f, c) \in Frame /\ Started(f, c).h = c
           /\ Started(f, c).initiated /\ Started(f, c).n = connects + 1
           /\ Started(f, c).done = f.done /\ Started(f, c).res = f.res
<1>1. connects + 1 \in 0..MaxConnects
  BY Zero DEF TypeOK
<1>2. QED BY <1>1 DEF Started, Frame

\* What both ways to connect have in common.  await_ready has seen to it that no
\* connect with a socket is under way, and the client is not connecting again.
LEMMA BeginFacts ==
    ASSUME IInv, Uses = {}, NEW c \in Coros, BeginConnect(c),
           fd = NoFd \/ ~connected \/ ~cf.initiated
    PROVE  /\ ~cf.initiated /\ ~cf.done /\ cf.res = Ok
           /\ ~sf.initiated /\ ~sf.done /\ sf.res = Ok
           /\ ~clf.initiated /\ ~clf.done /\ clf.h = None
           /\ cf' \in Frame /\ cf'.h = c /\ cf'.initiated /\ ~cf'.done
           /\ cf'.res = Ok /\ cf'.n = connects + 1 /\ connects + 1 > 0
           /\ connects < MaxConnects
           /\ connects' = connects + 1 /\ connects' \in 0..MaxConnects
           /\ closedDuring' = FALSE
           /\ co' \in [Coros -> {"idle", "connecting", "closing", "gone"}]
           /\ co'[c] = "connecting"
           /\ \A d \in Coros : co[d] \notin Busy
           /\ \A d \in Coros : d # c => co'[d] = co[d]
           /\ Pop(co', Coros, Alive) = Pop(co, Coros, Alive)
           /\ Pop(co', Coros, Busy) = Pop(co, Coros, Busy) + 1
           /\ UNCHANGED <<clf, tm, connected, others, handles, pc, back, work, file,
                          conn, armed, cq>>
           /\ Waiters' /\ Leave'
           /\ pc = "user"
<1>1. /\ pc = "user" /\ co[c] = "idle" /\ connects < MaxConnects
      /\ ~clf.initiated /\ ~sf.initiated /\ connects' = connects + 1
      /\ closedDuring' = clf.initiated /\ cf' = Started(cf, c)
      /\ co' = [co EXCEPT ![c] = "connecting"]
      /\ UNCHANGED <<clf, tm, connected, others, handles, pc, back, work, file,
                     conn, armed, cq>>
  BY DEF BeginConnect
<1>2. TypeOK /\ Core /\ ~Leaving /\ ~Dropping
  BY <1>1, UserFacts
<1>3. ~cf.initiated
  BY <1>1, <1>2 DEF IInv, Flow, AgainFirst, Again
<1>4. /\ ~cf.done /\ cf.res = Ok /\ ~sf.done /\ sf.res = Ok /\ ~clf.done
      /\ clf.h = None
  BY <1>1, <1>2, <1>3 DEF Core, Frames, Active
<1>5. cf \in Frame /\ clf \in Frame
  BY <1>2 DEF TypeOK
<1>6. /\ cf' \in Frame /\ cf'.h = c /\ cf'.initiated /\ ~cf'.done
      /\ cf'.res = Ok /\ cf'.n = connects + 1
  BY <1>1, <1>2, <1>4, <1>5, StartedFacts
<1>7. connects' \in 0..MaxConnects /\ connects + 1 > 0 /\ closedDuring' = FALSE
  <2>1. clf.initiated \in BOOLEAN
    BY <1>5 DEF Frame
  <2>2. connects \in Nat /\ connects' \in 0..MaxConnects
    BY <1>1, <1>2, Zero DEF TypeOK
  <2>3. QED BY <1>1, <2>1, <2>2
<1>8. /\ co' \in [Coros -> {"idle", "connecting", "closing", "gone"}]
      /\ co'[c] = "connecting" /\ \A d \in Coros : d # c => co'[d] = co[d]
  BY <1>1, <1>2 DEF TypeOK
<1>9. \A d \in Coros : co[d] \notin Busy
  BY <1>1, <1>2, <1>3 DEF Core, Waiters, Busy
<1>10. /\ Pop(co', Coros, Alive) = Pop(co, Coros, Alive)
       /\ Pop(co', Coros, Busy) = Pop(co, Coros, Busy) + 1
  <2>1. /\ Pop(co', Coros, Alive) + Bit(co[c] \in Alive)
             = Pop(co, Coros, Alive) + Bit(co'[c] \in Alive)
        /\ Pop(co', Coros, Busy) + Bit(co[c] \in Busy)
             = Pop(co, Coros, Busy) + Bit(co'[c] \in Busy)
    BY <1>8, OneMoves
  <2>2. /\ Bit(co[c] \in Alive) = 1 /\ Bit(co'[c] \in Alive) = 1
        /\ Bit(co[c] \in Busy) = 0 /\ Bit(co'[c] \in Busy) = 1
    BY <1>1, <1>8 DEF Alive, Busy, Bit
  <2>3. \A f, S : Pop(f, Coros, S) \in Nat
    BY Laws
  <2>4. QED BY <2>1, <2>2, <2>3
<1>11. Waiters'
  <2>1. \A d \in Coros : (Ready(d)' <=> FALSE) /\ (Ready(d) <=> FALSE)
    BY <1>1, <1>4, <1>6, <1>8, <1>9 DEF Ready, Busy
  <2>2. \A d \in Coros : Times(handles', d) = Bit(Ready(d)')
    BY <1>1, <1>2, <2>1 DEF Core, Waiters, Bit
  <2>3. (\A d, e \in Coros : co[d] = co[e] /\ co[d] \in Busy => d = e)'
    BY <1>8, <1>9 DEF Busy
  <2>4. cf'.initiated <=> \E d \in Coros : co'[d] = "connecting"
    BY <1>6, <1>8
  <2>5. \A d \in Coros : co'[d] # "closing"
    BY <1>8, <1>9 DEF Busy
  <2>6. QED BY <1>1, <1>4, <1>6, <1>8, <2>2, <2>3, <2>4, <2>5 DEF Waiters
<1>12. Leave'
  BY <1>8 DEF Leave, AllGone
<1>13. QED BY <1>1, <1>3, <1>4, <1>6, <1>7, <1>8, <1>9, <1>10, <1>11, <1>12

\* A connected client connects again.
LEMMA ConnectAgainIInv ==
    ASSUME IInv, Uses = {}, NEW c \in Coros, ConnectAgain(c)
    PROVE  IInv'
<1>1. /\ fd # NoFd /\ connected /\ ~cf.initiated /\ BeginConnect(c)
      /\ sq' = Append(sq, Op("connect", fd, connects'))
      /\ refs' = refs + 2 /\ UNCHANGED <<sf, fd, fds>>
  BY DEF ConnectAgain
<1>2. /\ ~cf.initiated /\ ~cf.done /\ ~sf.initiated /\ ~sf.done /\ sf.res = Ok
      /\ ~clf.initiated /\ ~clf.done /\ clf.h = None
      /\ cf' \in Frame /\ cf'.h = c /\ cf'.initiated /\ ~cf'.done
      /\ cf'.res = Ok /\ cf'.n = connects + 1 /\ connects + 1 > 0
      /\ connects' = connects + 1 /\ connects' \in 0..MaxConnects
      /\ closedDuring' = FALSE
      /\ co' \in [Coros -> {"idle", "connecting", "closing", "gone"}]
      /\ co'[c] = "connecting"
      /\ \A d \in Coros : co[d] \notin Busy
      /\ \A d \in Coros : d # c => co'[d] = co[d]
      /\ Pop(co', Coros, Alive) = Pop(co, Coros, Alive)
      /\ Pop(co', Coros, Busy) = Pop(co, Coros, Busy) + 1
      /\ UNCHANGED <<clf, tm, connected, others, handles, pc, back, work, file,
                     conn, armed, cq>>
      /\ Waiters' /\ Leave' /\ pc = "user"
  BY <1>1, BeginFacts
<1>3. TypeOK /\ Core /\ ~Leaving /\ ~Dropping
  BY <1>2, UserFacts
<1>4. PICK e : e = Op("connect", fd, connects')
  OBVIOUS
<1>5. /\ e \in Sqe /\ e.op = "connect" /\ e.slot = fd /\ e.n = connects'
      /\ sq' = Append(sq, e)
  <2>1. fd \in Slots \cup {NoFd}
    BY <1>3 DEF TypeOK
  <2>2. QED BY <1>1, <1>2, <1>4, <2>1 DEF Op, Sqe
<1>6. /\ sq' \in Seq(Sqe)
      /\ OfOp(sq', e.op) = OfOp(sq, e.op) + 1
      /\ \A op : op # e.op => OfOp(sq', op) = OfOp(sq, op)
      /\ \A i \in 1..Len(sq') : (i \in 1..Len(sq) /\ sq'[i] = sq[i]) \/ sq'[i] = e
      /\ \A a, b : a # b /\ Precedes(sq, a, b) /\ (e.op = a => OfOp(sq, b) = 0)
            => Precedes(sq', a, b)
  BY <1>3, <1>5, QueueFacts
<1>7. /\ OfOp(sq, "connect") = 0 /\ OfOp(sq, "socket") = 0
      /\ OfOp(cq, "connect") = 0 /\ OfOp(cq, "socket") = 0
      /\ conn = NoConn /\ Fl("connect") = 0 /\ Fl("socket") = 0
      /\ \A i \in 1..Len(sq) : sq[i].op \notin {"connect", "socket"}
      /\ \A i \in 1..Len(cq) : cq[i].op \notin {"connect", "socket"}
  BY <1>2, <1>3, NoConnect DEF Active
<1>8. /\ OfOp(sq, "close") = 0 /\ OfOp(work, "close") = 0 /\ OfOp(cq, "close") = 0
      /\ Fl("close") = 0
      /\ \A i \in 1..Len(sq) : sq[i].op # "close"
      /\ \A i \in 1..Len(cq) : cq[i].op # "close"
  BY <1>2, <1>3, NoClose DEF Active
<1>9. /\ Fl("timer")' = Fl("timer") /\ Fl("socket")' = Fl("socket") + 0
      /\ Fl("connect")' = Fl("connect") + 1 /\ Fl("close")' = Fl("close") + 0
  <2>1. \A op : OfOp(sq', op) = OfOp(sq, op) + Bit(op = "connect")
    <3>1. \A op : OfOp(sq, op) \in Nat
      BY <1>3, Numbers
    <3>2. QED BY <1>5, <1>6, <3>1 DEF Bit
  <2>2. \A op : Bit(Held(op))' = Bit(Held(op))
    BY <1>2 DEF Held
  <2>3. /\ OfOp(sq', "timer") = OfOp(sq, "timer")
        /\ OfOp(sq', "socket") = OfOp(sq, "socket")
        /\ OfOp(sq', "close") = OfOp(sq, "close")
    BY <1>5, <1>6
  <2>4. Fl("timer")' = Fl("timer")
    BY <1>2, <2>2, <2>3 DEF Fl
  <2>5. Fl("socket")' = Fl("socket")
    BY <1>2, <2>2, <2>3 DEF Fl
  <2>6. Fl("close")' = Fl("close")
    BY <1>2, <2>2, <2>3 DEF Fl
  <2>7. Fl("connect")' = 1
    <3>1. /\ OfOp(sq', "connect") = 1 /\ OfOp(sq', "socket") = 0
          /\ OfOp(work', "connect") = 0 /\ OfOp(cq', "connect") = 0
      BY <1>2, <1>3, <1>5, <1>6, <1>7, ConnectPlaces
    <3>2. Bit(Held("connect"))' = 0
      BY <1>7, <2>2 DEF Held, Bit
    <3>3. QED BY <3>1, <3>2 DEF Fl
  <2>8. QED BY <1>7, <1>8, <2>4, <2>5, <2>6, <2>7
<1>10. Exact' /\ refs' \in Nat
  <2>1. TypeOK /\ Exact /\ refs' = refs + (((1 + 0) + 1) + 0)
    BY <1>1, <1>3 DEF Core
  <2>2. QED BY <1>2, <1>9, <2>1, StartExact
<1>11. Flight'
  <2>1. /\ Waits("connect")' /\ (Waits("socket")' <=> FALSE)
        /\ (Waits("close")' <=> FALSE) /\ (Waits("timer")' <=> Waits("timer"))
    BY <1>1, <1>2 DEF Waits, Active
  <2>2. Fl("timer") = Bit(Waits("timer"))
    BY <1>3 DEF Core, Flight, Ops
  <2>3. QED BY <1>7, <1>8, <1>9, <2>1, <2>2 DEF Flight, Ops, Bit
<1>12. Frames'
  BY <1>1, <1>2, ClientAssumption DEF Frames, Active
<1>13. Order'
  <2>1. /\ Precedes(sq', "timer", "removeTimer") /\ Precedes(sq', "socket", "close")
        /\ Precedes(sq', "connect", "close")
    BY <1>5, <1>6, <1>8 DEF IInv, Flow, Order
  <2>2. QED BY <1>2, <1>8, <2>1 DEF IInv, Flow, Order
<1>14. AgainFirst'
  <2>1. InTurn'
    <3>1. handles \in Seq(Coros) /\ UNCHANGED handles
      BY <1>2, <1>3 DEF TypeOK
    <3>2. \A d \in Coros : co'[d] # "closing"
      BY <1>2 DEF Busy
    <3>3. QED BY <3>1, <3>2 DEF InTurn
  <2>2. Precedes(cq', "connect", "close")
    BY <1>2, <1>3, <1>7, Laws DEF OrderLaws, TypeOK
  <2>3. QED BY <1>1, <1>2, <2>1, <2>2 DEF AgainFirst
<1>15. file[fd] = "connected"
  BY <1>1, <1>2 DEF IInv, Owner, Connected, Active
<1>16. (\A i \in 1..Len(sq) : SqPlace(sq[i]))'
  <2>1. SqPlace(e)'
    BY <1>1, <1>2, <1>5, <1>15 DEF SqPlace, Again
  <2>2. \A x : x.op \notin {"connect", "socket", "close"} => SqPlace(x)'
    BY DEF SqPlace
  <2>3. QED BY <1>6, <1>7, <1>8, <2>1, <2>2
<1>17. ConnPlace'
  BY <1>2, <1>7 DEF ConnPlace
<1>18. (\A i \in 1..Len(cq) : CqPlace(cq[i]))'
  <2>1. \A x : x.op \notin {"connect", "socket", "close"} => CqPlace(x)'
    BY DEF CqPlace
  <2>2. QED BY <1>2, <1>7, <1>8, <2>1
<1>19. Table'
  BY <1>1, <1>2, TableSame DEF IInv, Owner
<1>20. Connected'
  BY <1>1, <1>2, <1>15 DEF Connected, Active
<1>21. /\ sf' \in Frame /\ clf' \in Frame
       /\ tm' \in [initiated : BOOLEAN, cancelled : BOOLEAN]
       /\ fd' \in Slots \cup {NoFd} /\ connected' \in BOOLEAN /\ handles' \in Seq(Coros)
  BY <1>1, <1>2, <1>3 DEF TypeOK
<1>22. QED BY <1>1, <1>2, <1>6, <1>10, <1>11, <1>12, <1>13, <1>14, <1>16, <1>17,
           <1>18, <1>19, <1>20, <1>21, UserRest

\* A slot is taken, unless an earlier connect left one, and the chain is queued.
LEMMA AsyncConnectIInv ==
    ASSUME IInv, Uses = {}, NEW c \in Coros, AsyncConnect(c)
    PROVE  IInv'
<1>1. PICK s \in IF fd = NoFd THEN fds ELSE {fd} :
         /\ fd' = s /\ fds' = fds \ {s} /\ BeginConnect(c)
         /\ sq' = Append(sq, Op("socket", s, connects'))
  BY DEF AsyncConnect
<1>2. /\ fd = NoFd \/ ~connected
      /\ sf' = Started(sf, c) /\ refs' = refs + 3
  BY DEF AsyncConnect
<1>3. /\ ~cf.initiated /\ ~cf.done /\ ~sf.initiated /\ ~sf.done /\ sf.res = Ok
      /\ ~clf.initiated /\ ~clf.done /\ clf.h = None
      /\ cf' \in Frame /\ cf'.h = c /\ cf'.initiated /\ ~cf'.done
      /\ cf'.res = Ok /\ cf'.n = connects + 1 /\ connects + 1 > 0
      /\ connects < MaxConnects
      /\ connects' = connects + 1 /\ connects' \in 0..MaxConnects
      /\ closedDuring' = FALSE
      /\ co' \in [Coros -> {"idle", "connecting", "closing", "gone"}]
      /\ co'[c] = "connecting"
      /\ \A d \in Coros : co[d] \notin Busy
      /\ \A d \in Coros : d # c => co'[d] = co[d]
      /\ Pop(co', Coros, Alive) = Pop(co, Coros, Alive)
      /\ Pop(co', Coros, Busy) = Pop(co, Coros, Busy) + 1
      /\ UNCHANGED <<clf, tm, connected, others, handles, pc, back, work, file,
                     conn, armed, cq>>
      /\ Waiters' /\ Leave' /\ pc = "user"
  BY <1>1, <1>2, BeginFacts
<1>4. TypeOK /\ Core /\ ~Leaving /\ ~Dropping
  BY <1>3, UserFacts
<1>5. s \in Slots /\ s # NoFd
  BY <1>1, <1>4, ClientAssumption DEF TypeOK
<1>6. PICK e : e = Op("socket", s, connects')
  OBVIOUS
<1>7. /\ e \in Sqe /\ e.op = "socket" /\ e.slot = s /\ e.n = connects'
      /\ sq' = Append(sq, e)
  BY <1>1, <1>3, <1>5, <1>6 DEF Op, Sqe
<1>8. /\ sf' \in Frame /\ sf'.initiated /\ ~sf'.done /\ sf'.res = Ok
      /\ sf'.n = connects + 1
  <2>1. sf \in Frame
    BY <1>4 DEF TypeOK
  <2>2. QED BY <1>2, <1>3, <1>4, <2>1, StartedFacts
<1>9. /\ sq' \in Seq(Sqe)
      /\ OfOp(sq', e.op) = OfOp(sq, e.op) + 1
      /\ \A op : op # e.op => OfOp(sq', op) = OfOp(sq, op)
      /\ \A i \in 1..Len(sq') : (i \in 1..Len(sq) /\ sq'[i] = sq[i]) \/ sq'[i] = e
      /\ \A a, b : a # b /\ Precedes(sq, a, b) /\ (e.op = a => OfOp(sq, b) = 0)
            => Precedes(sq', a, b)
  BY <1>4, <1>7, QueueFacts
<1>10. /\ OfOp(sq, "connect") = 0 /\ OfOp(sq, "socket") = 0
       /\ OfOp(cq, "connect") = 0 /\ OfOp(cq, "socket") = 0
       /\ conn = NoConn /\ Fl("connect") = 0 /\ Fl("socket") = 0
       /\ \A i \in 1..Len(sq) : sq[i].op \notin {"connect", "socket"}
       /\ \A i \in 1..Len(cq) : cq[i].op \notin {"connect", "socket"}
  BY <1>3, <1>4, NoConnect DEF Active
<1>11. /\ OfOp(sq, "close") = 0 /\ OfOp(work, "close") = 0 /\ OfOp(cq, "close") = 0
       /\ Fl("close") = 0
       /\ \A i \in 1..Len(sq) : sq[i].op # "close"
       /\ \A i \in 1..Len(cq) : cq[i].op # "close"
  BY <1>3, <1>4, NoClose DEF Active
<1>12. /\ Fl("timer")' = Fl("timer") /\ Fl("socket")' = Fl("socket") + 1
       /\ Fl("connect")' = Fl("connect") + 1 /\ Fl("close")' = Fl("close") + 0
  <2>1. \A op : Bit(Held(op))' = Bit(Held(op))
    BY <1>3 DEF Held
  <2>2. /\ OfOp(sq', "timer") = OfOp(sq, "timer")
        /\ OfOp(sq', "close") = OfOp(sq, "close")
        /\ OfOp(sq', "connect") = 0 /\ OfOp(sq', "socket") = 1
    BY <1>7, <1>9, <1>10
  <2>3. Fl("timer")' = Fl("timer")
    BY <1>3, <2>1, <2>2 DEF Fl
  <2>4. Fl("close")' = Fl("close")
    BY <1>3, <2>1, <2>2 DEF Fl
  <2>5. Fl("connect")' = 1
    <3>1. OfOp(work', "connect") = 0 /\ OfOp(cq', "connect") = 0
      BY <1>3, <1>4, <1>10, ConnectPlaces
    <3>2. Bit(Held("connect"))' = 0
      BY <1>10, <2>1 DEF Held, Bit
    <3>3. QED BY <2>2, <3>1, <3>2 DEF Fl
  <2>6. Fl("socket")' = 1
    <3>1. OfOp(work', "socket") = 0 /\ OfOp(cq', "socket") = 0
      BY <1>3, <1>4, <1>10, OtherPlaces
    <3>2. Bit(Held("socket"))' = 0
      BY DEF Held, Bit
    <3>3. QED BY <2>2, <3>1, <3>2 DEF Fl
  <2>7. QED BY <1>10, <1>11, <2>3, <2>4, <2>5, <2>6
<1>13. Exact' /\ refs' \in Nat
  <2>1. TypeOK /\ Exact /\ refs' = refs + (((1 + 1) + 1) + 0)
    BY <1>2, <1>4 DEF Core
  <2>2. QED BY <1>3, <1>12, <2>1, StartExact
<1>14. Flight'
  <2>1. /\ Waits("connect")' /\ Waits("socket")'
        /\ (Waits("close")' <=> FALSE) /\ (Waits("timer")' <=> Waits("timer"))
    BY <1>3, <1>8 DEF Waits, Active
  <2>2. Fl("timer") = Bit(Waits("timer"))
    BY <1>4 DEF Core, Flight, Ops
  <2>3. QED BY <1>10, <1>11, <1>12, <2>1, <2>2 DEF Flight, Ops, Bit
<1>15. Frames'
  BY <1>3, <1>8, ClientAssumption DEF Frames, Active
<1>16. Order'
  <2>1. /\ Precedes(sq', "timer", "removeTimer") /\ Precedes(sq', "socket", "close")
        /\ Precedes(sq', "connect", "close")
    BY <1>7, <1>9, <1>11 DEF IInv, Flow, Order
  <2>2. QED BY <1>3, <1>11, <2>1 DEF IInv, Flow, Order
<1>17. AgainFirst'
  BY <1>8 DEF AgainFirst, Again
<1>18. (\A i \in 1..Len(sq) : SqPlace(sq[i]))'
  <2>1. SqPlace(e)'
    BY <1>1, <1>3, <1>5, <1>7, <1>8 DEF SqPlace
  <2>2. \A x : x.op \notin {"connect", "socket", "close"} => SqPlace(x)'
    BY DEF SqPlace
  <2>3. QED BY <1>9, <1>10, <1>11, <2>1, <2>2
<1>19. ConnPlace'
  BY <1>3, <1>10 DEF ConnPlace
<1>20. (\A i \in 1..Len(cq) : CqPlace(cq[i]))'
  <2>1. \A x : x.op \notin {"connect", "socket", "close"} => CqPlace(x)'
    BY DEF CqPlace
  <2>2. QED BY <1>3, <1>10, <1>11, <2>1
<1>21. Table'
  BY ConnectTable DEF IInv, Owner
<1>22. Connected'
  BY <1>1, <1>3, <1>5, <1>8 DEF Connected, Active
<1>23. /\ clf' \in Frame /\ tm' \in [initiated : BOOLEAN, cancelled : BOOLEAN]
       /\ fd' \in Slots \cup {NoFd} /\ connected' \in BOOLEAN /\ handles' \in Seq(Coros)
       /\ fds' \subseteq fds
  BY <1>1, <1>3, <1>4, <1>5 DEF TypeOK
<1>24. QED BY <1>3, <1>8, <1>9, <1>13, <1>14, <1>15, <1>16, <1>17, <1>18, <1>19,
           <1>20, <1>21, <1>22, <1>23, UserRest

\* No slot is left.
LEMMA ConnectNoSlotIInv ==
    ASSUME IInv, Uses = {}, NEW c \in Coros, ConnectNoSlot(c)
    PROVE  IInv'
<1>1. /\ pc = "user" /\ co[c] = "idle" /\ ~sf.initiated /\ fd = NoFd
      /\ ~clf.initiated /\ sf' = ResetFrame /\ cf' = ResetFrame
      /\ pc' = "submit" /\ back' = "user"
      /\ UNCHANGED <<clf, tm, refs, fd, connected, fds, others, co, handles, sq, work,
                     file, conn, armed, cq, connects, closedDuring>>
  BY DEF ConnectNoSlot, fdVars, kernVars, histVars
<1>2. TypeOK /\ Core /\ ~Leaving /\ ~Dropping
  BY <1>1, UserFacts
<1>3. ~cf.initiated
  BY <1>1, <1>2 DEF IInv, Flow, AgainFirst, Again
<1>4. /\ sf' \in Frame /\ ~sf'.initiated /\ ~sf'.done /\ sf'.res = Ok
      /\ cf' \in Frame /\ ~cf'.initiated /\ ~cf'.done /\ cf'.res = Ok /\ cf'.h = None
  BY <1>1, ResetFacts
<1>5. /\ conn = NoConn
      /\ \A i \in 1..Len(sq) : sq[i].op \notin {"connect", "socket"}
      /\ \A i \in 1..Len(cq) : cq[i].op \notin {"connect", "socket"}
  BY <1>2, <1>3, NoConnect DEF Active
<1>6. \A op : Fl(op)' = Fl(op) /\ (Waits(op)' <=> Waits(op))
  BY <1>1, <1>3, <1>4 DEF Fl, Held, Waits, Active
<1>7. Exact'
  BY <1>1, <1>2, <1>6 DEF Core, Exact
<1>8. Flight'
  BY <1>2, <1>6 DEF Core, Flight, Bit
<1>9. Frames'
  BY <1>1, <1>2, <1>4 DEF Core, Frames, Active
<1>10. Waiters'
  <2>1. ~cf.done
    BY <1>2, <1>3 DEF Core, Frames
  <2>2. \A d \in Coros : Ready(d)' <=> Ready(d)
    BY <1>1, <1>4, <2>1 DEF Ready
  <2>3. ~Leaving'
    BY <1>1 DEF Leaving
  <2>4. QED BY <1>1, <1>2, <1>3, <1>4, <2>2 DEF Core, Waiters, Bit
<1>11. Order'
  BY <1>1 DEF IInv, Flow, Order
<1>12. AgainFirst'
  BY <1>4 DEF AgainFirst, Again
<1>13. (\A i \in 1..Len(sq) : SqPlace(sq[i]))'
  <2>1. \A x : x.op \notin {"connect", "socket"} /\ SqPlace(x) => SqPlace(x)'
    BY <1>1 DEF SqPlace
  <2>2. QED BY <1>1, <1>5, <2>1 DEF IInv, Flow, Places
<1>14. (\A i \in 1..Len(cq) : CqPlace(cq[i]))'
  <2>1. \A x : x.op \notin {"connect", "socket"} /\ CqPlace(x) => CqPlace(x)'
    BY <1>1 DEF CqPlace
  <2>2. QED BY <1>1, <1>5, <2>1 DEF IInv, Flow, Places
<1>15. ConnPlace'
  BY <1>1, <1>5 DEF ConnPlace
<1>16. Table'
  BY <1>1, TableSame DEF IInv, Owner
<1>17. Connected'
  BY <1>1, <1>4 DEF Connected
<1>18. Leave'
  BY <1>1 DEF Leave, AllGone
<1>19. /\ clf' \in Frame /\ tm' \in [initiated : BOOLEAN, cancelled : BOOLEAN]
       /\ refs' \in Nat /\ fd' \in Slots \cup {NoFd} /\ connected' \in BOOLEAN
       /\ fds' \subseteq fds
       /\ co' \in [Coros -> {"idle", "connecting", "closing", "gone"}]
       /\ handles' \in Seq(Coros) /\ sq' \in Seq(Sqe)
       /\ connects' \in 0..MaxConnects /\ closedDuring' \in BOOLEAN
  BY <1>1, <1>2 DEF TypeOK
<1>20. QED BY <1>1, <1>4, <1>7, <1>8, <1>9, <1>10, <1>11, <1>12, <1>13, <1>14,
           <1>15, <1>16, <1>17, <1>18, <1>19, UserRest

\* What is queued to cancel, which no frame waits for.
Notes == {"cancelSocket", "cancelConnect", "removeTimer"}

\* Such an operation is queued, alone or with others.
LEMMA NotesFacts ==
    /\ <<>> \in Seq(Sqe) /\ \A i \in 1..Len(<<>>) : <<>>[i].op \in Notes
    /\ RemoveTimer \in Seq(Sqe) /\ \A i \in 1..Len(RemoveTimer) : RemoveTimer[i].op \in Notes
    /\ Cancels \in Seq(Sqe) /\ \A i \in 1..Len(Cancels) : Cancels[i].op \in Notes
    /\ tm.initiated => \E i \in 1..Len(RemoveTimer) : RemoveTimer[i].op = "removeTimer"
<1>1. /\ Op("removeTimer", NoFd, 0) \in Sqe
      /\ Op("removeTimer", NoFd, 0).op = "removeTimer"
  BY Zero, SqeFacts
<1>2. /\ Op("cancelSocket", NoFd, 0) \in Sqe
      /\ Op("cancelSocket", NoFd, 0).op = "cancelSocket"
  BY Zero, SqeFacts
<1>3. /\ Op("cancelConnect", NoFd, 0) \in Sqe
      /\ Op("cancelConnect", NoFd, 0).op = "cancelConnect"
  BY Zero, SqeFacts
<1>4. ASSUME NEW x \in Sqe, x.op \in Notes
      PROVE  /\ <<x>> \in Seq(Sqe) /\ Len(<<x>>) = 1 /\ <<x>>[1] = x
             /\ \A i \in 1..Len(<<x>>) : <<x>>[i].op \in Notes
  BY <1>4
<1>5. <<>> \in Seq(Sqe) /\ \A i \in 1..Len(<<>>) : <<>>[i].op \in Notes
  OBVIOUS
<1>6. /\ RemoveTimer \in Seq(Sqe)
      /\ \A i \in 1..Len(RemoveTimer) : RemoveTimer[i].op \in Notes
      /\ tm.initiated => \E i \in 1..Len(RemoveTimer) : RemoveTimer[i].op = "removeTimer"
  <2> DEFINE x == Op("removeTimer", NoFd, 0)
  <2>1. x \in Sqe /\ x.op = "removeTimer" /\ x.op \in Notes
    BY <1>1 DEF Notes
  <2>2. RemoveTimer = IF tm.initiated THEN <<x>> ELSE <<>>
    BY DEF RemoveTimer
  <2> HIDE DEF x
  <2>3. CASE tm.initiated
    <3>1. /\ <<x>> \in Seq(Sqe) /\ Len(<<x>>) = 1 /\ <<x>>[1] = x
          /\ \A i \in 1..Len(<<x>>) : <<x>>[i].op \in Notes
      BY <1>4, <2>1
    <3>2. RemoveTimer = <<x>> /\ 1 \in 1..Len(<<x>>)
      BY <2>2, <2>3, <3>1
    <3>3. QED BY <2>1, <3>1, <3>2
  <2>4. CASE ~tm.initiated
    <3>1. RemoveTimer = <<>>
      BY <2>2, <2>4
    <3>2. QED BY <1>5, <2>4, <3>1
  <2>5. QED BY <2>3, <2>4
<1>7. /\ Cancels \in Seq(Sqe) /\ \A i \in 1..Len(Cancels) : Cancels[i].op \in Notes
  <2> DEFINE u == IF Active(sf) THEN <<Op("cancelSocket", NoFd, 0)>> ELSE <<>>
             v == IF Active(cf) THEN <<Op("cancelConnect", NoFd, 0)>> ELSE <<>>
  <2>1. u \in Seq(Sqe) /\ \A i \in 1..Len(u) : u[i].op \in Notes
    BY <1>2, <1>4, <1>5 DEF Notes
  <2>2. v \in Seq(Sqe) /\ \A i \in 1..Len(v) : v[i].op \in Notes
    BY <1>3, <1>4, <1>5 DEF Notes
  <2>3. Cancels = u \o v
    BY DEF Cancels
  <2> HIDE DEF u, v
  <2>4. /\ u \o v \in Seq(Sqe)
        /\ \A i \in 1..Len(u \o v) : (u \o v)[i].op \in Notes
    BY <2>1, <2>2
  <2>5. QED BY <2>3, <2>4
<1>8. QED BY <1>5, <1>6, <1>7

\* The queues after such operations are queued.
LEMMA NotesQueued ==
    ASSUME TypeOK, Order, NEW t \in Seq(Sqe), \A i \in 1..Len(t) : t[i].op \in Notes,
           sq' = sq \o t, UNCHANGED <<work, conn, armed, cq>>
    PROVE  /\ sq' \in Seq(Sqe) /\ \A op \in Ops : Fl(op)' = Fl(op)
           /\ OfOp(sq', "timer") = OfOp(sq, "timer")
           /\ Order'
           /\ \A i \in 1..Len(sq') : sq'[i].op \in {"socket", "connect", "close"} =>
                 i \in 1..Len(sq) /\ sq'[i] = sq[i]
           /\ \A i \in 1..Len(t) : \E j \in 1..Len(sq') : sq'[j] = t[i]
           /\ \A i \in 1..Len(sq) : i \in 1..Len(sq') /\ sq'[i] = sq[i]
<1>1. sq \in Seq(Sqe)
  BY DEF TypeOK
<1>2. /\ sq' \in Seq(Sqe)
      /\ \A i \in 1..Len(sq') : sq'[i].op \notin Notes =>
            i \in 1..Len(sq) /\ sq'[i] = sq[i]
      /\ \A op : op \notin Notes => OfOp(sq', op) = OfOp(sq, op)
      /\ \A a, b : a \notin Notes /\ Precedes(sq, a, b) => Precedes(sq', a, b)
      /\ \A i \in 1..Len(t) : \E j \in 1..Len(sq') : sq'[j] = t[i]
      /\ \A i \in 1..Len(sq) : i \in 1..Len(sq') /\ sq'[i] = sq[i]
  <2>1. /\ sq \o t \in Seq(Sqe)
        /\ \A i \in 1..Len(sq \o t) : (sq \o t)[i].op \notin Notes =>
              i \in 1..Len(sq) /\ (sq \o t)[i] = sq[i]
        /\ \A op : op \notin Notes => OfOp(sq \o t, op) = OfOp(sq, op)
        /\ \A a, b : a \notin Notes /\ Precedes(sq, a, b) => Precedes(sq \o t, a, b)
        /\ \A i \in 1..Len(t) : \E j \in 1..Len(sq \o t) : (sq \o t)[j] = t[i]
        /\ \A i \in 1..Len(sq) : i \in 1..Len(sq \o t) /\ (sq \o t)[i] = sq[i]
    BY <1>1, Suffix
  <2>2. QED BY <2>1
<1>3. \A op \in Ops : op \notin Notes /\ OfOp(sq', op) = OfOp(sq, op)
  BY <1>2 DEF Ops, Notes
<1>4. \A op \in Ops : Fl(op)' = Fl(op)
  <2>1. \A op : Held(op)' <=> Held(op)
    BY DEF Held
  <2>2. "socket" \in Ops
    BY DEF Ops
  <2>3. QED BY <1>3, <2>1, <2>2 DEF Fl, Bit
<1>5. Order'
  BY <1>2, <1>3 DEF Order, Ops, Notes
<1>6. QED BY <1>2, <1>3, <1>4, <1>5 DEF Ops, Notes

\* queue_timer_cancel changes a flag of the timer that nothing here depends on.
LEMMA TimerFacts ==
    ASSUME TypeOK, tm' = tm \/ tm' = TimerCancelled
    PROVE  /\ tm' \in [initiated : BOOLEAN, cancelled : BOOLEAN]
           /\ tm'.initiated = tm.initiated
BY DEF TypeOK, TimerCancelled

\* await_ready throws.
LEMMA ConnectBusyIInv ==
    ASSUME IInv, NEW c \in Coros, ConnectBusy(c)
    PROVE  IInv'
<1>1. /\ pc = "user" /\ co[c] = "idle" /\ sq' = sq \o Cancels
      /\ pc' = "submit" /\ back' = "user"
      /\ UNCHANGED <<sf, cf, clf, tm, refs, fd, connected, fds, others, co, handles,
                     work, file, conn, armed, cq, connects, closedDuring>>
  BY DEF ConnectBusy, frameVars, fdVars, histVars
<1>2. TypeOK /\ Core /\ ~Leaving /\ ~Dropping
  BY <1>1, UserFacts
<1>3. PICK t \in Seq(Sqe) : t = Cancels /\ \A i \in 1..Len(t) : t[i].op \in Notes
  BY NotesFacts
<1>4. /\ sq' \in Seq(Sqe) /\ \A op \in Ops : Fl(op)' = Fl(op)
      /\ Order'
      /\ \A i \in 1..Len(sq') : sq'[i].op \in {"socket", "connect", "close"} =>
            i \in 1..Len(sq) /\ sq'[i] = sq[i]
  BY <1>1, <1>2, <1>3, NotesQueued DEF IInv, Flow
<1>5. \A op : Waits(op)' <=> Waits(op)
  BY <1>1 DEF Waits, Active
<1>6. Exact'
  BY <1>1, <1>2, <1>4 DEF Core, Exact, Ops
<1>7. Flight'
  BY <1>2, <1>4, <1>5 DEF Core, Flight, Bit
<1>8. Frames'
  BY <1>1, <1>2 DEF Core, Frames, Active
<1>9. Waiters'
  BY <1>1, <1>2 DEF Core, Waiters, Ready
<1>10. AgainFirst'
  <2>1. (Again' <=> Again) /\ (InTurn' <=> InTurn)
    BY <1>1 DEF Again, InTurn
  <2>2. QED BY <1>1, <1>2, <2>1 DEF IInv, Flow, AgainFirst
<1>11. (\A i \in 1..Len(sq) : SqPlace(sq[i]))'
  <2>1. \A x : SqPlace(x) => SqPlace(x)'
    BY <1>1 DEF SqPlace, Again
  <2>2. \A x : x.op \notin {"socket", "connect", "close"} => SqPlace(x)'
    BY DEF SqPlace
  <2>3. QED BY <1>4, <2>1, <2>2 DEF IInv, Flow, Places
<1>12. (\A i \in 1..Len(cq) : CqPlace(cq[i]))' /\ ConnPlace'
  <2>1. \A x : CqPlace(x) => CqPlace(x)'
    BY <1>1 DEF CqPlace, Again
  <2>2. ConnPlace'
    BY <1>1 DEF IInv, Flow, Places, ConnPlace
  <2>3. QED BY <1>1, <2>1, <2>2 DEF IInv, Flow, Places
<1>13. Table'
  BY <1>1, TableSame DEF IInv, Owner
<1>14. Connected'
  BY <1>1 DEF IInv, Owner, Connected, Active
<1>15. Leave'
  BY <1>1 DEF Leave, AllGone
<1>16. /\ sf' \in Frame /\ cf' \in Frame /\ clf' \in Frame
       /\ tm' \in [initiated : BOOLEAN, cancelled : BOOLEAN]
       /\ refs' \in Nat /\ fd' \in Slots \cup {NoFd} /\ connected' \in BOOLEAN
       /\ fds' \subseteq fds
       /\ co' \in [Coros -> {"idle", "connecting", "closing", "gone"}]
       /\ handles' \in Seq(Coros)
       /\ connects' \in 0..MaxConnects /\ closedDuring' \in BOOLEAN
  BY <1>1, <1>2 DEF TypeOK
<1>17. QED BY <1>1, <1>4, <1>6, <1>7, <1>8, <1>9, <1>10, <1>11, <1>12, <1>13,
           <1>14, <1>15, <1>16, UserRest

\* async_close.
LEMMA AsyncCloseIInv ==
    ASSUME IInv, Uses = {}, NEW c \in Coros, AsyncClose(c)
    PROVE  IInv'
<1>1. /\ pc = "user" /\ co[c] = "idle" /\ ~clf.initiated
      /\ clf' = [clf EXCEPT !.h = c, !.initiated = TRUE]
      /\ sq' = Append(sq, Op("close", fd, 0)) \o RemoveTimer
      /\ tm' = TimerCancelled /\ refs' = refs + 2
      /\ closedDuring' = (closedDuring \/ cf.initiated)
      /\ co' = [co EXCEPT ![c] = "closing"]
      /\ UNCHANGED <<sf, cf, fd, connected, fds, others, handles, pc, back, work,
                     file, conn, armed, cq, connects>>
  BY DEF AsyncClose, fdVars
<1>2. TypeOK /\ Core /\ ~Leaving /\ ~Dropping
  BY <1>1, UserFacts
<1>3. /\ clf' \in Frame /\ clf'.h = c /\ clf'.initiated /\ clf'.done = clf.done
      /\ ~clf.done
  <2>1. clf \in Frame
    BY <1>2 DEF TypeOK
  <2>2. /\ clf' \in Frame /\ clf'.h = c /\ clf'.initiated /\ clf'.done = clf.done
    BY <1>1, <2>1 DEF Frame
  <2>3. QED BY <1>1, <1>2, <2>2 DEF Core, Frames
<1>4. /\ tm' \in [initiated : BOOLEAN, cancelled : BOOLEAN]
      /\ tm'.initiated = tm.initiated
  BY <1>1, <1>2, TimerFacts
<1>5. PICK t \in Seq(Sqe) : t = RemoveTimer /\ \A i \in 1..Len(t) : t[i].op \in Notes
  BY NotesFacts
<1>6. PICK e : e = Op("close", fd, 0)
  OBVIOUS
<1>7. e \in Sqe /\ e.op = "close" /\ e.slot = fd
  <2>1. fd \in Slots \cup {NoFd}
    BY <1>2 DEF TypeOK
  <2>2. QED BY <1>6, <2>1, Zero DEF Op, Sqe
<1>8. PICK m : m = Append(sq, e)
  OBVIOUS
<1>9. /\ m \in Seq(Sqe)
      /\ \A i \in 1..Len(m) : (i \in 1..Len(sq) /\ m[i] = sq[i]) \/ m[i] = e
      /\ \A op : OfOp(m, op) = OfOp(sq, op) + Bit(e.op = op)
      /\ \A a, b : a # b /\ Precedes(sq, a, b) /\ a # "close" => Precedes(m, a, b)
      /\ sq' = m \o t /\ sq' \in Seq(Sqe)
      /\ \A i \in 1..Len(sq') : sq'[i].op \notin Notes =>
            i \in 1..Len(m) /\ sq'[i] = m[i]
      /\ \A op : op \notin Notes => OfOp(sq', op) = OfOp(m, op)
      /\ \A a, b : a \notin Notes /\ Precedes(m, a, b) => Precedes(sq', a, b)
  <2>1. sq \in Seq(Sqe)
    BY <1>2 DEF TypeOK
  <2>2. /\ m \in Seq(Sqe)
        /\ \A i \in 1..Len(m) : (i \in 1..Len(sq) /\ m[i] = sq[i]) \/ m[i] = e
    BY <1>7, <1>8, <2>1, Entries
  <2>3. \A op : OfOp(m, op) = OfOp(sq, op) + Bit(e.op = op)
    BY <1>7, <1>8, <2>1, Laws DEF OpLaws
  <2>4. \A a, b : a # b /\ Precedes(sq, a, b) /\ a # "close" => Precedes(m, a, b)
    BY <1>7, <1>8, <2>1, Laws DEF OrderLaws
  <2>5. sq' = m \o t
    BY <1>1, <1>5, <1>6, <1>8
  <2>6. /\ m \o t \in Seq(Sqe)
        /\ \A i \in 1..Len(m \o t) : (m \o t)[i].op \notin Notes =>
              i \in 1..Len(m) /\ (m \o t)[i] = m[i]
        /\ \A op : op \notin Notes => OfOp(m \o t, op) = OfOp(m, op)
        /\ \A a, b : a \notin Notes /\ Precedes(m, a, b) => Precedes(m \o t, a, b)
        /\ \A i \in 1..Len(t) : \E j \in 1..Len(m \o t) : (m \o t)[j] = t[i]
        /\ \A i \in 1..Len(m) : i \in 1..Len(m \o t) /\ (m \o t)[i] = m[i]
    <3>1. m \in Seq(Sqe) /\ \A i \in 1..Len(t) : t[i].op \in Notes
      BY <1>5, <2>2
    <3>2. QED BY <3>1, Suffix
  <2>7. QED BY <2>2, <2>3, <2>4, <2>5, <2>6
<1>10. /\ \A op : OfOp(sq, op) \in Nat
       /\ OfOp(sq', "timer") = OfOp(sq, "timer")
       /\ OfOp(sq', "socket") = OfOp(sq, "socket")
       /\ OfOp(sq', "connect") = OfOp(sq, "connect")
       /\ OfOp(sq', "close") = OfOp(sq, "close") + 1
  <2>1. \A op : OfOp(sq, op) \in Nat
    BY <1>2, Numbers
  <2>2. \A op \in Ops : OfOp(sq', op) = OfOp(sq, op) + Bit(e.op = op)
    <3>1. \A op \in Ops : op \notin Notes
      BY DEF Ops, Notes
    <3>2. QED BY <1>9, <3>1
  <2>3. /\ Bit(e.op = "timer") = 0 /\ Bit(e.op = "socket") = 0
        /\ Bit(e.op = "connect") = 0 /\ Bit(e.op = "close") = 1
    BY <1>7 DEF Bit
  <2>4. QED BY <2>1, <2>2, <2>3 DEF Ops
<1>11. /\ OfOp(sq, "close") = 0 /\ OfOp(work, "close") = 0 /\ OfOp(cq, "close") = 0
       /\ Fl("close") = 0
       /\ \A i \in 1..Len(sq) : sq[i].op # "close"
       /\ \A i \in 1..Len(cq) : cq[i].op # "close"
  BY <1>1, <1>2, NoClose DEF Active
<1>12. /\ Fl("timer")' = Fl("timer") /\ Fl("socket")' = Fl("socket") + 0
       /\ Fl("connect")' = Fl("connect") + 0 /\ Fl("close")' = Fl("close") + 1
  <2>1. \A op : Bit(Held(op))' = Bit(Held(op))
    BY <1>1 DEF Held
  <2>2. Fl("timer")' = Fl("timer")
    BY <1>1, <1>10, <2>1 DEF Fl
  <2>3. Fl("socket")' = Fl("socket")
    BY <1>1, <1>10, <2>1 DEF Fl
  <2>4. Fl("connect")' = Fl("connect")
    BY <1>1, <1>10, <2>1 DEF Fl
  <2>5. Fl("close")' = 1
    <3>1. OfOp(sq', "close") = 1 /\ OfOp(work', "close") = 0 /\ OfOp(cq', "close") = 0
      BY <1>1, <1>10, <1>11
    <3>2. Bit(Held("close"))' = 0
      BY DEF Held, Bit
    <3>3. QED BY <3>1, <3>2 DEF Fl
  <2>6. Fl("socket") \in Nat /\ Fl("connect") \in Nat
    BY <1>2, Numbers
  <2>7. QED BY <1>11, <2>2, <2>3, <2>4, <2>5, <2>6
<1>13. /\ co' \in [Coros -> {"idle", "connecting", "closing", "gone"}]
       /\ co'[c] = "closing" /\ \A d \in Coros : d # c => co'[d] = co[d]
  BY <1>1, <1>2 DEF TypeOK
<1>14. \A d \in Coros : co[d] # "closing"
  BY <1>1, <1>2 DEF Core, Waiters
<1>15. Exact' /\ refs' \in Nat
  <2>1. /\ Pop(co', Coros, Alive) + Bit(co[c] \in Alive)
             = Pop(co, Coros, Alive) + Bit(co'[c] \in Alive)
        /\ Pop(co', Coros, Busy) + Bit(co[c] \in Busy)
             = Pop(co, Coros, Busy) + Bit(co'[c] \in Busy)
    BY <1>13, OneMoves
  <2>2. /\ Bit(co[c] \in Alive) = 1 /\ Bit(co'[c] \in Alive) = 1
        /\ Bit(co[c] \in Busy) = 0 /\ Bit(co'[c] \in Busy) = 1
    BY <1>1, <1>13 DEF Alive, Busy, Bit
  <2>3. \A f, S : Pop(f, Coros, S) \in Nat
    BY Laws
  <2>4. /\ Pop(co', Coros, Alive) = Pop(co, Coros, Alive)
        /\ Pop(co', Coros, Busy) = Pop(co, Coros, Busy) + 1
    BY <2>1, <2>2, <2>3
  <2>5. TypeOK /\ Exact /\ refs' = refs + (((1 + 0) + 0) + 1)
    BY <1>1, <1>2 DEF Core
  <2>6. QED BY <1>12, <2>4, <2>5, StartExact
<1>16. Flight'
  <2>1. /\ Waits("close")' /\ (Waits("socket")' <=> Waits("socket"))
        /\ (Waits("connect")' <=> Waits("connect"))
        /\ (Waits("timer")' <=> Waits("timer"))
    BY <1>1, <1>3, <1>4 DEF Waits, Active
  <2>2. /\ Fl("timer") = Bit(Waits("timer")) /\ Fl("socket") = Bit(Waits("socket"))
        /\ Fl("connect") = Bit(Waits("connect"))
    BY <1>2 DEF Core, Flight, Ops
  <2>3. QED BY <1>11, <1>12, <2>1, <2>2 DEF Flight, Ops, Bit
<1>17. Frames'
  BY <1>1, <1>2, <1>3, ClientAssumption DEF Core, Frames, Active
<1>18. \A d \in Coros : (Ready(d)' <=> Ready(d))
  BY <1>1, <1>3, <1>13, <1>14 DEF Ready
<1>19. Waiters'
  <2>1. /\ cf.h # None => co'[cf.h] = "connecting"
        /\ cf.initiated <=> \E d \in Coros : co'[d] = "connecting"
    <3>1. cf.h \in Coros \cup {None}
      BY <1>2 DEF TypeOK, Frame
    <3>2. QED BY <1>1, <1>2, <1>13, <3>1 DEF Core, Waiters
  <2>2. (\A d, f \in Coros : co[d] = co[f] /\ co[d] \in Busy => d = f)'
    BY <1>2, <1>13, <1>14 DEF Core, Waiters
  <2>3. \A d \in Coros : Times(handles', d) = Bit(Ready(d)')
    BY <1>1, <1>2, <1>18 DEF Core, Waiters, Bit
  <2>4. QED BY <1>1, <1>3, <1>13, <2>1, <2>2, <2>3 DEF Waiters
<1>20. Order'
  <2>1. /\ Precedes(sq', "timer", "removeTimer") /\ Precedes(sq', "socket", "close")
        /\ Precedes(sq', "connect", "close")
    BY <1>9 DEF IInv, Flow, Order, Notes
  <2>2. QED BY <1>1, <1>10, <1>11, <2>1 DEF IInv, Flow, Order
<1>21. AgainFirst'
  <2>1. InTurn'
    <3>1. handles \in Seq(Coros) /\ UNCHANGED handles
      BY <1>1, <1>2 DEF TypeOK
    <3>2. Times(handles, c) = 0
      <4>1. ~Ready(c)
        BY <1>1 DEF Ready
      <4>2. QED BY <1>2, <4>1 DEF Core, Waiters, Bit
    <3>3. \A i \in 1..Len(handles) : handles[i] # c /\ handles[i] \in Coros
      BY <3>1, <3>2, Laws DEF TimesLaws
    <3>4. \A i \in 1..Len(handles) : co'[handles[i]] # "closing"
      BY <1>13, <1>14, <3>3
    <3>5. QED BY <3>1, <3>4 DEF InTurn
  <2>2. Again' <=> Again
    BY <1>1 DEF Again
  <2>3. QED BY <1>1, <1>3, <2>1, <2>2 DEF IInv, Flow, AgainFirst
<1>22. (\A i \in 1..Len(sq) : SqPlace(sq[i]))'
  <2>1. \A x : SqPlace(x) => SqPlace(x)'
    BY <1>1 DEF SqPlace, Again
  <2>2. \A x : x.op \in Notes => SqPlace(x)'
    BY DEF SqPlace, Notes
  <2>3. SqPlace(e)'
    BY <1>1, <1>7 DEF SqPlace
  <2>4. QED BY <1>9, <2>1, <2>2, <2>3 DEF IInv, Flow, Places
<1>23. (\A i \in 1..Len(cq) : CqPlace(cq[i]))' /\ ConnPlace'
  <2>1. \A x : CqPlace(x) => CqPlace(x)'
    BY <1>1, <1>3 DEF CqPlace, Again
  <2>2. ConnPlace'
    BY <1>1, <1>3 DEF IInv, Flow, Places, ConnPlace
  <2>3. QED BY <1>1, <2>1, <2>2 DEF IInv, Flow, Places
<1>24. Table'
  BY <1>1, TableSame DEF IInv, Owner
<1>25. Connected'
  <2>1. (\E d \in Coros : co'[d] = "connecting") <=> (\E d \in Coros : co[d] = "connecting")
    BY <1>1, <1>13
  <2>2. QED BY <1>1, <1>3, <2>1 DEF IInv, Owner, Connected
<1>26. Leave'
  BY <1>13 DEF Leave, AllGone
<1>27. /\ sf' \in Frame /\ cf' \in Frame
       /\ fd' \in Slots \cup {NoFd} /\ connected' \in BOOLEAN /\ fds' \subseteq fds
       /\ handles' \in Seq(Coros)
       /\ connects' \in 0..MaxConnects /\ closedDuring' \in BOOLEAN
  BY <1>1, <1>2 DEF TypeOK, Frame
<1>28. QED BY <1>1, <1>3, <1>4, <1>9, <1>13, <1>15, <1>16, <1>17, <1>19, <1>20,
           <1>21, <1>22, <1>23, <1>24, <1>25, <1>26, <1>27, UserRest

\* ~client counts right: without the active frames, the handles are left.
LEMMA ActiveSum ==
    ASSUME IInv, ~Dropping
    PROVE  /\ refs = (Pop(co, Coros, Alive) + Pop(co, Coros, Busy)) + ActiveFrames
           /\ ActiveFrames \in Nat
<1>1. TypeOK /\ Core
  BY DEF IInv, Core
<1>2. /\ Fl("timer") = Bit(Waits("timer")) /\ Fl("socket") = Bit(Waits("socket"))
      /\ Fl("connect") = Bit(Waits("connect")) /\ Fl("close") = Bit(Waits("close"))
  BY <1>1 DEF Core, Flight, Ops
<1>3. /\ Bit(Waits("timer")) = One(tm.initiated)
      /\ Bit(Waits("socket")) = One(Active(sf))
      /\ Bit(Waits("connect")) = One(Active(cf))
      /\ Bit(Waits("close")) = One(Active(clf))
  BY DEF Waits, Bit, One
<1> DEFINE a == Pop(co, Coros, Alive)
           b == Pop(co, Coros, Busy)
           c == One(tm.initiated)
           d == One(Active(sf))
           e == One(Active(cf))
           f == One(Active(clf))
<1>4. a \in Nat /\ b \in Nat
  BY Laws
<1>5. c \in Nat /\ d \in Nat /\ e \in Nat /\ f \in Nat
  BY DEF One
<1>6. refs = (a + b) + (((c + d) + e) + f)
  BY <1>1, <1>2, <1>3 DEF Core, Exact
<1>7. ActiveFrames = ((d + e) + f) + c
  BY DEF ActiveFrames
<1> HIDE DEF a, b, c, d, e, f
<1>8. refs = (a + b) + (((d + e) + f) + c) /\ ((d + e) + f) + c \in Nat
  BY <1>4, <1>5, <1>6
<1>9. QED BY <1>7, <1>8 DEF a, b

\* A coroutine goes: the counts, and the last one is known as the last.
LEMMA GoFacts ==
    ASSUME IInv, ~Dropping, NEW c \in Coros, co[c] # "gone",
           co' = [co EXCEPT ![c] = "gone"],
           NEW y, y = One(co[c] # "idle")
    PROVE  /\ co' \in [Coros -> {"idle", "connecting", "closing", "gone"}]
           /\ co'[c] = "gone" /\ \A d \in Coros : d # c => co'[d] = co[d]
           /\ y \in Nat
           /\ Pop(co', Coros, Alive) + 1 = Pop(co, Coros, Alive)
           /\ Pop(co', Coros, Busy) + y = Pop(co, Coros, Busy)
           /\ AllGone' => LastHandle(refs - y)
           /\ refs \in Nat /\ (refs - y) - 1 = refs - (1 + y)
<1>1. TypeOK
  BY DEF IInv, Core
<1>2. /\ co' \in [Coros -> {"idle", "connecting", "closing", "gone"}]
      /\ co'[c] = "gone" /\ \A d \in Coros : d # c => co'[d] = co[d]
      /\ co[c] \in {"idle", "connecting", "closing", "gone"}
  BY <1>1 DEF TypeOK
<1>3. /\ Pop(co', Coros, Alive) + Bit(co[c] \in Alive)
           = Pop(co, Coros, Alive) + Bit(co'[c] \in Alive)
      /\ Pop(co', Coros, Busy) + Bit(co[c] \in Busy)
           = Pop(co, Coros, Busy) + Bit(co'[c] \in Busy)
  BY <1>2, OneMoves
<1>4. /\ Bit(co[c] \in Alive) = 1 /\ Bit(co'[c] \in Alive) = 0
      /\ Bit(co[c] \in Busy) = y /\ Bit(co'[c] \in Busy) = 0 /\ y \in Nat
  BY <1>2 DEF Alive, Busy, Bit, One
<1>5. \A f, S : Pop(f, Coros, S) \in Nat
  BY Laws
<1>6. /\ Pop(co', Coros, Alive) + 1 = Pop(co, Coros, Alive)
      /\ Pop(co', Coros, Busy) + y = Pop(co, Coros, Busy)
  BY <1>3, <1>4, <1>5
<1>7. AllGone' => LastHandle(refs - y)
  <2>1. SUFFICES ASSUME AllGone' PROVE LastHandle(refs - y)
    OBVIOUS
  <2>2. Pop(co', Coros, Alive) = 0 /\ Pop(co', Coros, Busy) = 0
    <3>1. IsFiniteSet(Coros)
      BY ClientAssumption
    <3>2. /\ Pop(co', Coros, Alive) = 0 <=> \A d \in Coros : co'[d] \notin Alive
          /\ Pop(co', Coros, Busy) = 0 <=> \A d \in Coros : co'[d] \notin Busy
      BY <3>1, PopZero
    <3>3. QED BY <2>1, <3>2 DEF AllGone, Alive, Busy
  <2>3. Pop(co, Coros, Alive) = 1 /\ Pop(co, Coros, Busy) = y
    BY <1>4, <1>5, <1>6, <2>2
  <2>4. refs = (1 + y) + ActiveFrames /\ ActiveFrames \in Nat
    BY <2>3, ActiveSum
  <2>5. (refs - y) - ActiveFrames = 1
    BY <1>4, <2>4
  <2>6. QED BY <2>5 DEF LastHandle
<1>8. refs \in Nat
  BY <1>1 DEF TypeOK
<1>9. (refs - y) - 1 = refs - (1 + y)
  BY <1>4, <1>8
<1>10. QED BY <1>2, <1>4, <1>6, <1>7, <1>8, <1>9

\* The timer of a client that nobody has is being removed.
LEMMA LastLeaves ==
    ASSUME IInv, ~Dropping, NEW t \in Seq(Sqe), sq' = sq \o t, UNCHANGED armed,
           OfOp(sq', "timer") = OfOp(sq, "timer"),
           \A i \in 1..Len(t) : \E j \in 1..Len(sq') : sq'[j] = t[i],
           \A x : x \in {RemoveTimer[i] : i \in 1..Len(RemoveTimer)} =>
              \E j \in 1..Len(t) : t[j] = x,
           pc' = "submit", back' \in {"user", "abort"}
    PROVE  Leave'
<1>1. SUFFICES ASSUME OfOp(sq, "timer") > 0 \/ armed
               PROVE  \E j \in 1..Len(sq') : sq'[j].op = "removeTimer"
  BY DEF Leave
<1>2. TypeOK /\ Core
  BY DEF IInv, Core
<1>3. Fl("timer") \in {0, 1} /\ (Fl("timer") = 1 <=> Waits("timer"))
  BY <1>2, AtMostOne DEF Ops
<1>4. tm.initiated
  <2>1. Fl("timer") # 0
    <3>1. OfOp(sq, "timer") \in Nat
      BY <1>2, Numbers
    <3>2. QED BY <1>1, <1>2, <1>3, <3>1, OtherPlaces
  <2>2. QED BY <1>3, <2>1 DEF Waits
<1>5. PICK i \in 1..Len(RemoveTimer) : RemoveTimer[i].op = "removeTimer"
  BY <1>4, NotesFacts
<1>6. PICK k \in 1..Len(t) : t[k] = RemoveTimer[i]
  OBVIOUS
<1>7. PICK j \in 1..Len(sq') : sq'[j] = t[k]
  OBVIOUS
<1>8. QED BY <1>5, <1>6, <1>7

\* A coroutine lets go of the client.
LEMMA LetGoIInv ==
    ASSUME IInv, NEW c \in Coros, LetGo(c)
    PROVE  IInv'
<1>1. /\ pc = "user" /\ co[c] = "idle" /\ co' = [co EXCEPT ![c] = "gone"]
      /\ refs' = refs - 1
      /\ tm' = IF LastHandle(refs) THEN TimerCancelled ELSE tm
      /\ IF LastHandle(refs)
         THEN sq' = sq \o RemoveTimer /\ pc' = "submit" /\ back' = "user"
         ELSE UNCHANGED <<sq, pc, back>>
      /\ UNCHANGED <<sf, cf, clf, fd, connected, fds, others, handles, work, file,
                     conn, armed, cq, connects, closedDuring>>
  BY DEF LetGo, DropClient, fdVars, histVars
<1>2. TypeOK /\ Core /\ ~Leaving /\ ~Dropping
  BY <1>1, UserFacts
<1>3. PICK y : y = One(co[c] # "idle")
  OBVIOUS
<1>4. /\ co' \in [Coros -> {"idle", "connecting", "closing", "gone"}]
      /\ co'[c] = "gone" /\ \A d \in Coros : d # c => co'[d] = co[d]
      /\ y \in Nat
      /\ Pop(co', Coros, Alive) + 1 = Pop(co, Coros, Alive)
      /\ Pop(co', Coros, Busy) + y = Pop(co, Coros, Busy)
      /\ AllGone' => LastHandle(refs - y)
      /\ refs \in Nat
  BY <1>1, <1>2, <1>3, GoFacts
<1>5. y = 0 /\ refs - y = refs
  BY <1>1, <1>3, <1>4 DEF One
<1>6. /\ tm' \in [initiated : BOOLEAN, cancelled : BOOLEAN]
      /\ tm'.initiated = tm.initiated
  BY <1>1, <1>2, TimerFacts
<1>7. PICK t \in Seq(Sqe) :
         /\ sq' = sq \o t /\ \A i \in 1..Len(t) : t[i].op \in Notes
         /\ LastHandle(refs) => t = RemoveTimer
  <2>1. CASE LastHandle(refs)
    BY <1>1, <2>1, NotesFacts
  <2>2. CASE ~LastHandle(refs)
    <3>1. sq' = sq \o <<>>
      BY <1>1, <1>2, <2>2 DEF TypeOK
    <3>2. QED BY <2>2, <3>1, NotesFacts
  <2>3. QED BY <2>1, <2>2
<1>8. /\ sq' \in Seq(Sqe) /\ \A op \in Ops : Fl(op)' = Fl(op)
      /\ OfOp(sq', "timer") = OfOp(sq, "timer")
      /\ Order'
      /\ \A i \in 1..Len(sq') : sq'[i].op \in {"socket", "connect", "close"} =>
            i \in 1..Len(sq) /\ sq'[i] = sq[i]
      /\ \A i \in 1..Len(t) : \E j \in 1..Len(sq') : sq'[j] = t[i]
  BY <1>1, <1>2, <1>7, NotesQueued DEF IInv, Flow
<1>9. Exact' /\ refs' \in Nat
  <2>1. TypeOK /\ Exact /\ refs' = refs - (1 + y)
    BY <1>1, <1>2, <1>5 DEF Core
  <2>2. 1 \in Nat
    OBVIOUS
  <2>3. QED BY <1>4, <1>8, <2>1, <2>2, GoExact DEF Ops
<1>10. Flight'
  <2>1. \A op : Waits(op)' <=> Waits(op)
    BY <1>1, <1>6 DEF Waits, Active
  <2>2. QED BY <1>2, <1>8, <2>1 DEF Core, Flight, Bit
<1>11. Frames'
  BY <1>1, <1>2 DEF Core, Frames, Active
<1>12. \A d \in Coros : /\ co'[d] = "connecting" <=> co[d] = "connecting"
                        /\ co'[d] = "closing" <=> co[d] = "closing"
  BY <1>1, <1>4
<1>13. Waiters'
  <2>1. \A d \in Coros : Ready(d)' <=> Ready(d)
    BY <1>1, <1>12 DEF Ready
  <2>2. cf.h \in Coros \cup {None} /\ clf.h \in Coros \cup {None}
    BY <1>2 DEF TypeOK, Frame
  <2>3. (\A d, e \in Coros : co[d] = co[e] /\ co[d] \in Busy => d = e)'
    BY <1>2, <1>12 DEF Core, Waiters, Busy
  <2>4. QED BY <1>1, <1>2, <1>12, <2>1, <2>2, <2>3 DEF Core, Waiters, Bit
<1>14. AgainFirst'
  <2>1. Again' <=> Again
    BY <1>1 DEF Again
  <2>2. InTurn => InTurn'
    <3>1. handles \in Seq(Coros) /\ UNCHANGED handles
      BY <1>1, <1>2 DEF TypeOK
    <3>2. \A i \in 1..Len(handles) : handles[i] \in Coros
      BY <3>1
    <3>3. QED BY <1>12, <3>1, <3>2 DEF InTurn
  <2>3. QED BY <1>1, <1>2, <2>1, <2>2 DEF IInv, Flow, AgainFirst
<1>15. (\A i \in 1..Len(sq) : SqPlace(sq[i]))'
  <2>1. \A x : SqPlace(x) => SqPlace(x)'
    BY <1>1 DEF SqPlace, Again
  <2>2. \A x : x.op \notin {"socket", "connect", "close"} => SqPlace(x)'
    BY DEF SqPlace
  <2>3. QED BY <1>8, <2>1, <2>2 DEF IInv, Flow, Places
<1>16. (\A i \in 1..Len(cq) : CqPlace(cq[i]))' /\ ConnPlace'
  <2>1. \A x : CqPlace(x) => CqPlace(x)'
    BY <1>1 DEF CqPlace, Again
  <2>2. ConnPlace'
    BY <1>1 DEF IInv, Flow, Places, ConnPlace
  <2>3. QED BY <1>1, <2>1, <2>2 DEF IInv, Flow, Places
<1>17. Table'
  BY <1>1, TableSame DEF IInv, Owner
<1>18. Connected'
  <2>1. (\E d \in Coros : co'[d] = "connecting") <=> (\E d \in Coros : co[d] = "connecting")
    BY <1>12
  <2>2. QED BY <1>1, <2>1 DEF IInv, Owner, Connected, Active
<1>19. Leave'
  <2>1. CASE AllGone'
    <3>1. LastHandle(refs)
      BY <1>4, <1>5, <2>1
    <3>2. /\ t = RemoveTimer /\ pc' = "submit" /\ back' = "user"
      BY <1>1, <1>7, <3>1
    <3>3. QED BY <1>1, <1>2, <1>7, <1>8, <3>2, LastLeaves
  <2>2. CASE ~AllGone'
    BY <2>2 DEF Leave
  <2>3. QED BY <2>1, <2>2
<1>20. /\ sf' \in Frame /\ cf' \in Frame /\ clf' \in Frame
       /\ fd' \in Slots \cup {NoFd} /\ connected' \in BOOLEAN
       /\ fds' \subseteq fds /\ handles' \in Seq(Coros)
       /\ connects' \in 0..MaxConnects /\ closedDuring' \in BOOLEAN
  BY <1>1, <1>2 DEF TypeOK
<1>21. (pc' = pc /\ back' = back) \/ (pc' = "submit" /\ back' = "user")
  BY <1>1
<1>22. QED BY <1>1, <1>4, <1>6, <1>8, <1>9, <1>10, <1>11, <1>13, <1>14, <1>15,
           <1>16, <1>17, <1>18, <1>19, <1>20, <1>21, UserRest

\* ~guard destroys a coroutine, with its awaitable and its client.
LEMMA DestroyCoroIInv ==
    ASSUME IInv, NEW c \in Coros, DestroyCoro(c)
    PROVE  IInv'
<1>1. PICK y : y = One(co[c] # "idle")
  OBVIOUS
<1>2. PICK u : u = IF co[c] = "connecting" THEN Cancels ELSE <<>>
  OBVIOUS
<1>3. PICK v : v = IF LastHandle(refs - y) THEN RemoveTimer ELSE <<>>
  OBVIOUS
<1>4. /\ pc = "abort" /\ co[c] # "gone" /\ co' = [co EXCEPT ![c] = "gone"]
      /\ refs' = (refs - y) - 1
      /\ tm' = tm \/ tm' = TimerCancelled
      /\ sq' = (sq \o u) \o v
      /\ IF co[c] = "connecting" \/ LastHandle(refs - y)
         THEN pc' = "submit" /\ back' = "abort"
         ELSE UNCHANGED <<pc, back>>
      /\ UNCHANGED <<sf, cf, clf, fd, connected, fds, others, handles, work, file,
                     conn, armed, cq, connects, closedDuring>>
  BY <1>1, <1>2, <1>3 DEF DestroyCoro, DropClient, fdVars, histVars
<1>5. TypeOK /\ Core /\ Control /\ Leaving /\ ~Dropping /\ sq = <<>>
  BY <1>4 DEF IInv, Core, Control, Dropping
<1>6. /\ co' \in [Coros -> {"idle", "connecting", "closing", "gone"}]
      /\ co'[c] = "gone" /\ \A d \in Coros : d # c => co'[d] = co[d]
      /\ y \in Nat
      /\ Pop(co', Coros, Alive) + 1 = Pop(co, Coros, Alive)
      /\ Pop(co', Coros, Busy) + y = Pop(co, Coros, Busy)
      /\ AllGone' => LastHandle(refs - y)
      /\ refs \in Nat /\ (refs - y) - 1 = refs - (1 + y)
  BY <1>1, <1>4, <1>5, GoFacts
<1>7. /\ tm' \in [initiated : BOOLEAN, cancelled : BOOLEAN]
      /\ tm'.initiated = tm.initiated
  BY <1>4, <1>5, TimerFacts
<1>8. /\ u \in Seq(Sqe) /\ \A i \in 1..Len(u) : u[i].op \in Notes
      /\ v \in Seq(Sqe) /\ \A i \in 1..Len(v) : v[i].op \in Notes
  BY <1>2, <1>3, NotesFacts
<1>9. PICK t \in Seq(Sqe) :
         /\ t = u \o v /\ sq' = sq \o t /\ \A i \in 1..Len(t) : t[i].op \in Notes
         /\ \A i \in 1..Len(v) : \E j \in 1..Len(t) : t[j] = v[i]
  <2>1. u \o v \in Seq(Sqe) /\ \A i \in 1..Len(u \o v) : (u \o v)[i].op \in Notes
    BY <1>8
  <2>2. \A i \in 1..Len(v) : \E j \in 1..Len(u \o v) : (u \o v)[j] = v[i]
    <3>1. ASSUME NEW i \in 1..Len(v)
          PROVE  Len(u) + i \in 1..Len(u \o v) /\ (u \o v)[Len(u) + i] = v[i]
      BY <1>8
    <3>2. QED BY <3>1
  <2>3. \A w \in Seq(Sqe) : <<>> \o w = w
    OBVIOUS
  <2>4. (sq \o u) \o v = sq \o (u \o v)
    BY <1>5, <1>8, <2>1, <2>3
  <2>5. QED BY <1>4, <2>1, <2>2, <2>4
<1>10. /\ sq' \in Seq(Sqe) /\ \A op \in Ops : Fl(op)' = Fl(op)
       /\ OfOp(sq', "timer") = OfOp(sq, "timer")
       /\ Order'
       /\ \A i \in 1..Len(sq') : sq'[i].op \in {"socket", "connect", "close"} =>
             i \in 1..Len(sq) /\ sq'[i] = sq[i]
       /\ \A i \in 1..Len(t) : \E j \in 1..Len(sq') : sq'[j] = t[i]
  BY <1>4, <1>5, <1>9, NotesQueued DEF IInv, Flow
<1>11. Exact' /\ refs' \in Nat
  <2>1. TypeOK /\ Exact /\ refs' = refs - (1 + y)
    BY <1>4, <1>5, <1>6 DEF Core
  <2>2. 1 \in Nat
    OBVIOUS
  <2>3. QED BY <1>6, <1>10, <2>1, <2>2, GoExact DEF Ops
<1>12. Flight'
  <2>1. \A op : Waits(op)' <=> Waits(op)
    BY <1>4, <1>7 DEF Waits, Active
  <2>2. QED BY <1>5, <1>10, <2>1 DEF Core, Flight, Bit
<1>13. Frames'
  BY <1>4, <1>5 DEF Core, Frames, Active
<1>14. \A d \in Coros : co'[d] \in Busy => d # c /\ co'[d] = co[d]
  BY <1>6 DEF Busy
<1>15. (pc' = "submit" \/ pc' = "abort") /\ Leaving'
  BY <1>4, <1>5 DEF Leaving
<1>16. Waiters'
  <2>1. (\A d, e \in Coros : co[d] = co[e] /\ co[d] \in Busy => d = e)'
    BY <1>5, <1>14 DEF Core, Waiters
  <2>2. QED BY <1>15, <2>1 DEF Waiters
<1>17. AgainFirst'
  BY <1>4, <1>15 DEF IInv, Flow, AgainFirst, Again
<1>18. Places'
  <2>1. \A x : SqPlace(x) => SqPlace(x)'
    BY <1>4 DEF SqPlace, Again
  <2>2. \A x : x.op \notin {"socket", "connect", "close"} => SqPlace(x)'
    BY DEF SqPlace
  <2>3. (\A i \in 1..Len(sq) : SqPlace(sq[i]))'
    BY <1>10, <2>1, <2>2 DEF IInv, Flow, Places
  <2>4. \A x : CqPlace(x) => CqPlace(x)'
    BY <1>4 DEF CqPlace, Again
  <2>5. \A x : WorkPlace(x) => WorkPlace(x)'
    BY <1>4 DEF WorkPlace
  <2>6. ConnPlace'
    BY <1>4 DEF IInv, Flow, Places, ConnPlace
  <2>7. (\A i \in 1..Len(cq) : CqPlace(cq[i]))'
    BY <1>4, <2>4 DEF IInv, Flow, Places
  <2>8. (\A i \in 1..Len(work) : WorkPlace(work[i]))'
    BY <1>4, <2>5 DEF IInv, Flow, Places
  <2>9. QED BY <2>3, <2>6, <2>7, <2>8 DEF Places
<1>19. Table' /\ FreeSlotsAreClosed'
  BY <1>4, TableSame DEF IInv, Owner, FreeSlotsAreClosed
<1>20. Connected'
  <2>1. (\E d \in Coros : co'[d] = "connecting") => (\E d \in Coros : co[d] = "connecting")
    BY <1>14 DEF Busy
  <2>2. QED BY <1>4, <2>1 DEF IInv, Owner, Connected, Active
<1>21. Leave'
  <2>1. CASE AllGone'
    <3>1. LastHandle(refs - y)
      BY <1>6, <2>1
    <3>2. v = RemoveTimer /\ pc' = "submit" /\ back' = "abort"
      BY <1>3, <1>4, <3>1
    <3>3. \A x : x \in {RemoveTimer[i] : i \in 1..Len(RemoveTimer)} =>
              \E j \in 1..Len(t) : t[j] = x
      <4>1. SUFFICES ASSUME NEW i \in 1..Len(v)
                     PROVE  \E j \in 1..Len(t) : t[j] = v[i]
        BY <3>2
      <4>2. QED BY <1>9
    <3>4. QED BY <1>4, <1>5, <1>9, <1>10, <3>2, <3>3, LastLeaves
  <2>2. CASE ~AllGone'
    BY <2>2 DEF Leave
  <2>3. QED BY <2>1, <2>2
<1>22. TypeOK'
  <2>1. pc' \in {"submit", "abort"} /\ back' \in {"clear", "abort"}
    BY <1>15 DEF Leaving
  <2>2. QED BY <1>4, <1>5, <1>6, <1>7, <1>10, <1>11, <2>1 DEF TypeOK
<1>23. Control'
  <2>1. pc' = "abort" => sq' = <<>>
    <3>1. SUFFICES ASSUME pc' = "abort" PROVE sq' = <<>>
      OBVIOUS
    <3>2. u = <<>> /\ v = <<>>
      BY <1>2, <1>3, <1>4, <3>1
    <3>3. QED BY <1>4, <1>5, <3>2
  <2>2. QED BY <1>15, <2>1 DEF Control
<1>24. End'
  BY <1>15 DEF End
<1>25. QED BY <1>10, <1>11, <1>12, <1>13, <1>16, <1>17, <1>18, <1>19, <1>20, <1>21,
           <1>22, <1>23, <1>24 DEF IInv, Core, Flow, Owner

\* The coroutine that is resumed is the one whose operation is done, and its
\* handle was collected once.
LEMMA ResumeFacts ==
    ASSUME IInv, NEW c \in Coros, pc = "user", handles # <<>>, c = Head(handles),
           handles' = Tail(handles), co' = [co EXCEPT ![c] = "idle"], refs' = refs - 1,
           UNCHANGED <<sq, work, conn, armed, cq>>
    PROVE  /\ Ready(c) /\ handles' \in Seq(Coros) /\ handles[1] = c /\ 1 \in 1..Len(handles)
           /\ co' \in [Coros -> {"idle", "connecting", "closing", "gone"}]
           /\ co'[c] = "idle" /\ \A d \in Coros : d # c => co'[d] = co[d]
           /\ \A d \in Coros : d # c => co[d] # co[c]
           /\ \A d \in Coros : Times(handles', d) = Bit(d # c /\ Ready(d))
           /\ \A op \in Ops : Fl(op)' = Fl(op)
           /\ Exact' /\ refs' \in Nat /\ Leave'
           /\ \A d, e \in Coros : co'[d] = co'[e] /\ co'[d] \in Busy => d = e
<1>1. TypeOK /\ Core /\ ~Leaving /\ ~Dropping
  BY UserFacts
<1>2. handles \in Seq(Coros)
  BY <1>1 DEF TypeOK
<1>3. handles' \in Seq(Coros) /\ handles[1] = c /\ 1 \in 1..Len(handles)
  BY <1>2, TailEntries
<1>4. \A d : /\ Times(handles, d) = Times(handles', d) + Bit(c = d)
             /\ Times(handles', d) \in Nat
  <2>1. TimesLaws(Coros)
    BY Laws
  <2>2. \A d : Times(handles, d) = Times(Tail(handles), d) + Bit(Head(handles) = d)
    BY <1>2, <2>1 DEF TimesLaws
  <2>3. \A d : Times(handles', d) \in Nat
    BY <1>3, <2>1 DEF TimesLaws
  <2>4. QED BY <2>2, <2>3
<1>5. \A d \in Coros : Times(handles, d) = Bit(Ready(d))
  BY <1>1 DEF Core, Waiters
<1>6. Ready(c) /\ Times(handles', c) = 0
  <2>1. Times(handles, c) = Times(handles', c) + 1 /\ Times(handles', c) \in Nat
    BY <1>4 DEF Bit
  <2>2. Bit(Ready(c)) = Times(handles', c) + 1
    BY <1>5, <2>1
  <2>3. QED BY <2>1, <2>2 DEF Bit
<1>7. \A d \in Coros : Times(handles', d) = Bit(d # c /\ Ready(d))
  <2>1. SUFFICES ASSUME NEW d \in Coros
                 PROVE  Times(handles', d) = Bit(d # c /\ Ready(d))
    OBVIOUS
  <2>2. CASE d = c
    BY <1>6, <2>2 DEF Bit
  <2>3. CASE d # c
    <3>1. Times(handles, d) = Times(handles', d) + 0 /\ Times(handles', d) \in Nat
      BY <1>4, <2>3 DEF Bit
    <3>2. Times(handles', d) = Bit(Ready(d))
      BY <1>5, <3>1
    <3>3. QED BY <2>3, <3>2 DEF Bit
  <2>4. QED BY <2>2, <2>3
<1>8. /\ co' \in [Coros -> {"idle", "connecting", "closing", "gone"}]
      /\ co'[c] = "idle" /\ \A d \in Coros : d # c => co'[d] = co[d]
  BY <1>1 DEF TypeOK
<1>9. co[c] \in Busy
  BY <1>6 DEF Ready, Busy
<1>10. \A d \in Coros : d # c => co[d] # co[c]
  BY <1>1, <1>9 DEF Core, Waiters
<1>11. \A op \in Ops : Fl(op)' = Fl(op)
  BY DEF Fl, Held, Bit
<1>12. Exact' /\ refs' \in Nat
  <2>1. /\ Pop(co', Coros, Alive) + Bit(co[c] \in Alive)
             = Pop(co, Coros, Alive) + Bit(co'[c] \in Alive)
        /\ Pop(co', Coros, Busy) + Bit(co[c] \in Busy)
             = Pop(co, Coros, Busy) + Bit(co'[c] \in Busy)
    BY <1>8, OneMoves
  <2>2. /\ Bit(co[c] \in Alive) = 1 /\ Bit(co'[c] \in Alive) = 1
        /\ Bit(co[c] \in Busy) = 1 /\ Bit(co'[c] \in Busy) = 0
    BY <1>8, <1>9 DEF Alive, Busy, Bit
  <2>3. \A f, S : Pop(f, Coros, S) \in Nat
    BY Laws
  <2>4. /\ Pop(co', Coros, Alive) + 0 = Pop(co, Coros, Alive)
        /\ Pop(co', Coros, Busy) + 1 = Pop(co, Coros, Busy)
    BY <2>1, <2>2, <2>3
  <2>5. TypeOK /\ Exact /\ refs' = refs - (0 + 1) /\ 0 \in Nat /\ 1 \in Nat
    BY <1>1 DEF Core
  <2>6. QED BY <1>11, <2>4, <2>5, GoExact DEF Ops
<1>13. Leave'
  BY <1>8 DEF Leave, AllGone
<1>14. \A d, e \in Coros : co'[d] = co'[e] /\ co'[d] \in Busy => d = e
  BY <1>1, <1>8 DEF Core, Waiters, Busy
<1>15. QED BY <1>3, <1>6, <1>7, <1>8, <1>10, <1>11, <1>12, <1>13, <1>14

\* connect_awaitable::await_resume: nothing of the connect is left.
LEMMA ResumeConnect ==
    ASSUME IInv, NEW c \in Coros, pc = "user", handles # <<>>, c = Head(handles),
           handles' = Tail(handles), co' = [co EXCEPT ![c] = "idle"], refs' = refs - 1,
           UNCHANGED <<tm, fd, connected, fds, others, sq, work, file, conn, armed, cq,
                       connects, closedDuring>>,
           ConnectReturns(c)
    PROVE  IInv'
<1>1. /\ co[c] = "connecting" /\ sf' = ResetFrame /\ cf' = ResetFrame
      /\ pc' = "submit" /\ back' = "user" /\ UNCHANGED clf
  BY DEF ConnectReturns
<1>2. TypeOK /\ Core /\ ~Leaving /\ ~Dropping /\ Frames /\ Waiters
  BY UserFacts DEF Core
<1>3. /\ Ready(c) /\ handles' \in Seq(Coros)
      /\ co' \in [Coros -> {"idle", "connecting", "closing", "gone"}]
      /\ co'[c] = "idle" /\ \A d \in Coros : d # c => co'[d] = co[d]
      /\ \A d \in Coros : d # c => co[d] # co[c]
      /\ \A d \in Coros : Times(handles', d) = Bit(d # c /\ Ready(d))
      /\ \A op \in Ops : Fl(op)' = Fl(op)
      /\ Exact' /\ refs' \in Nat /\ Leave'
      /\ \A d, e \in Coros : co'[d] = co'[e] /\ co'[d] \in Busy => d = e
  BY ResumeFacts
<1>4. cf.done /\ cf.initiated /\ ~Active(cf) /\ ~Active(sf)
  BY <1>1, <1>2, <1>3 DEF Ready, Frames, Active
<1>5. /\ sf' \in Frame /\ cf' \in Frame
      /\ cf'.h = None /\ cf'.res = Ok /\ ~cf'.initiated /\ ~cf'.done
      /\ sf'.res = Ok /\ ~sf'.initiated /\ ~sf'.done
      /\ ~Active(cf') /\ ~Active(sf')
  BY <1>1, ResetFacts DEF Active
<1>6. /\ conn = NoConn
      /\ \A i \in 1..Len(sq) : sq[i].op \notin {"connect", "socket"}
      /\ \A i \in 1..Len(cq) : cq[i].op \notin {"connect", "socket"}
  BY <1>2, <1>4, NoConnect
<1>7. Flight'
  <2>1. \A op : Waits(op)' <=> Waits(op)
    BY <1>1, <1>4, <1>5 DEF Waits, Active
  <2>2. QED BY <1>2, <1>3, <2>1 DEF Core, Flight, Bit
<1>8. Frames'
  BY <1>1, <1>2, <1>5 DEF Frames, Active
<1>9. \A d \in Coros : /\ co'[d] # "connecting"
                       /\ co'[d] = "closing" <=> co[d] = "closing"
  BY <1>1, <1>3
<1>10. Waiters'
  <2>1. \A d \in Coros : Ready(d)' <=> d # c /\ Ready(d)
    BY <1>1, <1>3, <1>9 DEF Ready
  <2>2. clf.h \in Coros \cup {None}
    BY <1>2 DEF TypeOK, Frame
  <2>3. clf'.h # None => co'[clf'.h] = "closing"
    BY <1>1, <1>2, <1>9, <2>2 DEF Waiters
  <2>4. \A d \in Coros : co'[d] = "closing" => clf'.initiated
    BY <1>1, <1>2, <1>9 DEF Waiters
  <2>5. \A d \in Coros : Times(handles', d) = Bit(Ready(d))'
    BY <1>3, <2>1 DEF Bit
  <2>6. QED BY <1>3, <1>5, <1>9, <2>3, <2>4, <2>5 DEF Waiters
<1>11. Order'
  BY DEF IInv, Flow, Order
<1>12. AgainFirst'
  BY <1>5 DEF AgainFirst, Again
<1>13. (\A i \in 1..Len(sq) : SqPlace(sq[i]))'
  <2>1. \A x : SqPlace(x) /\ x.op \notin {"connect", "socket"} => SqPlace(x)'
    BY DEF SqPlace
  <2>2. QED BY <1>6, <2>1 DEF IInv, Flow, Places
<1>14. (\A i \in 1..Len(cq) : CqPlace(cq[i]))'
  <2>1. \A x : CqPlace(x) /\ x.op \notin {"connect", "socket"} => CqPlace(x)'
    BY DEF CqPlace
  <2>2. QED BY <1>6, <2>1 DEF IInv, Flow, Places
<1>15. ConnPlace'
  BY <1>6 DEF ConnPlace
<1>16. Table'
  BY TableSame DEF IInv, Owner
<1>17. Connected'
  BY <1>1, <1>4, <1>5 DEF IInv, Owner, Connected
<1>18. /\ clf' \in Frame /\ tm' \in [initiated : BOOLEAN, cancelled : BOOLEAN]
       /\ fd' \in Slots \cup {NoFd} /\ connected' \in BOOLEAN /\ fds' \subseteq fds
       /\ sq' \in Seq(Sqe)
       /\ connects' \in 0..MaxConnects /\ closedDuring' \in BOOLEAN
  BY <1>1, <1>2 DEF TypeOK
<1>19. QED BY <1>1, <1>3, <1>5, <1>7, <1>8, <1>10, <1>11, <1>12, <1>13, <1>14, <1>15,
           <1>16, <1>17, <1>18, UserRest

\* stream_close_awaitable::await_resume; the client has no slot any more.
LEMMA ResumeClose ==
    ASSUME IInv, NEW c \in Coros, pc = "user", handles # <<>>, c = Head(handles),
           handles' = Tail(handles), co' = [co EXCEPT ![c] = "idle"], refs' = refs - 1,
           UNCHANGED <<tm, fd, connected, fds, others, sq, work, file, conn, armed, cq,
                       connects, closedDuring>>,
           CloseReturns(c)
    PROVE  IInv'
<1>1. /\ co[c] = "closing" /\ clf' = ResetFrame /\ UNCHANGED <<sf, cf, pc, back>>
  BY DEF CloseReturns
<1>2. TypeOK /\ Core /\ ~Leaving /\ ~Dropping /\ Frames /\ Waiters
  BY UserFacts DEF Core
<1>3. /\ Ready(c) /\ handles' \in Seq(Coros) /\ handles[1] = c /\ 1 \in 1..Len(handles)
      /\ co' \in [Coros -> {"idle", "connecting", "closing", "gone"}]
      /\ co'[c] = "idle" /\ \A d \in Coros : d # c => co'[d] = co[d]
      /\ \A d \in Coros : d # c => co[d] # co[c]
      /\ \A d \in Coros : Times(handles', d) = Bit(d # c /\ Ready(d))
      /\ \A op \in Ops : Fl(op)' = Fl(op)
      /\ Exact' /\ refs' \in Nat /\ Leave'
      /\ \A d, e \in Coros : co'[d] = co'[e] /\ co'[d] \in Busy => d = e
  BY ResumeFacts
<1>4. clf.done /\ ~Active(clf) /\ fd = NoFd
  BY <1>1, <1>2, <1>3 DEF Ready, Frames, Active
<1>5. /\ clf' \in Frame /\ clf'.h = None /\ ~clf'.initiated /\ ~clf'.done
      /\ ~Active(clf')
  BY <1>1, ResetFacts DEF Active
<1>6. ~Again
  <2>1. SUFFICES ASSUME Again PROVE FALSE
    OBVIOUS
  <2>2. InTurn
    BY <1>2, <2>1 DEF IInv, Flow, AgainFirst
  <2>3. PICK j \in 1..Len(handles) : j < 1
    BY <1>1, <1>3, <2>2 DEF InTurn
  <2>4. QED BY <2>3
<1>7. Flight'
  <2>1. \A op : Waits(op)' <=> Waits(op)
    BY <1>1, <1>4, <1>5 DEF Waits, Active
  <2>2. QED BY <1>1, <1>2, <1>3, <2>1 DEF Core, Flight, Bit
<1>8. Frames'
  BY <1>1, <1>2, <1>5 DEF Frames, Active
<1>9. \A d \in Coros : /\ co'[d] # "closing"
                       /\ co'[d] = "connecting" <=> co[d] = "connecting"
  BY <1>1, <1>3
<1>10. Waiters'
  <2>1. \A d \in Coros : Ready(d)' <=> d # c /\ Ready(d)
    BY <1>1, <1>3, <1>9 DEF Ready
  <2>2. cf.h \in Coros \cup {None}
    BY <1>2 DEF TypeOK, Frame
  <2>3. cf'.h # None => co'[cf'.h] = "connecting"
    BY <1>1, <1>2, <1>9, <2>2 DEF Waiters
  <2>4. cf'.initiated <=> \E d \in Coros : co'[d] = "connecting"
    BY <1>1, <1>2, <1>9 DEF Waiters
  <2>5. \A d \in Coros : Times(handles', d) = Bit(Ready(d))'
    BY <1>3, <2>1 DEF Bit
  <2>6. QED BY <1>3, <1>5, <1>9, <2>3, <2>4, <2>5 DEF Waiters
<1>11. Order'
  BY DEF IInv, Flow, Order
<1>12. AgainFirst'
  BY <1>1, <1>6 DEF AgainFirst, Again
<1>13. (\A i \in 1..Len(sq) : SqPlace(sq[i]))'
  <2>1. \A x : SqPlace(x) => SqPlace(x)'
    BY <1>1 DEF SqPlace, Again
  <2>2. QED BY <2>1 DEF IInv, Flow, Places
<1>14. (\A i \in 1..Len(cq) : CqPlace(cq[i]))'
  <2>1. \A x : CqPlace(x) => CqPlace(x)'
    BY <1>1, <1>4 DEF CqPlace, Again
  <2>2. QED BY <2>1 DEF IInv, Flow, Places
<1>15. ConnPlace'
  BY <1>1, <1>4 DEF IInv, Flow, Places, ConnPlace
<1>16. Table'
  BY TableSame DEF IInv, Owner
<1>17. Connected'
  <2>1. (\E d \in Coros : co'[d] = "connecting") <=> (\E d \in Coros : co[d] = "connecting")
    BY <1>9
  <2>2. QED BY <1>1, <1>4, <1>5, <2>1 DEF IInv, Owner, Connected, Active
<1>18. /\ sf' \in Frame /\ cf' \in Frame
       /\ tm' \in [initiated : BOOLEAN, cancelled : BOOLEAN]
       /\ fd' \in Slots \cup {NoFd} /\ connected' \in BOOLEAN /\ fds' \subseteq fds
       /\ sq' \in Seq(Sqe)
       /\ connects' \in 0..MaxConnects /\ closedDuring' \in BOOLEAN
  BY <1>1, <1>2 DEF TypeOK
<1>19. QED BY <1>1, <1>3, <1>5, <1>7, <1>8, <1>10, <1>11, <1>12, <1>13, <1>14, <1>15,
           <1>16, <1>17, <1>18, UserRest

\* The coroutine at the front is resumed.
LEMMA ResumeIInv ==
    ASSUME IInv, Resume
    PROVE  IInv'
<1>1. PICK c : c = Head(handles)
  OBVIOUS
<1>2. /\ pc = "user" /\ handles # <<>> /\ (ConnectReturns(c) \/ CloseReturns(c))
      /\ co' = [co EXCEPT ![c] = "idle"] /\ handles' = Tail(handles) /\ refs' = refs - 1
      /\ UNCHANGED <<tm, fd, connected, fds, others, sq, work, file, conn, armed, cq,
                     connects, closedDuring>>
  BY <1>1 DEF Resume, fdVars, kernVars, histVars
<1>3. c \in Coros
  <2>1. handles \in Seq(Coros)
    BY DEF IInv, Core, TypeOK
  <2>2. QED BY <1>1, <1>2, <2>1, TailEntries
<1>4. QED BY <1>1, <1>2, <1>3, ResumeConnect, ResumeClose

-----------------------------------------------------------------------------
(* Every step keeps the invariant, and it is what the runs check.          *)

\* A step of the client, of the loop, of the kernel or of another socket.
LEMMA NextIInv ==
    ASSUME IInv, Uses = {}, [Next]_vars
    PROVE  IInv'
<1>1. CASE UserStep
  <2>1. PICK c \in Coros : \/ ConnectAgain(c) \/ AsyncConnect(c)
                           \/ ConnectNoSlot(c) \/ ConnectBusy(c)
                           \/ AsyncClose(c) \/ LetGo(c)
    BY <1>1 DEF UserStep
  <2>2. QED BY <2>1, ConnectAgainIInv, AsyncConnectIInv, ConnectNoSlotIInv,
               ConnectBusyIInv, AsyncCloseIInv, LetGoIInv
<1>2. CASE LoopStep
  <2>1. CASE \E c \in Coros : DestroyCoro(c)
    BY <2>1, DestroyCoroIInv
  <2>2. CASE SubmitAndWait \/ SubmitFull \/ SubmitDone \/ ReapDone
    BY <2>2, ThreadIInv
  <2>3. CASE Resume \/ KernelTakes \/ KernelWorks \/ Reap \/ Destruct
    BY <2>3, ResumeIInv, KernelTakesIInv, KernelWorksIInv, ReapIInv, DestructIInv
  <2>4. CASE FlushStart \/ Flush \/ FlushDone
    BY <2>4, FlushStartIInv, FlushIInv, FlushDoneIInv
  <2>5. QED BY <1>2, <2>1, <2>2, <2>3, <2>4 DEF LoopStep
<1>3. CASE KernelConnects
  BY <1>3, KernelConnectsIInv
<1>4. CASE OtherStep
  BY <1>4, OtherIInv
<1>5. CASE Abort \/ UNCHANGED vars
  BY <1>5, ThreadIInv
<1>6. CASE ConnectionLost
  BY <1>6, ConnectionLostIInv
<1>7. QED BY <1>1, <1>2, <1>3, <1>4, <1>5, <1>6 DEF Next

\* The counts of the properties are those of the invariant.
LEMMA CountsAgree ==
    ASSUME IInv
    PROVE  /\ InFlight("timer") = Fl("timer") /\ InFlight("socket") = Fl("socket")
           /\ Connecting = Fl("connect") /\ InFlight("close") = Fl("close")
           /\ Handles = Pop(co, Coros, Alive) + Pop(co, Coros, Busy)
           /\ \A c : Cardinality({i \in 1..Len(handles) : handles[i] = c}) = Times(handles, c)
<1>1. TypeOK
  BY DEF IInv, Core
<1>2. ASSUME NEW s, NEW op PROVE Count(s, {op}) = OfOp(s, op)
  <2>1. {i \in 1..Len(s) : s[i].op \in {op}} = {i \in 1..Len(s) : s[i].op = op}
    OBVIOUS
  <2>2. QED BY <2>1 DEF Count, OfOp
<1>3. \A op : /\ OfOp(sq, op) \in Nat /\ OfOp(work, op) \in Nat
              /\ OfOp(cq, op) \in Nat
  BY <1>1, Numbers
<1>4. \A op : InFlight(op) = (((OfOp(sq, op) + OfOp(work, op)) + OfOp(cq, op))
                              + Bit(op = "timer" /\ armed))
                             + Bit(op = "connect" /\ conn # NoConn)
  <2>1. ASSUME NEW op
        PROVE  /\ Count(sq, {op}) = OfOp(sq, op) /\ Count(work, {op}) = OfOp(work, op)
               /\ Count(cq, {op}) = OfOp(cq, op)
    BY <1>2, Zenon
  <2>2. \A op : /\ One(op = "timer" /\ armed) = Bit(op = "timer" /\ armed)
                /\ One(op = "connect" /\ conn # NoConn) = Bit(op = "connect" /\ conn # NoConn)
    BY DEF One, Bit
  <2>3. QED BY <2>1, <2>2 DEF InFlight
<1>5. InFlight("timer") = Fl("timer")
  BY <1>4, Sums DEF Bit
<1>6. InFlight("socket") = Fl("socket")
  BY <1>4, Sums DEF Bit
<1>7. InFlight("close") = Fl("close")
  BY <1>4, Sums DEF Bit
<1>8. Connecting = Fl("connect")
  <2>1. OfOp(work, "sever") = 0
    <3>1. \A i \in 1..Len(work) : work[i].op # "sever"
      BY DEF IInv, Flow, Places, WorkPlace
    <3>2. work \in Seq(Sqe) /\ OpLaws(Sqe)
      BY <1>1, Laws DEF TypeOK
    <3>3. QED BY <3>1, <3>2 DEF OpLaws
  <2> DEFINE a == OfOp(sq, "connect")
             b == OfOp(work, "connect")
             c == OfOp(cq, "connect")
             d == Bit(conn # NoConn)
             e == OfOp(sq, "socket")
  <2>2. a \in Nat /\ b \in Nat /\ c \in Nat /\ e \in Nat
    BY <1>3
  <2>3. d \in Nat
    BY DEF Bit
  <2>4. InFlight("connect") = (((a + b) + c) + 0) + d
    BY <1>4 DEF Bit
  <2>5. Fl("connect") = (((a + b) + c) + d) + e
    BY Sums
  <2>6. Connecting = (InFlight("connect") + e) + 0
    BY <1>2, <2>1 DEF Connecting
  <2> HIDE DEF a, b, c, d, e
  <2>7. QED BY <2>2, <2>3, <2>4, <2>5, <2>6
<1>9. Handles = Pop(co, Coros, Alive) + Pop(co, Coros, Busy)
  <2>1. {c \in Coros : co[c] # "gone"} = {c \in Coros : co[c] \in Alive}
    BY <1>1 DEF TypeOK, Alive
  <2>2. QED BY <2>1 DEF Handles, Pop, Busy
<1>10. \A c : Cardinality({i \in 1..Len(handles) : handles[i] = c}) = Times(handles, c)
  BY DEF Times
<1>11. QED BY <1>5, <1>6, <1>7, <1>8, <1>9, <1>10

\* The references are counted exactly and the last handle is known.
LEMMA IInvReferences ==
    ASSUME IInv
    PROVE  References
<1>1. TypeOK /\ Control /\ Exact
  BY DEF IInv, Core
<1> DEFINE h == Pop(co, Coros, Alive) + Pop(co, Coros, Busy)
           a == Fl("timer")
           b == Fl("socket")
           c == Fl("connect")
           d == Fl("close")
<1>2. h \in Nat /\ a \in Nat /\ b \in Nat /\ c \in Nat /\ d \in Nat
  BY <1>1, Numbers
<1>3. Handles = h
  BY CountsAgree
<1>4. RefCountExact
  <2>1. refs = h + (((a + b) + c) + d)
    BY <1>1 DEF Exact
  <2>2. RefCountExact <=> refs = (((h + a) + b) + c) + d
    BY CountsAgree DEF RefCountExact
  <2> HIDE DEF h, a, b, c, d
  <2>3. QED BY <1>2, <2>1, <2>2
<1>5. LastHandleIsLast
  <2>1. SUFFICES ASSUME ~Dropping PROVE refs - ActiveFrames = Handles
    BY DEF LastHandleIsLast, Dropping
  <2>2. refs = h + ActiveFrames /\ ActiveFrames \in Nat
    BY <2>1, ActiveSum
  <2> HIDE DEF h
  <2>3. QED BY <1>2, <1>3, <2>2
<1>6. NothingLeftBehind
  <2>1. SUFFICES ASSUME pc = "end", conn = NoConn PROVE refs = 0 /\ fds = Slots
    BY DEF NothingLeftBehind
  <2>2. refs = 0 /\ fd = NoFd
    BY <2>1 DEF IInv, End
  <2>3. others = {}
    BY <1>1, <2>1 DEF Control
  <2>4. QED BY <2>2, <2>3 DEF IInv, Owner, Table, SlotsPartition
<1>7. QED BY <1>1, <1>4, <1>5, <1>6 DEF References

\* Whoever waits is resumed once, by the completions of his own attempt.
LEMMA IInvResumption ==
    ASSUME IInv
    PROVE  Resumption
<1>1. TypeOK /\ Core /\ Frames /\ Waiters
  BY DEF IInv, Core
<1>2. CompletionsAreOfThisConnect
  <2>1. SUFFICES ASSUME ~Dropping, NEW i \in 1..Len(cq)
                 PROVE  /\ cq[i].op = "socket" => Active(sf) /\ sf.n = cq[i].n
                        /\ cq[i].op = "connect" => Active(cf) /\ cf.n = cq[i].n
    BY DEF CompletionsAreOfThisConnect, Dropping
  <2>2. \A op \in Ops : Fl(op) \in {0, 1} /\ (Fl(op) = 1 <=> Waits(op))
    BY <1>1, <2>1, AtMostOne
  <2>3. CqPlace(cq[i]) /\ OfOp(cq, cq[i].op) > 0
    BY <1>1, Queued DEF IInv, Flow, Places
  <2>4. ASSUME cq[i].op = "socket" PROVE Active(sf) /\ sf.n = cq[i].n
    <3>1. Fl("socket") # 0
      BY <1>1, <2>2, <2>3, <2>4, OtherPlaces DEF Ops
    <3>2. Active(sf)
      BY <2>2, <3>1 DEF Ops, Waits
    <3>3. QED BY <1>1, <2>3, <2>4, <3>2 DEF CqPlace, Frames, Active
  <2>5. ASSUME cq[i].op = "connect" PROVE Active(cf) /\ cf.n = cq[i].n
    <3>1. Fl("connect") # 0
      BY <1>1, <2>2, <2>3, <2>5, ConnectPlaces DEF Ops
    <3>2. Active(cf)
      BY <2>2, <3>1 DEF Ops, Waits
    <3>3. QED BY <2>3, <2>5, <3>2 DEF CqPlace
  <2>6. QED BY <2>4, <2>5
<1>3. ResumedOnce
  <2>1. SUFFICES ASSUME pc \in {"user", "submit", "reap"}, back \in {"user", "reap"},
                        NEW c \in Coros
                 PROVE  Times(handles, c) =
                          IF co[c] = "connecting"
                          THEN IF cf.h = c THEN 1 - Connecting ELSE 1
                          ELSE IF co[c] = "closing"
                          THEN IF clf.h = c THEN 1 - InFlight("close") ELSE 1
                          ELSE 0
    BY CountsAgree DEF ResumedOnce
  <2>2. ~Dropping /\ ~Leaving
    BY <2>1 DEF Dropping, Leaving
  <2>3. Connecting = Bit(Active(cf)) /\ InFlight("close") = Bit(Active(clf))
    BY <1>1, <2>2, CountsAgree DEF Core, Flight, Ops, Waits, Bit
  <2>4. Times(handles, c) = Bit(Ready(c))
    BY <1>1, <2>2 DEF Waiters
  <2>5. cf.h \in Coros \cup {None} /\ clf.h \in Coros \cup {None} /\ c # None
    BY <1>1, ClientAssumption DEF TypeOK, Frame
  <2>6. CASE co[c] = "connecting"
    <3>1. cf.initiated
      BY <1>1, <2>2, <2>6 DEF Waiters
    <3>2. Active(cf) <=> cf.h = c
      <4>1. Active(cf) => cf.h # None /\ co[cf.h] = "connecting"
        BY <1>1, <2>2 DEF Frames, Waiters
      <4>2. Active(cf) => cf.h = c
        BY <1>1, <2>5, <2>6, <4>1 DEF Waiters, Busy
      <4>3. cf.h = c => Active(cf)
        BY <1>1, <2>5 DEF Frames
      <4>4. QED BY <4>2, <4>3
    <3>3. Ready(c) <=> ~Active(cf)
      BY <2>6, <3>1 DEF Ready, Active
    <3>4. QED BY <2>3, <2>4, <2>6, <3>2, <3>3 DEF Bit
  <2>7. CASE co[c] = "closing"
    <3>1. clf.initiated
      BY <1>1, <2>2, <2>7 DEF Waiters
    <3>2. Active(clf) <=> clf.h = c
      <4>1. Active(clf) => clf.h # None /\ co[clf.h] = "closing"
        BY <1>1, <2>2 DEF Frames, Waiters
      <4>2. Active(clf) => clf.h = c
        BY <1>1, <2>5, <2>7, <4>1 DEF Waiters, Busy
      <4>3. clf.h = c => Active(clf)
        BY <1>1, <2>5 DEF Frames
      <4>4. QED BY <4>2, <4>3
    <3>3. Ready(c) <=> ~Active(clf)
      BY <2>7, <3>1 DEF Ready, Active
    <3>4. QED BY <2>3, <2>4, <2>7, <3>2, <3>3 DEF Bit
  <2>8. CASE co[c] # "connecting" /\ co[c] # "closing"
    BY <2>4, <2>8 DEF Ready, Bit
  <2>9. QED BY <2>6, <2>7, <2>8
<1>4. QED BY <1>2, <1>3 DEF Resumption

\* A connect that succeeded left a connected socket in the slot.
LEMMA IInvSuccess ==
    ASSUME IInv
    PROVE  SuccessMeansConnected
<1>1. Frames /\ Connected
  BY DEF IInv, Core, Owner
<1>2. SUFFICES ASSUME \E c \in Coros : co[c] = "connecting", cf.done, cf.res = Ok,
                      ~closedDuring
               PROVE  connected /\ fd # NoFd /\ file[fd] = "connected"
  BY DEF SuccessMeansConnected
<1>3. cf.initiated /\ ~Active(cf)
  BY <1>1, <1>2 DEF Frames, Active
<1>4. connected /\ fd # NoFd /\ ~clf.initiated
  BY <1>1, <1>2, <1>3 DEF Connected
<1>5. QED BY <1>1, <1>3, <1>4 DEF Connected

\* The invariant holds of a client that is used as intended, by any number of
\* coroutines: they do not connect or close a client while another one does.
LEMMA Inductive ==
    ASSUME Uses = {}
    PROVE  Spec => []IInv
<1>1. Init => IInv
  BY InitIInv
<1>2. IInv /\ [Next]_vars => IInv'
  BY NextIInv
<1>3. QED BY <1>1, <1>2, PTL DEF Spec

\* The client_impl has a reference for each handle and for each operation the
\* kernel still has to complete, in whatever order connects, closes, cancels and
\* destructors come; ~client knows the last handle, so the timer is stopped once;
\* and nothing is left behind when run() was left by an exception.
THEOREM ReferencesHold ==
    ASSUME Uses = {}
    PROVE  Spec => []References
<1>1. IInv => References
  BY IInvReferences
<1>2. QED BY <1>1, Inductive, PTL

\* Whoever connects or closes is resumed once, by the completions of his own
\* attempt: no late CQE is taken for one of the next connect.
THEOREM ResumptionHolds ==
    ASSUME Uses = {}
    PROVE  Spec => []Resumption
<1>1. IInv => Resumption
  BY IInvResumption
<1>2. QED BY <1>1, Inductive, PTL

\* A slot of the file table is free, the client's, or another socket's, and a free
\* one holds no open file, although the slot is closed by the kernel in one place
\* and given back by the loop in another.
THEOREM SlotsSoundHolds ==
    ASSUME Uses = {}
    PROVE  Spec => []SlotsSound
<1>1. IInv => SlotsSound
  BY DEF IInv, Owner, Table, SlotsSound
<1>2. QED BY <1>1, Inductive, PTL

\* A connect that is about to return success leaves a client with a slot whose
\* socket is connected, unless somebody closed the client meanwhile.
THEOREM SuccessMeansConnectedHolds ==
    ASSUME Uses = {}
    PROVE  Spec => []SuccessMeansConnected
<1>1. IInv => SuccessMeansConnected
  BY IInvSuccess
<1>2. QED BY <1>1, Inductive, PTL
=============================================================================
